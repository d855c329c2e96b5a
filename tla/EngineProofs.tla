---------------------------- MODULE EngineProofs ----------------------------
(***************************************************************************)
(* Theorems about WorkflowEngine, for every workflow graph, every number   *)
(* of drives and clients, every fault set and every bound: the types and   *)
(* the numbers of the attempts, then DependenciesSettled, SkipsAreSound,   *)
(* CompletedMeansSettled, the finality of finished rows,                   *)
(* FirstDriveFollowsConditions, NothingStranded and the refinement of      *)
(* AttemptLog.                                                             *)
(*                                                                         *)
(* The argument.  A task that has not reported yet owns its row (Owned):   *)
(* no two tasks own the same row, and a finished row has no owner, so a    *)
(* COMPLETED, FAILED or SKIPPED row stands for ever.  What a drive has     *)
(* concluded from such rows therefore stays true (DriveInv), whatever      *)
(* other drives, operators and sweeps do.  A loop with nothing left to do  *)
(* has been everywhere (LoopInv), because the graph is acyclic.            *)
(*                                                                         *)
(* Nothing is stranded, because an instance in RUNNING has a drive and an  *)
(* attempt in RUNNING a task (QuietInv).  The first drive follows the      *)
(* conditions, because until a resumption it holds an edge active only     *)
(* once it was taken (FollowInv).  One drive at a time keeps the attempt   *)
(* log, because its tasks know the attempts of their steps (LogInv).       *)
(***************************************************************************)
EXTENDS WorkflowEngine, FiniteSetTheorems, TLAPS

USE DEF Places, InstStates, RowStates, TaskPlaces

-----------------------------------------------------------------------------
(* Attempt numbers.                                                        *)

\* A row's number never exceeds its place in the log, whoever appended it;
\* hence the numbers of a step are bounded and LastAttempt is their maximum.
NumberedLog(q) == \A i \in DOMAIN q : q[i].attempt <= i

NumberedTask(k, q) ==
  /\ k.pc = "create" => k.attempt \in 1 .. Len(q) + 1
  /\ k.pc \in {"run", "save"} => k.row \in DOMAIN q /\ k.attempt \in 1 .. k.row

Numbered == \A s \in Steps : /\ NumberedLog(rows[s])
                             /\ \A d \in Drives : NumberedTask(task[d][s], rows[s])

TypeInv == TypeOK /\ Numbered

\* A bounded nonempty set of naturals has a maximum: the member with the
\* fewest members above it.
LEMMA BoundedMax ==
  ASSUME NEW S, S \subseteq Nat, S # {}, NEW b \in Nat, \A n \in S : n <= b
  PROVE  Max(S) \in S /\ \A n \in S : Max(S) >= n
<1> DEFINE Above(m) == {n \in S : n > m}
           All == {Above(m) : m \in S}
<1>1. IsFiniteSet(S)
  BY FS_BoundedSetOfNaturals
<1>2. IsWellFoundedOn(StrictSubsetOrdering(S), SUBSET S)
  BY <1>1, FS_StrictSubsetOrderingWellFounded, FS_FiniteSubsetsOfFinite
<1>3. All \subseteq SUBSET S /\ All # {}
  OBVIOUS
<1>4. PICK U \in All : \A V \in All : ~(<<V, U>> \in StrictSubsetOrdering(S))
  <2> HIDE DEF All
  <2> QED BY <1>2, <1>3, WFMin
<1>5. PICK m \in S : U = Above(m)
  OBVIOUS
<1>6. \A n \in S : m >= n
  <2> SUFFICES ASSUME NEW n \in S, n > m PROVE FALSE
    OBVIOUS
  <2>1. \A x \in S : x > n => x > m
    BY m \in Nat, n \in Nat, \A x \in S : x \in Nat
  <2>2. Above(n) \subseteq U /\ n \in U /\ ~(n > n)
    <3>1. U = {x \in S : x > m}
      BY <1>5
    <3>2. ~(n > n)
      BY n \in Nat
    <3> HIDE DEF All
    <3> QED BY <2>1, <3>1, <3>2
  <2>3. <<Above(n), U>> \in StrictSubsetOrdering(S)
    BY <2>2, <1>3 DEF StrictSubsetOrdering
  <2> QED BY <1>4, <2>3
<1> QED BY <1>6 DEF Max

\* The highest attempt number of a step is a number no larger than its log,
\* and no attempt of the step has a higher one.
LEMMA LastAttemptType ==
  ASSUME TypeInv, NEW s \in Steps
  PROVE  /\ LastAttempt(s) \in 0 .. Len(rows[s])
         /\ \A i \in DOMAIN rows[s] : rows[s][i].attempt <= LastAttempt(s)
<1> DEFINE A == {0} \cup {rows[s][i].attempt : i \in DOMAIN rows[s]}
<1>1. rows[s] \in Seq(RowType) /\ Len(rows[s]) \in Nat /\ DOMAIN rows[s] = 1 .. Len(rows[s])
  BY DEF TypeInv, TypeOK
<1>2. \A i \in DOMAIN rows[s] : rows[s][i].attempt \in Nat /\ rows[s][i].attempt <= i
  <2> TAKE i \in DOMAIN rows[s]
  <2>1. rows[s][i] \in RowType
    BY <1>1
  <2>2. rows[s][i].attempt \in Nat
    BY <2>1 DEF RowType
  <2> QED BY <2>2 DEF TypeInv, Numbered, NumberedLog
<1>3. A \subseteq Nat /\ 0 \in A /\ \A n \in A : n <= Len(rows[s])
  BY <1>1, <1>2
<1>4. Max(A) \in A /\ \A n \in A : Max(A) >= n
  <2>1. A # {}
    OBVIOUS
  <2> HIDE DEF A
  <2> QED BY <1>1, <1>3, <2>1, BoundedMax
<1>5. Max(A) \in Nat /\ Max(A) <= Len(rows[s])
  <2> HIDE DEF A
  <2> QED BY <1>3, <1>4
<1>6. \A i \in DOMAIN rows[s] : rows[s][i].attempt <= Max(A)
  <2>1. \A i \in DOMAIN rows[s] : rows[s][i].attempt \in A
    OBVIOUS
  <2> HIDE DEF A
  <2> QED BY <1>2, <1>4, <1>5, <2>1
<1> QED BY <1>1, <1>5, <1>6 DEF LastAttempt

-----------------------------------------------------------------------------
(* The three ways in which the rows change.                                *)

\* What type correctness says of one log.
LEMMA RowsType ==
  ASSUME TypeOK, NEW s \in Steps
  PROVE  /\ rows[s] \in Seq(RowType) /\ Len(rows[s]) \in Nat
         /\ DOMAIN rows[s] = 1 .. Len(rows[s])
         /\ \A i \in DOMAIN rows[s] : /\ rows[s][i] \in RowType
                                      /\ rows[s][i].attempt \in Nat \ {0}
                                      /\ rows[s][i].state \in RowStates
<1>1. rows[s] \in Seq(RowType) /\ Len(rows[s]) \in Nat /\ DOMAIN rows[s] = 1 .. Len(rows[s])
  BY DEF TypeOK
<1>2. \A i \in DOMAIN rows[s] : rows[s][i] \in RowType
  BY <1>1
<1> QED BY <1>1, <1>2 DEF RowType

\* A row is appended: an attempt is created, a skip is recorded.
LEMMA RowAppended ==
  ASSUME TypeOK, NEW s \in Steps, NEW r \in RowType,
         rows' = [rows EXCEPT ![s] = Append(@, r)]
  PROVE  /\ rows' \in [Steps -> Seq(RowType)]
         /\ Len(rows'[s]) = Len(rows[s]) + 1
         /\ DOMAIN rows'[s] = 1 .. Len(rows[s]) + 1
         /\ rows'[s][Len(rows[s]) + 1] = r
         /\ \A i \in DOMAIN rows[s] : rows'[s][i] = rows[s][i]
         /\ \A t \in Steps \ {s} : rows'[t] = rows[t]
<1>1. rows \in [Steps -> Seq(RowType)]
  BY DEF TypeOK
<1>2. rows'[s] = Append(rows[s], r) /\ \A t \in Steps \ {s} : rows'[t] = rows[t]
  BY <1>1
<1>3. Append(rows[s], r) \in Seq(RowType)
  BY <1>1
<1>4. /\ Len(Append(rows[s], r)) = Len(rows[s]) + 1
      /\ DOMAIN Append(rows[s], r) = 1 .. Len(rows[s]) + 1
      /\ Append(rows[s], r)[Len(rows[s]) + 1] = r
      /\ \A i \in 1 .. Len(rows[s]) : Append(rows[s], r)[i] = rows[s][i]
  BY <1>1
<1> QED BY <1>1, <1>2, <1>3, <1>4, RowsType

\* A row changes state: an attempt ends.
LEMMA RowUpdated ==
  ASSUME TypeOK, NEW s \in Steps, NEW i \in DOMAIN rows[s], NEW st \in RowStates,
         SetRow(s, i, st)
  PROVE  /\ rows' \in [Steps -> Seq(RowType)]
         /\ Len(rows'[s]) = Len(rows[s]) /\ DOMAIN rows'[s] = DOMAIN rows[s]
         /\ rows'[s][i] = Attempt(rows[s][i].attempt, st)
         /\ \A j \in DOMAIN rows[s] \ {i} : rows'[s][j] = rows[s][j]
         /\ \A t \in Steps \ {s} : rows'[t] = rows[t]
<1> DEFINE r == Attempt(rows[s][i].attempt, st)
<1>1. rows \in [Steps -> Seq(RowType)]
  BY DEF TypeOK
<1>2. r \in RowType
  BY RowsType DEF Attempt, RowType
<1>3. rows'[s] = [rows[s] EXCEPT ![i] = r] /\ \A t \in Steps \ {s} : rows'[t] = rows[t]
  BY <1>1 DEF SetRow
<1> HIDE DEF r
<1>4. [rows[s] EXCEPT ![i] = r] \in Seq(RowType)
  BY <1>1, <1>2
<1>5. /\ Len([rows[s] EXCEPT ![i] = r]) = Len(rows[s])
      /\ DOMAIN [rows[s] EXCEPT ![i] = r] = DOMAIN rows[s]
  BY <1>1
<1>6. rows' = [rows EXCEPT ![s] = [rows[s] EXCEPT ![i] = r]]
  BY <1>1 DEF SetRow, r
<1>7. rows' \in [Steps -> Seq(RowType)]
  BY <1>1, <1>4, <1>6
<1> QED BY <1>3, <1>5, <1>7 DEF r

\* The RUNNING rows of some steps become CANCELLED.
LEMMA RowsCancelled ==
  ASSUME TypeOK, NEW S, rows' = CancelRows(S)
  PROVE  /\ rows' \in [Steps -> Seq(RowType)]
         /\ \A s \in Steps :
              /\ Len(rows'[s]) = Len(rows[s]) /\ DOMAIN rows'[s] = DOMAIN rows[s]
              /\ \A i \in DOMAIN rows[s] :
                   /\ rows'[s][i].attempt = rows[s][i].attempt
                   /\ \/ rows'[s][i].state = rows[s][i].state
                      \/ rows[s][i].state = "RUNNING" /\ rows'[s][i].state = "CANCELLED"
<1> DEFINE r(s, i) == IF s \in S /\ rows[s][i].state = "RUNNING"
                      THEN Attempt(rows[s][i].attempt, "CANCELLED") ELSE rows[s][i]
           q(s) == [i \in DOMAIN rows[s] |-> r(s, i)]
<1>1. rows' = [s \in Steps |-> q(s)]
  BY DEF CancelRows
<1>2. ASSUME NEW s \in Steps
      PROVE  /\ q(s) \in Seq(RowType)
             /\ Len(q(s)) = Len(rows[s]) /\ DOMAIN q(s) = DOMAIN rows[s]
             /\ \A i \in DOMAIN rows[s] :
                  /\ q(s)[i].attempt = rows[s][i].attempt
                  /\ \/ q(s)[i].state = rows[s][i].state
                     \/ rows[s][i].state = "RUNNING" /\ q(s)[i].state = "CANCELLED"
  <2>1. \A i \in DOMAIN rows[s] : r(s, i) \in RowType
    BY RowsType DEF Attempt, RowType
  <2>2. DOMAIN rows[s] = 1 .. Len(rows[s]) /\ Len(rows[s]) \in Nat
    BY RowsType
  <2>3. \A i \in DOMAIN rows[s] :
          /\ r(s, i).attempt = rows[s][i].attempt
          /\ \/ r(s, i).state = rows[s][i].state
             \/ rows[s][i].state = "RUNNING" /\ r(s, i).state = "CANCELLED"
    BY DEF Attempt
  <2> HIDE DEF r
  <2>4. q(s) \in Seq(RowType) /\ Len(q(s)) = Len(rows[s]) /\ DOMAIN q(s) = DOMAIN rows[s]
    BY <2>1, <2>2
  <2> QED BY <2>3, <2>4
<1> HIDE DEF q
<1> QED BY <1>1, <1>2

-----------------------------------------------------------------------------
(* What a step leaves alone needs no numbering proof.                      *)

\* Logs only grow, their numbers stand, and a task that changed is numbered.
LEMMA KeepsNumbered ==
  ASSUME TypeInv, \A t \in Steps : rows'[t] \in Seq(RowType),
         \A t \in Steps : Len(rows[t]) <= Len(rows'[t]) /\ NumberedLog(rows'[t]),
         \A c \in Drives, t \in Steps : \/ task'[c][t] = task[c][t]
                                        \/ NumberedTask(task'[c][t], rows'[t])
  PROVE  Numbered'
<1> SUFFICES ASSUME NEW t \in Steps, NEW c \in Drives, task'[c][t] = task[c][t]
             PROVE  NumberedTask(task[c][t], rows'[t])
  BY DEF Numbered
<1>1. NumberedTask(task[c][t], rows[t])
  BY DEF TypeInv, Numbered
<1>2. /\ Len(rows[t]) \in Nat /\ DOMAIN rows[t] = 1 .. Len(rows[t])
      /\ Len(rows'[t]) \in Nat /\ DOMAIN rows'[t] = 1 .. Len(rows'[t])
  BY RowsType DEF TypeInv
<1> QED BY <1>1, <1>2 DEF NumberedTask

\* The shape of ScheduleOrSkip: nothing, a skip, or a new task.
LEMMA ScheduleOrSkipCases ==
  ASSUME TypeOK, NEW d \in Drives, NEW s \in Steps, NEW res, NEW act, NEW queue,
         ScheduleOrSkip(d, s, res, act, queue)
  PROVE  \/ /\ ~(In(s) \subseteq res) \/ s \in scheduled[d]
            /\ skipQ' = [skipQ EXCEPT ![d] = queue]
            /\ UNCHANGED <<rows, scheduled, task>>
         \/ /\ In(s) \subseteq res /\ s \notin scheduled[d] /\ In(s) \cap act = {}
            /\ scheduled' = [scheduled EXCEPT ![d] = @ \cup {s}]
            /\ rows' = [rows EXCEPT ![s] = Append(@, Attempt(1, "SKIPPED"))]
            /\ skipQ' = [skipQ EXCEPT ![d] = queue \cup Out(s)]
            /\ UNCHANGED task
         \/ /\ In(s) \subseteq res /\ s \notin scheduled[d] /\ In(s) \cap act # {}
            /\ scheduled' = [scheduled EXCEPT ![d] = @ \cup {s}]
            /\ task' = [task EXCEPT ![d][s] = NewTask]
            /\ skipQ' = [skipQ EXCEPT ![d] = queue]
            /\ UNCHANGED rows
BY DEF ScheduleOrSkip, SetTask

\* _schedule_or_skip keeps the types and the numbering.
LEMMA ScheduleOrSkipType ==
  ASSUME TypeInv, NEW d \in Drives, NEW s \in Steps, NEW res, NEW act,
         NEW queue \in SUBSET Edges, ScheduleOrSkip(d, s, res, act, queue)
  PROVE  /\ rows' \in [Steps -> Seq(RowType)] /\ task' \in [Drives -> [Steps -> TaskType]]
         /\ scheduled' \in [Drives -> SUBSET Steps] /\ skipQ' \in [Drives -> SUBSET Edges]
         /\ Numbered'
<1> USE DEF TypeInv
<1>0. Attempt(1, "SKIPPED") \in RowType /\ NewTask \in TaskType /\ Out(s) \subseteq Edges
  BY DEF Attempt, RowType, NewTask, Task, TaskType, Out
<1>1. CASE UNCHANGED <<rows, scheduled, task>> /\ skipQ' = [skipQ EXCEPT ![d] = queue]
  BY <1>1 DEF TypeOK, Numbered
<1>2. CASE /\ scheduled' = [scheduled EXCEPT ![d] = @ \cup {s}]
           /\ rows' = [rows EXCEPT ![s] = Append(@, Attempt(1, "SKIPPED"))]
           /\ skipQ' = [skipQ EXCEPT ![d] = queue \cup Out(s)]
           /\ UNCHANGED task
  <2>1. /\ rows' \in [Steps -> Seq(RowType)] /\ task' \in [Drives -> [Steps -> TaskType]]
        /\ scheduled' \in [Drives -> SUBSET Steps] /\ skipQ' \in [Drives -> SUBSET Edges]
    BY <1>0, <1>2, RowAppended DEF TypeOK
  <2>2. \A t \in Steps : Len(rows[t]) <= Len(rows'[t]) /\ NumberedLog(rows'[t])
    BY <1>0, <1>2, RowAppended, RowsType DEF Numbered, NumberedLog, Attempt
  <2> QED BY <1>2, <2>1, <2>2, KeepsNumbered
<1>3. CASE /\ scheduled' = [scheduled EXCEPT ![d] = @ \cup {s}]
           /\ task' = [task EXCEPT ![d][s] = NewTask]
           /\ skipQ' = [skipQ EXCEPT ![d] = queue]
           /\ UNCHANGED rows
  <2>1. /\ rows' \in [Steps -> Seq(RowType)] /\ task' \in [Drives -> [Steps -> TaskType]]
        /\ scheduled' \in [Drives -> SUBSET Steps] /\ skipQ' \in [Drives -> SUBSET Edges]
    BY <1>0, <1>3 DEF TypeOK
  <2>2. \A c \in Drives, t \in Steps : task'[c][t] = task[c][t] \/ task'[c][t] = NewTask
    BY <1>3 DEF TypeOK
  <2>3. \A q : NumberedTask(NewTask, q)
    BY DEF NumberedTask, NewTask, Task
  <2> QED BY <1>3, <2>1, <2>2, <2>3, RowsType, KeepsNumbered DEF Numbered
<1> QED BY <1>1, <1>2, <1>3, ScheduleOrSkipCases

-----------------------------------------------------------------------------
(* Every step keeps the types and the numbering.                           *)

\* Start keeps the types and the numbering.
LEMMA StartType ==
  ASSUME TypeInv, NEW d \in Drives, Start(d)
  PROVE  TypeInv'
<1> USE DEF Start, EnterLoop, Goto, At, DoneEdges, NewTask, NoTask, Task, TypeInv, TaskType, RowType, SavedType, store, loopVars, edgeVars, bounds
<1>1. TypeOK'
  BY DEF TypeOK
<1>2. Numbered'
  BY DEF TypeOK, Numbered, NumberedTask
<1> QED BY <1>1, <1>2

\* ResumeLoad keeps the types and the numbering.
LEMMA ResumeLoadType ==
  ASSUME TypeInv, NEW d \in Drives, ResumeLoad(d)
  PROVE  TypeInv'
<1> USE DEF ResumeLoad, Goto, At, TypeInv, TaskType, RowType, SavedType, store, loopVars, edgeVars, bounds
<1>1. TypeOK'
  BY DEF TypeOK
<1>2. Numbered'
  BY DEF TypeOK, Numbered, NumberedTask
<1> QED BY <1>1, <1>2

\* ResumeWrite keeps the types and the numbering.
LEMMA ResumeWriteType ==
  ASSUME TypeInv, NEW d \in Drives, ResumeWrite(d)
  PROVE  TypeInv'
<1> USE DEF ResumeWrite, Goto, At, TypeInv, TaskType, RowType, SavedType, store, loopVars, edgeVars, bounds
<1>1. TypeOK'
  BY DEF TypeOK
<1>2. Numbered'
  BY DEF TypeOK, Numbered, NumberedTask
<1> QED BY <1>1, <1>2

\* ResumeEnter keeps the types and the numbering.
LEMMA ResumeEnterType ==
  ASSUME TypeInv, NEW d \in Drives, ResumeEnter(d)
  PROVE  TypeInv'
<1> USE DEF ResumeEnter, EnterLoop, Goto, At, DoneEdges, AlreadyDone, NewTask, NoTask, Task, TypeInv, TaskType, RowType, SavedType, store, loopVars, edgeVars, bounds
<1>1. TypeOK'
  BY DEF TypeOK
<1>2. Numbered'
  BY DEF TypeOK, Numbered, NumberedTask
<1> QED BY <1>1, <1>2

\* ResumeAborts keeps the types and the numbering.
LEMMA ResumeAbortsType ==
  ASSUME TypeInv, NEW d \in Drives, ResumeAborts(d)
  PROVE  TypeInv'
<1> USE DEF ResumeAborts, Return, LeaveLoop, Goto, At, NoTask, Task, TypeInv, TaskType, RowType, SavedType, store, loopVars, edgeVars, bounds
<1>1. TypeOK'
  BY DEF TypeOK
<1>2. Numbered'
  BY DEF TypeOK, Numbered, NumberedTask
<1> QED BY <1>1, <1>2

\* Poll keeps the types and the numbering.
LEMMA PollType ==
  ASSUME TypeInv, NEW d \in Drives, Poll(d)
  PROVE  TypeInv'
<1> USE DEF TypeInv, store, loopVars, edgeVars, bounds
<1>1. pc' \in [Drives -> Places] /\ verdict' \in [Drives -> InstStates]
  <2>1. \/ pc' = [pc EXCEPT ![d] = "cancel"] /\ verdict' = [verdict EXCEPT ![d] = inst]
        \/ pc' = [pc EXCEPT ![d] = "wait"] /\ verdict' = verdict
    BY DEF Poll, Abort, Goto
  <2>2. inst \in InstStates
    BY DEF TypeOK
  <2>3. CASE pc' = [pc EXCEPT ![d] = "cancel"] /\ verdict' = [verdict EXCEPT ![d] = inst]
    BY <2>2, <2>3 DEF TypeOK
  <2>4. CASE pc' = [pc EXCEPT ![d] = "wait"] /\ verdict' = verdict
    BY <2>4 DEF TypeOK
  <2> QED BY <2>1, <2>3, <2>4
<1>2. TypeOK'
  BY <1>1 DEF Poll, TypeOK
<1>3. Numbered'
  BY DEF Poll, Numbered
<1> QED BY <1>2, <1>3

\* Collect keeps the types and the numbering.
LEMMA CollectType ==
  ASSUME TypeInv, NEW d \in Drives, Collect(d)
  PROVE  TypeInv'
<1> USE DEF Collect, Goto, At, Finished, TypeInv, TaskType, RowType, SavedType, store, loopVars, edgeVars, bounds
<1>1. TypeOK'
  BY DEF TypeOK
<1>2. Numbered'
  BY DEF TypeOK, Numbered, NumberedTask
<1> QED BY <1>1, <1>2

\* Examine keeps the types and the numbering.
LEMMA ExamineType ==
  ASSUME TypeInv, NEW d \in Drives, NEW s \in Steps, Examine(d, s)
  PROVE  TypeInv'
<1> USE DEF TypeInv, store, loopVars, edgeVars, bounds
<1>1. \/ pc' = pc /\ verdict' = verdict
      \/ \E st \in {"FAILED", "PAUSED"} :
           pc' = [pc EXCEPT ![d] = "cancel"] /\ verdict' = [verdict EXCEPT ![d] = st]
  BY DEF Examine, Abort, Goto
<1>2. pc' \in [Drives -> Places] /\ verdict' \in [Drives -> InstStates]
  <2>1. pc \in [Drives -> Places] /\ verdict \in [Drives -> InstStates]
    BY DEF TypeOK
  <2>2. "cancel" \in Places /\ \A st \in {"FAILED", "PAUSED"} : st \in InstStates
    OBVIOUS
  <2> HIDE DEF Places, InstStates
  <2> QED BY <1>1, <2>1, <2>2
<1>3. evalQ' = evalQ \/ evalQ' = [evalQ EXCEPT ![d] = Out(s)]
  BY DEF Examine
<1>4. evalQ' \in [Drives -> SUBSET Edges]
  <2>1. Out(s) \in SUBSET Edges
    BY DEF Out
  <2> QED BY <1>3, <2>1 DEF TypeOK
<1>5. task' = [task EXCEPT ![d][s] = NoTask] /\ NoTask \in TaskType
  BY DEF Examine, SetTask, NoTask, Task, TaskType
<1>6. task' \in [Drives -> [Steps -> TaskType]]
  BY <1>5 DEF TypeOK
<1>7. TypeOK'
  BY <1>2, <1>4, <1>6 DEF TypeOK, Examine
<1>8. \A c \in Drives, t \in Steps : task'[c][t] = task[c][t] \/ NumberedTask(task'[c][t], rows'[t])
  BY <1>5 DEF TypeOK, NumberedTask, NoTask, Task
<1>9. rows' = rows
  BY DEF Examine
<1>10. Numbered'
  BY <1>8, <1>9, RowsType, KeepsNumbered DEF Numbered
<1> QED BY <1>7, <1>10

\* EvalEdge keeps the types and the numbering.
LEMMA EvalEdgeType ==
  ASSUME TypeInv, NEW d \in Drives, NEW e \in Edges, EvalEdge(d, e)
  PROVE  TypeInv'
<1> USE DEF TypeInv, store, loopVars, edgeVars, bounds
<1>1. e[2] \in Steps
  BY GraphAssumption
<1>2. CASE cond[e] = "error"
  <2>1. /\ pc' = [pc EXCEPT ![d] = "cancel"] /\ verdict' = [verdict EXCEPT ![d] = "FAILED"]
        /\ evalQ' = [evalQ EXCEPT ![d] = @ \ {e}]
        /\ UNCHANGED <<rows, scheduled, task, skipQ, resolved, active>>
    BY <1>2 DEF EvalEdge, Abort, Goto
  <2>2. /\ pc' \in [Drives -> Places] /\ verdict' \in [Drives -> InstStates]
        /\ evalQ' \in [Drives -> SUBSET Edges]
    BY <2>1 DEF TypeOK
  <2> QED BY <2>1, <2>2 DEF EvalEdge, TypeOK, Numbered
<1>3. CASE cond[e] # "error"
  <2> DEFINE res == resolved[d] \cup {e}
             act == IF cond[e] = "true" THEN active[d] \cup {e} ELSE active[d]
  <2>1. /\ resolved' = [resolved EXCEPT ![d] = res] /\ active' = [active EXCEPT ![d] = act]
        /\ evalQ' = [evalQ EXCEPT ![d] = @ \ {e}]
        /\ ScheduleOrSkip(d, e[2], res, act, {})
        /\ UNCHANGED <<pc, verdict>>
    BY <1>3 DEF EvalEdge
  <2>2. res \in SUBSET Edges /\ act \in SUBSET Edges
    BY DEF TypeOK
  <2> HIDE DEF res, act
  <2>3. /\ rows' \in [Steps -> Seq(RowType)] /\ task' \in [Drives -> [Steps -> TaskType]]
        /\ scheduled' \in [Drives -> SUBSET Steps] /\ skipQ' \in [Drives -> SUBSET Edges]
        /\ Numbered'
    BY <1>1, <2>1, ScheduleOrSkipType
  <2>4. /\ resolved' \in [Drives -> SUBSET Edges] /\ active' \in [Drives -> SUBSET Edges]
        /\ evalQ' \in [Drives -> SUBSET Edges]
    BY <2>1, <2>2 DEF TypeOK
  <2> QED BY <2>1, <2>3, <2>4 DEF EvalEdge, TypeOK
<1> QED BY <1>2, <1>3

\* SkipEdge keeps the types and the numbering.
LEMMA SkipEdgeType ==
  ASSUME TypeInv, NEW d \in Drives, NEW e \in Edges, SkipEdge(d, e)
  PROVE  TypeInv'
<1> USE DEF TypeInv, store, loopVars, edgeVars, bounds
<1>1. e[2] \in Steps
  BY GraphAssumption
<1> DEFINE res == resolved[d] \cup {e}
           queue == skipQ[d] \ {e}
<1>2. /\ resolved' = [resolved EXCEPT ![d] = res]
      /\ ScheduleOrSkip(d, e[2], res, active[d], queue)
  BY DEF SkipEdge
<1>3. res \in SUBSET Edges /\ queue \in SUBSET Edges
  BY DEF TypeOK
<1> HIDE DEF res, queue
<1>4. /\ rows' \in [Steps -> Seq(RowType)] /\ task' \in [Drives -> [Steps -> TaskType]]
      /\ scheduled' \in [Drives -> SUBSET Steps] /\ skipQ' \in [Drives -> SUBSET Edges]
      /\ Numbered'
  BY <1>1, <1>2, <1>3, ScheduleOrSkipType
<1>5. resolved' \in [Drives -> SUBSET Edges]
  BY <1>2, <1>3 DEF TypeOK
<1>6. TypeOK'
  BY <1>4, <1>5 DEF SkipEdge, TypeOK
<1> QED BY <1>4, <1>6

\* NextTurn keeps the types and the numbering.
LEMMA NextTurnType ==
  ASSUME TypeInv, NEW d \in Drives, NextTurn(d)
  PROVE  TypeInv'
<1> USE DEF TypeInv, store, loopVars, edgeVars, bounds
<1>1. CASE InProgress(d) # {}
  <2>1. pc' = [pc EXCEPT ![d] = "poll"] /\ UNCHANGED <<task, batch, edgeVars>>
    BY <1>1 DEF NextTurn, Goto
  <2>2. pc' \in [Drives -> Places]
    BY <2>1 DEF TypeOK
  <2> QED BY <2>1, <2>2 DEF NextTurn, TypeOK, Numbered
<1>2. CASE InProgress(d) = {}
  <2>1. pc' = [pc EXCEPT ![d] = "mark"] /\ LeaveLoop(d)
    BY <1>2 DEF NextTurn, Goto
  <2>2. pc' \in [Drives -> Places]
    BY <2>1 DEF TypeOK
  <2>3. UNCHANGED <<inst, saved, rows, proc, req, verdict, sandbox, ctx, tokens, cond, bounds>>
    BY DEF NextTurn
  <2>4. TypeOK' /\ Numbered'
    BY <2>1, <2>2, <2>3 DEF LeaveLoop, NoTask, Task, TaskType, TypeOK, Numbered, NumberedTask
  <2> QED BY <2>4
<1> QED BY <1>1, <1>2

\* CancelPending keeps the types and the numbering.
LEMMA CancelPendingType ==
  ASSUME TypeInv, NEW d \in Drives, CancelPending(d)
  PROVE  TypeInv'
<1> USE DEF TypeInv, store, loopVars, edgeVars, bounds
<1>1. rows' = CancelRows(InProgress(d)) /\ LeaveLoop(d) /\ pc' = [pc EXCEPT ![d] = "mark"]
  BY DEF CancelPending, Goto
<1>2. rows' \in [Steps -> Seq(RowType)]
  BY <1>1, RowsCancelled
<1>3. TypeOK'
  BY <1>1, <1>2 DEF CancelPending, LeaveLoop, NoTask, Task, TaskType, TypeOK
<1>4. \A c \in Drives, t \in Steps : task'[c][t] = task[c][t] \/ NumberedTask(task'[c][t], rows'[t])
  BY <1>1 DEF TypeOK, LeaveLoop, NumberedTask, NoTask, Task
<1>5. \A t \in Steps : Len(rows[t]) <= Len(rows'[t]) /\ NumberedLog(rows'[t])
  BY <1>1, RowsCancelled, RowsType DEF Numbered, NumberedLog
<1>6. Numbered'
  BY <1>2, <1>4, <1>5, KeepsNumbered
<1> QED BY <1>3, <1>6

\* Mark keeps the types and the numbering.
LEMMA MarkType ==
  ASSUME TypeInv, NEW d \in Drives, Mark(d)
  PROVE  TypeInv'
<1> USE DEF Mark, Return, LeaveLoop, Goto, At, NoTask, Task, TypeInv, TaskType, RowType, SavedType, store, loopVars, edgeVars, bounds
<1>1. TypeOK'
  BY DEF TypeOK
<1>2. Numbered'
  BY DEF TypeOK, Numbered, NumberedTask
<1> QED BY <1>1, <1>2

\* TaskBegin keeps the types and the numbering.
LEMMA TaskBeginType ==
  ASSUME TypeInv, NEW d \in Drives, NEW s \in Steps, TaskBegin(d, s)
  PROVE  TypeInv'
<1> USE DEF TypeInv, store, loopVars, edgeVars, bounds
<1> DEFINE k == Task("create", LastAttempt(s) + 1, Retries[s], 0)
<1>1. task' = [task EXCEPT ![d][s] = k] /\ rows' = rows
  BY DEF TaskBegin, SetTask, AttemptBase
<1>2. LastAttempt(s) \in Nat /\ LastAttempt(s) <= Len(rows[s])
  BY LastAttemptType, RowsType
<1>3. k \in TaskType /\ NumberedTask(k, rows[s])
  BY <1>2, RowsType, ParameterAssumption DEF Task, TaskType, NumberedTask
<1> HIDE DEF k
<1>4. TypeOK'
  BY <1>1, <1>3 DEF TaskBegin, TypeOK
<1>5. \A c \in Drives, t \in Steps : task'[c][t] = task[c][t] \/ NumberedTask(task'[c][t], rows'[t])
  BY <1>1, <1>3 DEF TypeOK
<1>6. Numbered'
  BY <1>1, <1>5, RowsType, KeepsNumbered DEF Numbered
<1> QED BY <1>4, <1>6

\* TaskCreate keeps the types and the numbering.
LEMMA TaskCreateType ==
  ASSUME TypeInv, NEW d \in Drives, NEW s \in Steps, TaskCreate(d, s)
  PROVE  TypeInv'
<1> USE DEF TypeInv, store, loopVars, edgeVars, bounds
<1> DEFINE r == Attempt(task[d][s].attempt, "RUNNING")
           k == Task("run", task[d][s].attempt, task[d][s].left, Len(rows[s]) + 1)
<1>1. rows' = [rows EXCEPT ![s] = Append(@, r)] /\ task' = [task EXCEPT ![d][s] = k]
  BY DEF TaskCreate, SetTask
<1>2. task[d][s] \in TaskType /\ task[d][s].attempt \in 1 .. Len(rows[s]) + 1
  BY DEF TaskCreate, TaskAt, Numbered, NumberedTask, TypeOK
<1>3. r \in RowType /\ r.attempt = task[d][s].attempt /\ k \in TaskType
  BY <1>2, RowsType DEF Attempt, RowType, Task, TaskType
<1>4. k.pc = "run" /\ k.row = Len(rows[s]) + 1 /\ k.attempt = task[d][s].attempt
  BY DEF Task
<1> HIDE DEF r, k
<1>5. rows' \in [Steps -> Seq(RowType)]
  BY <1>1, <1>3, RowAppended
<1>6. TypeOK'
  BY <1>1, <1>3, <1>5 DEF TaskCreate, TypeOK
<1>7. \A t \in Steps : Len(rows[t]) <= Len(rows'[t]) /\ NumberedLog(rows'[t])
  BY <1>1, <1>2, <1>3, RowAppended, RowsType DEF Numbered, NumberedLog
<1>8. NumberedTask(k, rows'[s])
  <2>1. DOMAIN rows'[s] = 1 .. Len(rows[s]) + 1 /\ Len(rows[s]) \in Nat
    BY <1>1, <1>3, RowAppended, RowsType
  <2> QED BY <1>2, <1>4, <2>1 DEF NumberedTask
<1>9. \A c \in Drives, t \in Steps : task'[c][t] = task[c][t] \/ NumberedTask(task'[c][t], rows'[t])
  BY <1>1, <1>8 DEF TypeOK
<1>10. Numbered'
  BY <1>5, <1>7, <1>9, KeepsNumbered
<1> QED BY <1>6, <1>10

\* TaskRan keeps the types and the numbering.
LEMMA TaskRanType ==
  ASSUME TypeInv, NEW d \in Drives, NEW s \in Steps, TaskRan(d, s)
  PROVE  TypeInv'
<1> USE DEF TypeInv, TaskType, store, loopVars, edgeVars, bounds
<1>1. /\ tokens' \in [Drives -> Nat] /\ ctx' \in [Drives -> SUBSET Steps]
      /\ task' \in [Drives -> [Steps -> TaskType]]
  BY ParameterAssumption DEF TaskRan, SetTask, Task, TypeOK
<1>2. TypeOK'
  BY <1>1 DEF TaskRan, TypeOK
<1>3. Numbered'
  BY DEF TaskRan, TaskAt, SetTask, Task, TypeOK, Numbered, NumberedTask
<1> QED BY <1>2, <1>3

\* TaskSave keeps the types and the numbering.
LEMMA TaskSaveType ==
  ASSUME TypeInv, NEW d \in Drives, NEW s \in Steps, TaskSave(d, s)
  PROVE  TypeInv'
<1> USE DEF TypeInv, store, loopVars, edgeVars, bounds
<1>1. task[d][s] \in TaskType /\ task[d][s].row \in DOMAIN rows[s]
  BY DEF TaskSave, TaskAt, Numbered, NumberedTask, TypeOK
<1>2. SetRow(s, task[d][s].row, "COMPLETED")
  BY DEF TaskSave
<1>3. rows' \in [Steps -> Seq(RowType)]
  BY <1>1, <1>2, RowUpdated
<1>4. \A t \in Steps : Len(rows[t]) <= Len(rows'[t]) /\ NumberedLog(rows'[t])
  <2> DEFINE n == task[d][s].row
  <2>1. /\ Len(rows'[s]) = Len(rows[s]) /\ DOMAIN rows'[s] = DOMAIN rows[s]
        /\ rows'[s][n] = Attempt(rows[s][n].attempt, "COMPLETED")
        /\ \A j \in DOMAIN rows[s] \ {n} : rows'[s][j] = rows[s][j]
        /\ \A t \in Steps \ {s} : rows'[t] = rows[t]
    BY <1>1, <1>2, RowUpdated
  <2>2. \A i \in DOMAIN rows[s] : rows'[s][i].attempt = rows[s][i].attempt
    BY <2>1 DEF Attempt
  <2> QED BY <2>1, <2>2, RowsType DEF Numbered, NumberedLog
<1>5. task' = [task EXCEPT ![d][s] = Task("done", 0, 0, 0)]
  BY DEF TaskSave, SetTask
<1>6. Task("done", 0, 0, 0) \in TaskType /\ \A q : NumberedTask(Task("done", 0, 0, 0), q)
  BY DEF Task, TaskType, NumberedTask
<1>7. TypeOK'
  BY <1>3, <1>5, <1>6 DEF TaskSave, TypeOK
<1>8. \A c \in Drives, t \in Steps : task'[c][t] = task[c][t] \/ NumberedTask(task'[c][t], rows'[t])
  BY <1>5, <1>6 DEF TypeOK
<1>9. Numbered'
  BY <1>3, <1>4, <1>8, KeepsNumbered
<1> QED BY <1>7, <1>9

\* TaskFailed keeps the types and the numbering.
LEMMA TaskFailedType ==
  ASSUME TypeInv, NEW d \in Drives, NEW s \in Steps, TaskFailed(d, s)
  PROVE  TypeInv'
<1> USE DEF TypeInv, store, loopVars, edgeVars, bounds
<1>1. task[d][s] \in TaskType /\ task[d][s].row \in DOMAIN rows[s]
  BY DEF TaskFailed, TaskAt, Numbered, NumberedTask, TypeOK
<1>2. SetRow(s, task[d][s].row, "FAILED")
  BY DEF TaskFailed
<1>3. rows' \in [Steps -> Seq(RowType)]
  BY <1>1, <1>2, RowUpdated
<1>4. \A t \in Steps : Len(rows[t]) <= Len(rows'[t]) /\ NumberedLog(rows'[t])
  <2> DEFINE n == task[d][s].row
  <2>1. /\ Len(rows'[s]) = Len(rows[s]) /\ DOMAIN rows'[s] = DOMAIN rows[s]
        /\ rows'[s][n] = Attempt(rows[s][n].attempt, "FAILED")
        /\ \A j \in DOMAIN rows[s] \ {n} : rows'[s][j] = rows[s][j]
        /\ \A t \in Steps \ {s} : rows'[t] = rows[t]
    BY <1>1, <1>2, RowUpdated
  <2>2. \A i \in DOMAIN rows[s] : rows'[s][i].attempt = rows[s][i].attempt
    BY <2>1 DEF Attempt
  <2> QED BY <2>1, <2>2, RowsType DEF Numbered, NumberedLog
<1>5. PICK k \in TaskType : task' = [task EXCEPT ![d][s] = k] /\ NumberedTask(k, rows'[s])
  <2>1. CASE /\ task[d][s].left > 0
             /\ SetTask(d, s, Task("create", task[d][s].attempt + 1, task[d][s].left - 1, 0))
    <3> DEFINE k == Task("create", task[d][s].attempt + 1, task[d][s].left - 1, 0)
    <3>1. k \in TaskType
      BY <1>1, <2>1 DEF Task, TaskType
    <3>2. task[d][s].attempt \in 1 .. Len(rows[s]) /\ Len(rows'[s]) = Len(rows[s])
      BY <1>1, <1>2, RowUpdated, RowsType DEF TaskFailed, TaskAt, Numbered, NumberedTask
    <3>3. NumberedTask(k, rows'[s])
      BY <1>1, <3>2, RowsType DEF NumberedTask, Task, TaskType
    <3> QED BY <2>1, <3>1, <3>3 DEF SetTask
  <2>2. CASE SetTask(d, s, Task("failed", 0, 0, 0))
    <3>1. /\ Task("failed", 0, 0, 0) \in TaskType
          /\ NumberedTask(Task("failed", 0, 0, 0), rows'[s])
      BY DEF Task, TaskType, NumberedTask
    <3> QED BY <2>2, <3>1 DEF SetTask
  <2> QED BY <2>1, <2>2 DEF TaskFailed
<1>6. tokens' \in [Drives -> Nat]
  <2>1. PICK spent \in {0, Cost[s]} : tokens' = [tokens EXCEPT ![d] = @ + spent]
    BY DEF TaskFailed
  <2>2. spent \in Nat
    BY ParameterAssumption
  <2> QED BY <2>1, <2>2 DEF TypeOK
<1>7. TypeOK'
  BY <1>3, <1>5, <1>6 DEF TaskFailed, TypeOK
<1>8. \A c \in Drives, t \in Steps : task'[c][t] = task[c][t] \/ NumberedTask(task'[c][t], rows'[t])
  BY <1>5 DEF TypeOK
<1>9. Numbered'
  BY <1>3, <1>4, <1>8, KeepsNumbered
<1> QED BY <1>7, <1>9

\* TaskStoreFails keeps the types and the numbering.
LEMMA TaskStoreFailsType ==
  ASSUME TypeInv, NEW d \in Drives, NEW s \in Steps, TaskStoreFails(d, s)
  PROVE  TypeInv'
<1> USE DEF TaskStoreFails, SetTask, Task, TypeInv, TaskType, RowType, SavedType, store, loopVars, edgeVars, bounds
<1>1. TypeOK'
  BY DEF TypeOK
<1>2. Numbered'
  BY DEF TypeOK, Numbered, NumberedTask
<1> QED BY <1>1, <1>2

\* ApiRead keeps the types and the numbering.
LEMMA ApiReadType ==
  ASSUME TypeInv, NEW c \in Clients, NEW op \in Ops, ApiRead(c, op)
  PROVE  TypeInv'
<1> USE DEF ApiRead, TypeInv, TaskType, RowType, SavedType, store, loopVars, edgeVars, bounds
<1>1. TypeOK'
  BY DEF TypeOK
<1>2. Numbered'
  BY DEF TypeOK, Numbered, NumberedTask
<1> QED BY <1>1, <1>2

\* ApiWrite keeps the types and the numbering.
LEMMA ApiWriteType ==
  ASSUME TypeInv, NEW c \in Clients, ApiWrite(c)
  PROVE  TypeInv'
<1> USE DEF TypeInv, store, loopVars, edgeVars, bounds
<1>1. /\ inst' \in {"KILLED", "PAUSED"} /\ saved' = req[c].saved
      /\ req' = [req EXCEPT ![c].op = "none"]
  BY DEF ApiWrite, Target
<1>2. req[c] \in [op: Ops \cup {"none"}, saved: SavedType]
  BY DEF TypeOK
<1>3. saved' \in SavedType
  BY <1>1, <1>2
<1>4. req' \in [Clients -> [op: Ops \cup {"none"}, saved: SavedType]]
  <2>1. req' = [req EXCEPT ![c] = [req[c] EXCEPT !.op = "none"]]
    BY <1>1
  <2>2. [req[c] EXCEPT !.op = "none"] \in [op: Ops \cup {"none"}, saved: SavedType]
    BY <1>2
  <2> QED BY <2>1, <2>2 DEF TypeOK
<1>5. inst' \in InstStates
  BY <1>1
<1>6. TypeOK'
  BY <1>3, <1>4, <1>5 DEF ApiWrite, TypeOK
<1>7. Numbered'
  BY DEF ApiWrite, Numbered
<1> QED BY <1>6, <1>7

\* Timeout keeps the types and the numbering.
LEMMA TimeoutType ==
  ASSUME TypeInv, NEW d \in Drives, Timeout(d)
  PROVE  TypeInv'
<1> USE DEF Timeout, Abort, Goto, TypeInv, TaskType, RowType, SavedType, store, loopVars, edgeVars, bounds
<1>1. TypeOK'
  BY DEF TypeOK
<1>2. Numbered'
  BY DEF TypeOK, Numbered, NumberedTask
<1> QED BY <1>1, <1>2

\* Stop keeps the types and the numbering.
LEMMA StopType ==
  ASSUME TypeInv, Stop
  PROVE  TypeInv'
<1> USE DEF Stop, TypeInv, TaskType, RowType, SavedType, store, loopVars, edgeVars, bounds
<1>1. TypeOK'
  BY DEF TypeOK
<1>2. Numbered'
  BY DEF TypeOK, Numbered, NumberedTask
<1> QED BY <1>1, <1>2

\* Interrupt keeps the types and the numbering.
LEMMA InterruptType ==
  ASSUME TypeInv, NEW d \in Drives, Interrupt(d)
  PROVE  TypeInv'
<1> USE DEF Interrupt, Abort, Goto, TypeInv, TaskType, RowType, SavedType, store, loopVars, edgeVars, bounds
<1>1. TypeOK'
  BY DEF TypeOK
<1>2. Numbered'
  BY DEF TypeOK, Numbered, NumberedTask
<1> QED BY <1>1, <1>2

\* InterruptOutside keeps the types and the numbering.
LEMMA InterruptOutsideType ==
  ASSUME TypeInv, NEW d \in Drives, InterruptOutside(d)
  PROVE  TypeInv'
<1> USE DEF InterruptOutside, Return, LeaveLoop, Goto, NoTask, Task, TypeInv, TaskType, RowType, SavedType, store, loopVars, edgeVars, bounds
<1>1. TypeOK'
  BY DEF TypeOK
<1>2. Numbered'
  BY DEF TypeOK, Numbered, NumberedTask
<1> QED BY <1>1, <1>2

\* InterruptCancel keeps the types and the numbering.
LEMMA InterruptCancelType ==
  ASSUME TypeInv, NEW d \in Drives, InterruptCancel(d)
  PROVE  TypeInv'
<1> USE DEF InterruptCancel, Goto, At, LeaveLoop, NoTask, Task, TypeInv, TaskType, RowType, SavedType, store, loopVars, edgeVars, bounds
<1>1. TypeOK'
  BY DEF TypeOK
<1>2. Numbered'
  BY DEF TypeOK, Numbered, NumberedTask
<1> QED BY <1>1, <1>2

\* What a dead process leaves: empty frames.
LEMMA ForgetType ==
  ASSUME TypeInv, Forget, UNCHANGED <<inst, saved, rows, cond>>,
         proc' \in {"up", "stopping", "down"},
         resumes' \in Nat, requests' \in Nat, stops' \in Nat, crashes' \in Nat
  PROVE  TypeInv'
<1> USE DEF TypeInv
<1>1. /\ pc' = [d \in Drives |-> "idle"] /\ verdict' = [d \in Drives |-> "COMPLETED"]
      /\ task' = [d \in Drives |-> [s \in Steps |-> NoTask]]
      /\ batch' = [d \in Drives |-> {}] /\ scheduled' = [d \in Drives |-> {}]
      /\ evalQ' = [d \in Drives |-> {}] /\ skipQ' = [d \in Drives |-> {}]
      /\ resolved' = [d \in Drives |-> {}] /\ active' = [d \in Drives |-> {}]
      /\ ctx' = [d \in Drives |-> {}] /\ tokens' = [d \in Drives |-> 0]
      /\ sandbox' = sandbox
  BY DEF Forget
<1>2. req' \in [Clients -> [op : Ops \cup {"none"}, saved : SavedType]]
  <2>1. ASSUME NEW c \in Clients
        PROVE  [req[c] EXCEPT !.op = "none"] \in [op : Ops \cup {"none"}, saved : SavedType]
    <3>1. req[c] \in [op : Ops \cup {"none"}, saved : SavedType]
      BY DEF TypeOK
    <3>2. [req[c] EXCEPT !.op = "none"] = [op |-> "none", saved |-> req[c].saved]
      BY <3>1
    <3> QED BY <3>1, <3>2
  <2> QED BY <2>1 DEF Forget
<1>3. NoTask \in TaskType /\ \A q : NumberedTask(NoTask, q)
  BY DEF NoTask, Task, TaskType, NumberedTask
<1>4. TypeOK'
  BY <1>1, <1>2, <1>3 DEF TypeOK
<1>5. Numbered'
  BY <1>1, <1>3 DEF Numbered
<1> QED BY <1>4, <1>5

\* The process exits.
LEMMA ExitType ==
  ASSUME TypeInv, Exit
  PROVE  TypeInv'
BY ForgetType DEF Exit, store, bounds, TypeInv, TypeOK

\* The process dies.
LEMMA CrashType ==
  ASSUME TypeInv, Crash
  PROVE  TypeInv'
BY ForgetType DEF Crash, store, TypeInv, TypeOK

\* The sweep of the next boot.
LEMMA BootType ==
  ASSUME TypeInv, Boot
  PROVE  TypeInv'
<1> USE DEF TypeInv, store, loopVars, edgeVars, bounds
<1>1. CASE rows' = CancelRows(Steps) /\ inst' = "PAUSED"
  <2>1. rows' \in [Steps -> Seq(RowType)]
    BY <1>1, RowsCancelled
  <2>2. \A t \in Steps : Len(rows[t]) <= Len(rows'[t]) /\ NumberedLog(rows'[t])
    BY <1>1, RowsCancelled, RowsType DEF Numbered, NumberedLog
  <2>3. TypeOK'
    BY <1>1, <2>1 DEF Boot, TypeOK
  <2>4. Numbered'
    BY <2>1, <2>2, KeepsNumbered DEF Boot
  <2> QED BY <2>3, <2>4
<1>2. CASE UNCHANGED <<inst, rows>>
  BY <1>2 DEF Boot, TypeOK, Numbered
<1> QED BY <1>1, <1>2 DEF Boot

\* The first state is well typed and numbered.
LEMMA TypeInit == Init => TypeInv
<1> SUFFICES ASSUME Init PROVE TypeInv
  OBVIOUS
<1>1. /\ rows = [s \in Steps |-> << >>] /\ \A s \in Steps : rows[s] \in Seq(RowType)
      /\ task = [d \in Drives |-> [s \in Steps |-> NoTask]] /\ NoTask \in TaskType
  BY DEF Init, NoTask, Task, TaskType
<1>2. cond \in [Edges -> AllOutcomes]
  BY ParameterAssumption DEF Init, AllOutcomes
<1>3. TypeOK
  BY <1>1, <1>2, ParameterAssumption DEF Init, TypeOK, SavedType
<1>4. Numbered
  BY <1>1 DEF Numbered, NumberedLog, NumberedTask, NoTask, Task
<1> QED BY <1>3, <1>4 DEF TypeInv

\* Every step keeps the types and the numbering.
LEMMA TypeStep == TypeInv /\ [Next]_vars => TypeInv'
<1> SUFFICES ASSUME TypeInv, [Next]_vars PROVE TypeInv'
  OBVIOUS
<1>1. CASE UNCHANGED vars
  BY <1>1 DEF vars, store, loopVars, edgeVars, bounds, TypeInv, TypeOK, Numbered
<1>2. ASSUME NEW d \in Drives, DriveStep(d) PROVE TypeInv'
  BY <1>2, StartType, ResumeWriteType, ResumeEnterType, PollType, CollectType, NextTurnType,
     CancelPendingType, MarkType, ExamineType, EvalEdgeType, SkipEdgeType DEF DriveStep
<1>3. ASSUME NEW d \in Drives, Interruption(d) PROVE TypeInv'
  BY <1>3, InterruptType, InterruptOutsideType, InterruptCancelType DEF Interruption
<1>4. ASSUME NEW d \in Drives, ResumeLoad(d) \/ ResumeAborts(d) \/ Timeout(d) PROVE TypeInv'
  BY <1>4, ResumeLoadType, ResumeAbortsType, TimeoutType
<1>5. ASSUME NEW d \in Drives, NEW s \in Steps, TaskStep(d, s) \/ TaskStoreFails(d, s)
      PROVE  TypeInv'
  BY <1>5, TaskBeginType, TaskCreateType, TaskRanType, TaskSaveType, TaskFailedType,
     TaskStoreFailsType DEF TaskStep
<1>6. ASSUME NEW c \in Clients, ApiWrite(c) \/ \E op \in Ops : ApiRead(c, op) PROVE TypeInv'
  BY <1>6, ApiWriteType, ApiReadType
<1>7. CASE Stop \/ Exit \/ Crash \/ Boot
  BY <1>7, StopType, ExitType, CrashType, BootType
<1> QED BY <1>1, <1>2, <1>3, <1>4, <1>5, <1>6, <1>7 DEF Next

\* Every state of every behaviour is well typed, whatever the workflow, the
\* number of drives and clients, the faults and the bounds.
THEOREM TypeCorrect == Spec => []TypeOK
<1>1. TypeInv => TypeOK
  BY DEF TypeInv
<1> QED BY <1>1, TypeInit, TypeStep, PTL DEF Spec

-----------------------------------------------------------------------------
(* The rows and what the drives know of them.                              *)

Final == {"COMPLETED", "FAILED", "SKIPPED"}
Open  == {"RUNNING", "CANCELLED"}

Owns(d, s) == task[d][s].pc \in {"run", "save"}

\* A task that ran its step, or is running it, is alone in writing its row.
Owned ==
  \A d \in Drives, s \in Steps : Owns(d, s) =>
    /\ rows[s][task[d][s].row].state \in Open
    /\ \A c \in Drives : c # d /\ Owns(c, s) => task[c][s].row # task[d][s].row

\* The edge can no longer activate its target.
Closed(e) == \/ HasRow(e[1], {"SKIPPED"})
             \/ HasRow(e[1], {"COMPLETED"}) /\ cond[e] = "false"

AllSettled == \A s \in Steps : Settled(s)

\* What drive d has concluded about its edges and tasks is true of the rows.
DriveInv(d) ==
  /\ \A e \in resolved[d] : Settled(e[1])
  /\ \A e \in resolved[d] \ active[d] : Closed(e)
  /\ \A e \in evalQ[d] : HasRow(e[1], {"COMPLETED"})
  /\ \A e \in skipQ[d] : HasRow(e[1], {"SKIPPED"})
  /\ \A s \in Steps : task[d][s].pc = "done" => HasRow(s, {"COMPLETED"})
  /\ \A s \in Steps : task[d][s].pc # "none" => \A e \in In(s) : Settled(e[1])

\* The loop has lost nothing: a scheduled step has a task or has settled, a
\* step all of whose edges are resolved is scheduled, and the edges out of a
\* scheduled step without a task are resolved or queued.
LoopComplete(d) ==
  /\ \A s \in scheduled[d] : task[d][s].pc # "none" \/ Settled(s)
  /\ \A s \in Steps : In(s) \subseteq resolved[d] => s \in scheduled[d]
  /\ \A s \in scheduled[d] :
       task[d][s].pc = "none" => Out(s) \subseteq resolved[d] \cup evalQ[d] \cup skipQ[d]

LoopInv(d) ==
  /\ pc[d] \in InLoop => verdict[d] = "COMPLETED" /\ LoopComplete(d)
  /\ pc[d] = "cancel" => verdict[d] # "COMPLETED"
  /\ pc[d] = "mark" /\ verdict[d] = "COMPLETED" => AllSettled

SafetyInv ==
  /\ Owned
  /\ \A d \in Drives : DriveInv(d) /\ LoopInv(d)
  /\ DependenciesSettled /\ SkipsAreSound /\ CompletedMeansSettled

-----------------------------------------------------------------------------
(* What a step may do to the rows.                                         *)

\* Final rows stand.
Stand == \A s \in Steps : \A i \in DOMAIN rows[s] :
           rows[s][i].state \in Final =>
             i \in DOMAIN rows'[s] /\ rows'[s][i].state = rows[s][i].state

\* Nobody's open row is closed.
StayOpen == \A s \in Steps : \A i \in DOMAIN rows[s] :
              rows[s][i].state \in Open => rows'[s][i].state \in Open

Kept == \A s \in Steps : /\ Settled(s) => Settled(s)'
                         /\ HasRow(s, {"COMPLETED"}) => HasRow(s, {"COMPLETED"})'
                         /\ HasRow(s, {"SKIPPED"}) => HasRow(s, {"SKIPPED"})'

\* Whatever is appended was due.
Due == \A s \in Steps :
         /\ rows'[s] # << >> => rows[s] # << >> \/ \A e \in In(s) : Settled(e[1])
         /\ HasRow(s, {"SKIPPED"})' =>
              \/ HasRow(s, {"SKIPPED"})
              \/ In(s) # {} /\ \A e \in In(s) : Closed(e)

\* A step that lets final rows stand lets settled steps stay settled.
LEMMA StandKept == ASSUME Stand PROVE Kept
BY DEF Stand, Kept, Settled, HasRow, Final

\* A settled step completed or was skipped.
LEMMA SettledHas ==
  ASSUME NEW s \in Steps
  PROVE  Settled(s) <=> HasRow(s, {"COMPLETED"}) \/ HasRow(s, {"SKIPPED"})
BY DEF Settled, HasRow

\* A closed edge leaves a settled step.
LEMMA ClosedSettled ==
  ASSUME NEW e \in Edges, Closed(e)
  PROVE  Settled(e[1])
BY DEF Closed, Settled, HasRow

\* An edge joins two steps, and is among the edges of both.
LEMMA EdgeEnds ==
  ASSUME NEW e \in Edges
  PROVE  e[1] \in Steps /\ e[2] \in Steps /\ e \in Out(e[1]) /\ e \in In(e[2])
BY GraphAssumption DEF Out, In

\* What was appended was due, so the properties of the rows are kept.
LEMMA DueKeepsRows ==
  ASSUME DependenciesSettled, SkipsAreSound, Kept, Due, UNCHANGED cond
  PROVE  DependenciesSettled' /\ SkipsAreSound'
<1>1. \A e \in Edges : /\ Settled(e[1]) => Settled(e[1])'
                       /\ Closed(e) => Closed(e)'
  BY EdgeEnds DEF Kept, Closed
<1>2. \A s \in Steps : In(s) \subseteq Edges
  BY DEF In
<1>3. DependenciesSettled'
  BY <1>1, <1>2 DEF DependenciesSettled, Due
<1>4. ASSUME NEW s \in Steps, HasRow(s, {"SKIPPED"})'
      PROVE  In(s) # {} /\ \A e \in In(s) : Closed(e)'
  BY <1>1, <1>2, <1>4 DEF SkipsAreSound, Due, Closed
<1>5. SkipsAreSound'
  BY <1>4 DEF SkipsAreSound, Closed
<1> QED BY <1>3, <1>5

\* A step that writes no row.
LEMMA SameRows ==
  ASSUME UNCHANGED rows
  PROVE  Stand /\ StayOpen /\ Due
BY DEF Stand, StayOpen, Due, HasRow

\* A row appended leaves the rows before it as they were.
LEMMA RowAppendedStands ==
  ASSUME TypeInv, NEW s \in Steps, NEW n \in Nat \ {0}, NEW st \in RowStates,
         rows' = [rows EXCEPT ![s] = Append(@, Attempt(n, st))]
  PROVE  Stand
<1> DEFINE r == Attempt(n, st)
<1>1. r \in RowType
  BY DEF Attempt, RowType
<1> HIDE DEF r
<1>2. \A t \in Steps : /\ DOMAIN rows[t] \subseteq DOMAIN rows'[t]
                       /\ \A i \in DOMAIN rows[t] : rows'[t][i] = rows[t][i]
  BY <1>1, RowAppended, RowsType DEF r, TypeInv
<1> QED BY <1>2 DEF Stand

\* An attempt is created for a step whose dependencies have settled.
LEMMA AttemptCreated ==
  ASSUME TypeInv, NEW s \in Steps, NEW n \in Nat \ {0}, \A e \in In(s) : Settled(e[1]),
         rows' = [rows EXCEPT ![s] = Append(@, Attempt(n, "RUNNING"))]
  PROVE  Stand /\ StayOpen /\ Due
<1> DEFINE r == Attempt(n, "RUNNING")
<1>1. r \in RowType /\ r.state = "RUNNING"
  BY DEF Attempt, RowType
<1> HIDE DEF r
<1>2. /\ \A t \in Steps : /\ DOMAIN rows[t] \subseteq DOMAIN rows'[t]
                          /\ \A i \in DOMAIN rows[t] : rows'[t][i] = rows[t][i]
      /\ \A t \in Steps \ {s} : rows'[t] = rows[t]
      /\ \A i \in DOMAIN rows'[s] : i \in DOMAIN rows[s] \/ rows'[s][i] = r
  BY <1>1, RowAppended, RowsType DEF r, TypeInv
<1>3. Stand /\ StayOpen
  BY <1>2 DEF Stand, StayOpen
<1>4. \A t \in Steps : HasRow(t, {"SKIPPED"})' => HasRow(t, {"SKIPPED"})
  BY <1>1, <1>2 DEF HasRow
<1>5. Due
  BY <1>2, <1>4 DEF Due
<1> QED BY <1>3, <1>5

\* A skip is recorded for a step all of whose edges are closed.
LEMMA SkipRecorded ==
  ASSUME TypeInv, NEW s \in Steps, In(s) # {}, \A e \in In(s) : Closed(e),
         rows' = [rows EXCEPT ![s] = Append(@, Attempt(1, "SKIPPED"))]
  PROVE  Stand /\ StayOpen /\ Due /\ HasRow(s, {"SKIPPED"})'
<1> DEFINE r == Attempt(1, "SKIPPED")
<1>1. r \in RowType /\ r.state = "SKIPPED"
  BY DEF Attempt, RowType
<1> HIDE DEF r
<1>2. /\ Len(rows[s]) \in Nat /\ DOMAIN rows'[s] = 1 .. Len(rows[s]) + 1
      /\ rows'[s][Len(rows[s]) + 1] = r
  BY <1>1, RowAppended, RowsType DEF r, TypeInv
<1>3. Len(rows[s]) + 1 \in DOMAIN rows'[s]
  BY <1>2
<1>4. /\ \A t \in Steps : /\ DOMAIN rows[t] \subseteq DOMAIN rows'[t]
                          /\ \A i \in DOMAIN rows[t] : rows'[t][i] = rows[t][i]
      /\ \A t \in Steps \ {s} : rows'[t] = rows[t]
  BY <1>1, RowAppended, RowsType DEF r, TypeInv
<1>5. Stand /\ StayOpen
  BY <1>4 DEF Stand, StayOpen
<1>6. HasRow(s, {"SKIPPED"})'
  BY <1>1, <1>2, <1>3 DEF HasRow
<1>7. \A t \in Steps \ {s} : HasRow(t, {"SKIPPED"})' => HasRow(t, {"SKIPPED"})
  BY <1>4 DEF HasRow
<1>8. \A e \in In(s) : Settled(e[1])
  BY ClosedSettled DEF In
<1>9. Due
  BY <1>4, <1>7, <1>8 DEF Due
<1> QED BY <1>5, <1>6, <1>9

\* An attempt ends: its own row changes, and nobody else owns that row.
LEMMA AttemptEnded ==
  ASSUME TypeInv, Owned, NEW d \in Drives, NEW s \in Steps, Owns(d, s),
         NEW st \in {"COMPLETED", "FAILED"}, SetRow(s, task[d][s].row, st)
  PROVE  /\ Stand /\ Due
         /\ task[d][s].row \in DOMAIN rows'[s] /\ rows'[s][task[d][s].row].state = st
         /\ \A t \in Steps : \A i \in DOMAIN rows[t] :
              t # s \/ i # task[d][s].row => rows'[t][i] = rows[t][i]
<1> DEFINE n == task[d][s].row
<1>1. n \in DOMAIN rows[s] /\ rows[s][n].state \in Open
  BY DEF TypeInv, Numbered, NumberedTask, Owns, Owned
<1>2. /\ Len(rows'[s]) = Len(rows[s]) /\ DOMAIN rows'[s] = DOMAIN rows[s]
      /\ rows'[s][n] = Attempt(rows[s][n].attempt, st)
      /\ \A j \in DOMAIN rows[s] \ {n} : rows'[s][j] = rows[s][j]
      /\ \A t \in Steps \ {s} : rows'[t] = rows[t]
  BY <1>1, RowUpdated DEF TypeInv
<1> HIDE DEF n
<1>3. rows'[s][n].state = st
  BY <1>2 DEF Attempt
<1>4. Stand
  BY <1>1, <1>2 DEF Stand, Final, Open
<1>5. \A t \in Steps : HasRow(t, {"SKIPPED"})' => HasRow(t, {"SKIPPED"})
  BY <1>2, <1>3 DEF HasRow
<1>6. \A t \in Steps : rows'[t] # << >> => rows[t] # << >>
  BY <1>1, <1>2
<1>7. Due
  BY <1>5, <1>6 DEF Due
<1> QED BY <1>1, <1>2, <1>3, <1>4, <1>7 DEF n

\* The RUNNING rows of some steps are cancelled.
LEMMA AttemptsCancelled ==
  ASSUME TypeInv, NEW S, rows' = CancelRows(S)
  PROVE  Stand /\ StayOpen /\ Due
<1>1. \A s \in Steps :
        /\ Len(rows'[s]) = Len(rows[s]) /\ DOMAIN rows'[s] = DOMAIN rows[s]
        /\ \A i \in DOMAIN rows[s] :
             \/ rows'[s][i].state = rows[s][i].state
             \/ rows[s][i].state = "RUNNING" /\ rows'[s][i].state = "CANCELLED"
  BY RowsCancelled DEF TypeInv
<1>2. Stand /\ StayOpen
  BY <1>1 DEF Stand, StayOpen, Final, Open
<1>3. \A s \in Steps : HasRow(s, {"SKIPPED"})' => HasRow(s, {"SKIPPED"})
  BY <1>1 DEF HasRow
<1>4. \A s \in Steps : rows'[s] # << >> => rows[s] # << >>
  <2> TAKE s \in Steps
  <2>1. rows[s] \in Seq(RowType) /\ rows'[s] \in Seq(RowType) /\ Len(rows'[s]) = Len(rows[s])
    BY RowsCancelled DEF TypeInv, TypeOK
  <2> QED BY <2>1
<1>5. Due
  BY <1>3, <1>4 DEF Due
<1> QED BY <1>2, <1>5

-----------------------------------------------------------------------------
(* What a step may do to a drive.                                          *)

Frame(d) == <<pc[d], verdict[d], task[d], scheduled[d], evalQ[d], skipQ[d], resolved[d], active[d]>>

\* What type correctness says of one drive.
LEMMA FrameTypes ==
  ASSUME TypeInv, NEW d \in Drives
  PROVE  /\ resolved[d] \subseteq Edges /\ active[d] \subseteq Edges
         /\ evalQ[d] \subseteq Edges /\ skipQ[d] \subseteq Edges
         /\ scheduled[d] \subseteq Steps /\ task[d] \in [Steps -> TaskType]
BY DEF TypeInv, TypeOK

\* What is known of an edge stays true as long as final rows stand.
LEMMA EdgesKept ==
  ASSUME Kept, UNCHANGED cond, NEW e \in Edges
  PROVE  /\ Settled(e[1]) => Settled(e[1])'
         /\ HasRow(e[1], {"COMPLETED"}) => HasRow(e[1], {"COMPLETED"})'
         /\ HasRow(e[1], {"SKIPPED"}) => HasRow(e[1], {"SKIPPED"})'
         /\ Closed(e) => Closed(e)'
BY EdgeEnds DEF Kept, Closed

\* Edges and tasks as they were: what was concluded is still true.
LEMMA ConclusionsStand ==
  ASSUME TypeInv, Kept, UNCHANGED cond, NEW d \in Drives, DriveInv(d),
         resolved'[d] \subseteq resolved[d], resolved'[d] \ active'[d] \subseteq resolved[d] \ active[d],
         evalQ'[d] \subseteq evalQ[d], skipQ'[d] \subseteq skipQ[d],
         \A s \in Steps : \/ task'[d][s].pc = "none"
                          \/ /\ task[d][s].pc # "none"
                             /\ task'[d][s].pc = "done" =>
                                  task[d][s].pc = "done" \/ HasRow(s, {"COMPLETED"})'
  PROVE  DriveInv(d)'
<1>1. \A s \in Steps : task'[d][s].pc = "done" => HasRow(s, {"COMPLETED"})'
  BY DEF DriveInv, Kept
<1>2. \A s \in Steps : task'[d][s].pc # "none" => \A e \in In(s) : Settled(e[1])'
  BY EdgesKept DEF DriveInv, In
<1>3. /\ \A e \in resolved'[d] : Settled(e[1])'
      /\ \A e \in resolved'[d] \ active'[d] : Closed(e)'
      /\ \A e \in evalQ'[d] : HasRow(e[1], {"COMPLETED"})'
      /\ \A e \in skipQ'[d] : HasRow(e[1], {"SKIPPED"})'
  BY EdgesKept, FrameTypes DEF DriveInv
<1> QED BY <1>1, <1>2, <1>3 DEF DriveInv

\* A loop whose tasks stay tasks has lost nothing.
LEMMA LoopStands ==
  ASSUME TypeInv, Kept, NEW d \in Drives, LoopComplete(d),
         UNCHANGED <<scheduled[d], evalQ[d], skipQ[d], resolved[d]>>,
         \A s \in Steps : task'[d][s].pc = "none" <=> task[d][s].pc = "none"
  PROVE  LoopComplete(d)'
BY FrameTypes DEF LoopComplete, Kept

\* A drive that does not act keeps its invariant.
LEMMA FrameStands ==
  ASSUME TypeInv, Kept, UNCHANGED cond, NEW d \in Drives, DriveInv(d), LoopInv(d),
         UNCHANGED Frame(d)
  PROVE  DriveInv(d)' /\ LoopInv(d)'
<1>1. DriveInv(d)'
  BY ConclusionsStand DEF Frame
<1>2. LoopComplete(d) => LoopComplete(d)'
  BY LoopStands DEF Frame
<1>3. AllSettled => AllSettled'
  BY DEF AllSettled, Kept
<1> QED BY <1>1, <1>2, <1>3 DEF LoopInv, Frame

\* A drive whose frame is empty has concluded nothing.
LEMMA EmptyFrame ==
  ASSUME NEW d \in Drives, task'[d] = [s \in Steps |-> NoTask],
         resolved'[d] = {}, evalQ'[d] = {}, skipQ'[d] = {}
  PROVE  DriveInv(d)'
BY DEF DriveInv, NoTask, Task

\* Open rows stay open and no task gains a row: ownership is kept.
LEMMA OwnedKept ==
  ASSUME TypeInv, Owned, StayOpen,
         \A c \in Drives, t \in Steps :
           Owns(c, t)' => Owns(c, t) /\ task'[c][t].row = task[c][t].row
  PROVE  Owned'
<1> SUFFICES ASSUME NEW d \in Drives, NEW s \in Steps, Owns(d, s)'
             PROVE  /\ rows'[s][task'[d][s].row].state \in Open
                    /\ \A c \in Drives : c # d /\ Owns(c, s)' => task'[c][s].row # task'[d][s].row
  BY DEF Owned
<1>1. Owns(d, s) /\ task'[d][s].row = task[d][s].row
  OBVIOUS
<1>2. task[d][s].row \in DOMAIN rows[s] /\ rows[s][task[d][s].row].state \in Open
  BY <1>1 DEF TypeInv, Numbered, NumberedTask, Owns, Owned
<1>3. rows'[s][task'[d][s].row].state \in Open
  BY <1>1, <1>2 DEF StayOpen
<1>4. \A c \in Drives : c # d /\ Owns(c, s)' => task'[c][s].row # task'[d][s].row
  BY <1>1 DEF Owned
<1> QED BY <1>3, <1>4

\* One drive acts, the others stand by.
LEMMA OneDriveActs ==
  ASSUME TypeInv, SafetyInv, Stand, Due, UNCHANGED cond, Owned',
         inst' = "COMPLETED" => inst = "COMPLETED" \/ AllSettled,
         NEW d \in Drives, DriveInv(d)', LoopInv(d)',
         \A c \in Drives \ {d} : UNCHANGED Frame(c)
  PROVE  SafetyInv'
<1>1. Kept
  BY StandKept
<1>2. \A c \in Drives : DriveInv(c)' /\ LoopInv(c)'
  BY <1>1, FrameStands DEF SafetyInv
<1>3. DependenciesSettled' /\ SkipsAreSound'
  BY <1>1, DueKeepsRows DEF SafetyInv
<1>4. CompletedMeansSettled'
  BY <1>1 DEF SafetyInv, CompletedMeansSettled, AllSettled, Kept
<1> QED BY <1>2, <1>3, <1>4 DEF SafetyInv

\* No drive acts.
LEMMA NoDriveActs ==
  ASSUME TypeInv, SafetyInv, Stand, Due, UNCHANGED cond, Owned',
         inst' = "COMPLETED" => inst = "COMPLETED" \/ AllSettled,
         \A c \in Drives : UNCHANGED Frame(c)
  PROVE  SafetyInv'
BY OneDriveActs, FrameStands, StandKept, ParameterAssumption DEF SafetyInv

-----------------------------------------------------------------------------
(* Entering and leaving the loop.                                          *)

\* A loop that scheduled everything it could, and has neither tasks nor
\* queued edges, has settled every step: of the steps it left out, one would
\* depend on none of the others, and so would have been scheduled.
LEMMA NothingLeft ==
  ASSUME NEW S \in SUBSET Steps, NEW R \in SUBSET Edges,
         \A s \in Steps : In(s) \subseteq R => s \in S,
         \A s \in S : Settled(s) /\ Out(s) \subseteq R
  PROVE  AllSettled
<1> SUFFICES ASSUME Steps \ S # {} PROVE FALSE
  BY DEF AllSettled
<1>1. PICK s \in Steps \ S : \A e \in Edges : e[2] = s => e[1] \notin Steps \ S
  BY GraphAssumption
<1>2. \A e \in In(s) : e \in R
  BY <1>1, EdgeEnds DEF In
<1> QED BY <1>2

\* EnterLoop starts from the settled steps with nothing lost.
LEMMA EnterLoopSafe ==
  ASSUME TypeInv, NEW d \in Drives, NEW done \in SUBSET Steps, EnterLoop(d, done),
         \A s \in done : Settled(s), UNCHANGED rows
  PROVE  /\ DriveInv(d)' /\ LoopInv(d)' /\ \A c \in Drives \ {d} : UNCHANGED Frame(c)
         /\ \A c \in Drives, s \in Steps : Owns(c, s)' => Owns(c, s) /\ task'[c][s].row = task[c][s].row
<1> DEFINE known == DoneEdges(done)
           ready == {s \in Steps \ done : In(s) \subseteq known}
<1>1. /\ resolved' = [resolved EXCEPT ![d] = known] /\ active' = [active EXCEPT ![d] = known]
      /\ scheduled' = [scheduled EXCEPT ![d] = done \cup ready]
      /\ task' = [task EXCEPT ![d] = [s \in Steps |-> IF s \in ready THEN NewTask ELSE NoTask]]
      /\ evalQ' = [evalQ EXCEPT ![d] = {}] /\ skipQ' = [skipQ EXCEPT ![d] = {}]
      /\ verdict' = [verdict EXCEPT ![d] = "COMPLETED"]
      /\ pc' = [pc EXCEPT ![d] = IF ready = {} THEN "mark" ELSE "poll"]
  BY DEF EnterLoop, Goto
<1>2. known \subseteq Edges /\ \A e \in known : Settled(e[1])
  BY DEF DoneEdges
<1>3. \A s \in Steps : Settled(s)' <=> Settled(s)
  BY DEF Settled, HasRow
<1>4. \A s \in done : Out(s) \subseteq known
  BY DEF Out, DoneEdges
<1>5. ready \subseteq Steps /\ \A s \in Steps : In(s) \subseteq known => s \in done \cup ready
  OBVIOUS
<1>6. \A s \in ready : In(s) \subseteq known
  OBVIOUS
<1> HIDE DEF known, ready
<1>7. /\ resolved'[d] = known /\ active'[d] = known /\ evalQ'[d] = {} /\ skipQ'[d] = {}
      /\ scheduled'[d] = done \cup ready /\ verdict'[d] = "COMPLETED"
      /\ \A s \in Steps : task'[d][s] = IF s \in ready THEN NewTask ELSE NoTask
      /\ pc'[d] = IF ready = {} THEN "mark" ELSE "poll"
  BY <1>1 DEF TypeInv, TypeOK
<1>8. NewTask.pc = "new" /\ NoTask.pc = "none"
  BY DEF NewTask, NoTask, Task
<1>9. DriveInv(d)'
  <2>1. \A e \in known : Settled(e[1])'
    BY <1>2, <1>3, EdgeEnds
  <2>2. \A s \in ready : \A e \in In(s) : Settled(e[1])'
    BY <1>6, <2>1
  <2> QED BY <1>7, <1>8, <2>1, <2>2 DEF DriveInv
<1>10. LoopComplete(d)'
  BY <1>3, <1>4, <1>5, <1>7, <1>8 DEF LoopComplete
<1>11. ready = {} => AllSettled'
  <2>1. ready = {} => AllSettled
    BY <1>2, <1>4, <1>5, NothingLeft
  <2> QED BY <1>3, <2>1 DEF AllSettled
<1>12. LoopInv(d)'
  BY <1>7, <1>10, <1>11 DEF LoopInv, InLoop
<1>13. \A c \in Drives \ {d} : UNCHANGED Frame(c)
  BY <1>1 DEF Frame, TypeInv, TypeOK
<1>14. \A c \in Drives, s \in Steps : Owns(c, s)' => Owns(c, s) /\ task'[c][s].row = task[c][s].row
  BY <1>7, <1>8, <1>13 DEF Owns, Frame
<1> QED BY <1>9, <1>12, <1>13, <1>14

\* LeaveLoop leaves an empty frame that owns nothing.
LEMMA LeaveLoopSafe ==
  ASSUME TypeInv, NEW d \in Drives, LeaveLoop(d)
  PROVE  /\ DriveInv(d)'
         /\ \A c \in Drives, s \in Steps : Owns(c, s)' => Owns(c, s) /\ task'[c][s].row = task[c][s].row
<1>1. task'[d] = [s \in Steps |-> NoTask] /\ \A c \in Drives \ {d} : task'[c] = task[c]
  BY DEF LeaveLoop, TypeInv, TypeOK
<1>2. resolved'[d] = {} /\ evalQ'[d] = {} /\ skipQ'[d] = {}
  BY DEF LeaveLoop, TypeInv, TypeOK
<1>3. \A c \in Drives, s \in Steps : Owns(c, s)' => Owns(c, s) /\ task'[c][s].row = task[c][s].row
  BY <1>1 DEF Owns, NoTask, Task
<1> QED BY <1>1, <1>2, <1>3, EmptyFrame

\* Start keeps the safety invariant.
LEMMA StartSafe ==
  ASSUME TypeInv, SafetyInv, NEW d \in Drives, Start(d)
  PROVE  SafetyInv'
<1>1. EnterLoop(d, {}) /\ UNCHANGED <<inst, rows, cond>>
  BY DEF Start, store
<1>2. Stand /\ StayOpen /\ Due
  BY <1>1, SameRows
<1>3. Owned'
  BY <1>1, <1>2, EnterLoopSafe, OwnedKept DEF SafetyInv
<1> QED BY <1>1, <1>2, <1>3, EnterLoopSafe, OneDriveActs

\* ResumeEnter keeps the safety invariant.
LEMMA ResumeEnterSafe ==
  ASSUME TypeInv, SafetyInv, NEW d \in Drives, ResumeEnter(d)
  PROVE  SafetyInv'
<1>1. EnterLoop(d, AlreadyDone) /\ UNCHANGED <<inst, rows, cond>>
  BY DEF ResumeEnter, store
<1>2. AlreadyDone \in SUBSET Steps /\ \A s \in AlreadyDone : Settled(s)
  BY DEF AlreadyDone
<1>3. Stand /\ StayOpen /\ Due
  BY <1>1, SameRows
<1>4. Owned'
  BY <1>1, <1>2, <1>3, EnterLoopSafe, OwnedKept DEF SafetyInv
<1> QED BY <1>1, <1>2, <1>3, <1>4, EnterLoopSafe, OneDriveActs

-----------------------------------------------------------------------------
(* Moves of a coroutine that touch neither rows nor frame.                 *)

\* A drive moves without touching rows, tasks or edges.
LEMMA MoveSafe ==
  ASSUME TypeInv, SafetyInv, NEW d \in Drives, UNCHANGED <<rows, task, edgeVars, cond>>,
         inst' = "COMPLETED" => inst = "COMPLETED",
         \A c \in Drives \ {d} : UNCHANGED <<pc[c], verdict[c]>>,
         pc'[d] \in InLoop => pc[d] \in InLoop /\ verdict'[d] = verdict[d],
         pc'[d] = "cancel" => verdict'[d] # "COMPLETED",
         pc'[d] # "mark"
  PROVE  SafetyInv'
<1>1. Stand /\ StayOpen /\ Due /\ Kept
  BY SameRows, StandKept
<1>2. Owned'
  BY <1>1, OwnedKept DEF SafetyInv, Owns
<1>3. UNCHANGED <<scheduled, evalQ, skipQ, resolved, active>>
  BY DEF edgeVars
<1>4. DriveInv(d)'
  BY <1>1, <1>3, ConclusionsStand DEF SafetyInv
<1>5. LoopComplete(d) => LoopComplete(d)'
  BY <1>1, <1>3, LoopStands
<1>6. LoopInv(d)'
  BY <1>5 DEF LoopInv, SafetyInv
<1>7. \A c \in Drives \ {d} : UNCHANGED Frame(c)
  BY <1>3 DEF Frame
<1> QED BY <1>1, <1>2, <1>4, <1>6, <1>7, OneDriveActs

\* ResumeLoad keeps the safety invariant.
LEMMA ResumeLoadSafe ==
  ASSUME TypeInv, SafetyInv, NEW d \in Drives, ResumeLoad(d)
  PROVE  SafetyInv'
<1>1. pc' = [pc EXCEPT ![d] = "loaded"] /\ UNCHANGED <<inst, rows, task, edgeVars, cond, verdict>>
  BY DEF ResumeLoad, Goto, store
<1>2. pc'[d] = "loaded" /\ \A c \in Drives \ {d} : pc'[c] = pc[c]
  BY <1>1 DEF TypeInv, TypeOK
<1> QED BY <1>1, <1>2, MoveSafe DEF InLoop

\* ResumeWrite keeps the safety invariant.
LEMMA ResumeWriteSafe ==
  ASSUME TypeInv, SafetyInv, NEW d \in Drives, ResumeWrite(d)
  PROVE  SafetyInv'
<1>1. /\ pc' = [pc EXCEPT ![d] = "listing"] /\ inst' = "RUNNING"
      /\ UNCHANGED <<rows, task, edgeVars, cond, verdict>>
  BY DEF ResumeWrite, Goto, loopVars
<1>2. pc'[d] = "listing" /\ \A c \in Drives \ {d} : pc'[c] = pc[c]
  BY <1>1 DEF TypeInv, TypeOK
<1> QED BY <1>1, <1>2, MoveSafe DEF InLoop

\* Poll keeps the safety invariant.
LEMMA PollSafe ==
  ASSUME TypeInv, SafetyInv, NEW d \in Drives, Poll(d)
  PROVE  SafetyInv'
<1>1. /\ pc[d] = "poll" /\ UNCHANGED <<inst, rows, task, edgeVars, cond>>
      /\ \/ /\ inst \in {"PAUSED", "KILLED"}
            /\ pc' = [pc EXCEPT ![d] = "cancel"] /\ verdict' = [verdict EXCEPT ![d] = inst]
         \/ pc' = [pc EXCEPT ![d] = "wait"] /\ verdict' = verdict
  BY DEF Poll, At, Abort, Goto, store
<1>2. CASE /\ inst \in {"PAUSED", "KILLED"}
           /\ pc' = [pc EXCEPT ![d] = "cancel"] /\ verdict' = [verdict EXCEPT ![d] = inst]
  <2>1. /\ pc'[d] = "cancel" /\ verdict'[d] = inst
        /\ \A c \in Drives \ {d} : pc'[c] = pc[c] /\ verdict'[c] = verdict[c]
    BY <1>2 DEF TypeInv, TypeOK
  <2> QED BY <1>1, <1>2, <2>1, MoveSafe DEF InLoop
<1>3. CASE pc' = [pc EXCEPT ![d] = "wait"] /\ verdict' = verdict
  <2>1. pc'[d] = "wait" /\ \A c \in Drives \ {d} : pc'[c] = pc[c]
    BY <1>3 DEF TypeInv, TypeOK
  <2> QED BY <1>1, <1>3, <2>1, MoveSafe DEF InLoop
<1> QED BY <1>1, <1>2, <1>3

\* Collect keeps the safety invariant.
LEMMA CollectSafe ==
  ASSUME TypeInv, SafetyInv, NEW d \in Drives, Collect(d)
  PROVE  SafetyInv'
<1>1. /\ pc[d] = "wait" /\ pc' = [pc EXCEPT ![d] = "process"]
      /\ UNCHANGED <<inst, rows, task, edgeVars, cond, verdict>>
  BY DEF Collect, At, Goto, store
<1>2. pc'[d] = "process" /\ \A c \in Drives \ {d} : pc'[c] = pc[c]
  BY <1>1 DEF TypeInv, TypeOK
<1> QED BY <1>1, <1>2, MoveSafe DEF InLoop

\* A drive is told to leave its loop.
LEMMA AbortSafe ==
  ASSUME TypeInv, SafetyInv, NEW d \in Drives, NEW st \in {"FAILED", "PAUSED"},
         Abort(d, st), UNCHANGED <<inst, rows, task, edgeVars, cond>>
  PROVE  SafetyInv'
<1>1. /\ pc'[d] = "cancel" /\ verdict'[d] = st
      /\ \A c \in Drives \ {d} : pc'[c] = pc[c] /\ verdict'[c] = verdict[c]
  BY DEF Abort, Goto, TypeInv, TypeOK
<1> QED BY <1>1, MoveSafe DEF InLoop

\* Timeout keeps the safety invariant.
LEMMA TimeoutSafe ==
  ASSUME TypeInv, SafetyInv, NEW d \in Drives, Timeout(d)
  PROVE  SafetyInv'
BY AbortSafe DEF Timeout, store

\* Interrupt keeps the safety invariant.
LEMMA InterruptSafe ==
  ASSUME TypeInv, SafetyInv, NEW d \in Drives, Interrupt(d)
  PROVE  SafetyInv'
BY AbortSafe DEF Interrupt, store

-----------------------------------------------------------------------------
(* The end of a drive, of its loop, of the process.                        *)

\* Return keeps the safety invariant.
LEMMA ReturnSafe ==
  ASSUME TypeInv, SafetyInv, NEW d \in Drives, Return(d), UNCHANGED <<rows, cond>>,
         inst' = "COMPLETED" => inst = "COMPLETED" \/ AllSettled
  PROVE  SafetyInv'
<1>1. Stand /\ StayOpen /\ Due
  BY SameRows
<1>2. LeaveLoop(d) /\ pc' = [pc EXCEPT ![d] = "idle"] /\ verdict' = [verdict EXCEPT ![d] = "COMPLETED"]
  BY DEF Return, Goto
<1>3. Owned'
  BY <1>1, <1>2, LeaveLoopSafe, OwnedKept DEF SafetyInv
<1>4. pc'[d] = "idle"
  BY <1>2 DEF TypeInv, TypeOK
<1>5. LoopInv(d)'
  BY <1>4 DEF LoopInv, InLoop
<1>6. \A c \in Drives \ {d} : UNCHANGED Frame(c)
  BY <1>2 DEF LeaveLoop, Frame, TypeInv, TypeOK
<1> QED BY <1>1, <1>2, <1>3, <1>5, <1>6, LeaveLoopSafe, OneDriveActs

\* ResumeAborts keeps the safety invariant.
LEMMA ResumeAbortsSafe ==
  ASSUME TypeInv, SafetyInv, NEW d \in Drives, ResumeAborts(d)
  PROVE  SafetyInv'
BY ReturnSafe DEF ResumeAborts, store

\* InterruptOutside keeps the safety invariant.
LEMMA InterruptOutsideSafe ==
  ASSUME TypeInv, SafetyInv, NEW d \in Drives, InterruptOutside(d)
  PROVE  SafetyInv'
BY ReturnSafe DEF InterruptOutside, store

\* Mark keeps the safety invariant.
LEMMA MarkSafe ==
  ASSUME TypeInv, SafetyInv, NEW d \in Drives, Mark(d)
  PROVE  SafetyInv'
<1>1. inst' = "COMPLETED" => AllSettled
  BY DEF Mark, At, SafetyInv, LoopInv
<1> QED BY <1>1, ReturnSafe DEF Mark

\* The loop is left for _mark_instance.
LEMMA LeaveForMark ==
  ASSUME TypeInv, SafetyInv, NEW d \in Drives, LeaveLoop(d), Stand, StayOpen, Due,
         UNCHANGED <<inst, cond>>, pc' = [pc EXCEPT ![d] = "mark"],
         verdict'[d] = "COMPLETED" => AllSettled',
         \A c \in Drives \ {d} : verdict'[c] = verdict[c]
  PROVE  SafetyInv'
<1>1. Owned'
  BY LeaveLoopSafe, OwnedKept DEF SafetyInv
<1>2. pc'[d] = "mark"
  BY DEF TypeInv, TypeOK
<1>3. LoopInv(d)'
  BY <1>2 DEF LoopInv, InLoop
<1>4. \A c \in Drives \ {d} : UNCHANGED Frame(c)
  BY DEF LeaveLoop, Frame, TypeInv, TypeOK
<1> QED BY <1>1, <1>3, <1>4, LeaveLoopSafe, OneDriveActs

\* CancelPending keeps the safety invariant.
LEMMA CancelPendingSafe ==
  ASSUME TypeInv, SafetyInv, NEW d \in Drives, CancelPending(d)
  PROVE  SafetyInv'
<1>1. /\ pc[d] = "cancel" /\ rows' = CancelRows(InProgress(d)) /\ LeaveLoop(d)
      /\ pc' = [pc EXCEPT ![d] = "mark"] /\ UNCHANGED <<inst, cond, verdict>>
  BY DEF CancelPending, At, Goto
<1>2. Stand /\ StayOpen /\ Due
  BY <1>1, AttemptsCancelled
<1>3. verdict'[d] # "COMPLETED"
  BY <1>1 DEF SafetyInv, LoopInv
<1> QED BY <1>1, <1>2, <1>3, LeaveForMark

\* InterruptCancel keeps the safety invariant.
LEMMA InterruptCancelSafe ==
  ASSUME TypeInv, SafetyInv, NEW d \in Drives, InterruptCancel(d)
  PROVE  SafetyInv'
<1>1. /\ LeaveLoop(d) /\ pc' = [pc EXCEPT ![d] = "mark"] /\ UNCHANGED <<inst, rows, cond>>
      /\ verdict' = [verdict EXCEPT ![d] = "PAUSED"]
  BY DEF InterruptCancel, Goto, store
<1>2. verdict'[d] = "PAUSED" /\ \A c \in Drives \ {d} : verdict'[c] = verdict[c]
  BY <1>1 DEF TypeInv, TypeOK
<1> QED BY <1>1, <1>2, SameRows, LeaveForMark

\* NextTurn keeps the safety invariant.
LEMMA NextTurnSafe ==
  ASSUME TypeInv, SafetyInv, NEW d \in Drives, NextTurn(d)
  PROVE  SafetyInv'
<1>1. /\ pc[d] = "process" /\ evalQ[d] = {} /\ skipQ[d] = {}
      /\ UNCHANGED <<inst, rows, cond, verdict>>
  BY DEF NextTurn, At, EdgesDone, store
<1>2. CASE InProgress(d) # {}
  <2>1. pc' = [pc EXCEPT ![d] = "poll"] /\ UNCHANGED <<task, edgeVars>>
    BY <1>2 DEF NextTurn, Goto
  <2>2. pc'[d] = "poll" /\ \A c \in Drives \ {d} : pc'[c] = pc[c]
    BY <2>1 DEF TypeInv, TypeOK
  <2> QED BY <1>1, <2>1, <2>2, MoveSafe DEF InLoop
<1>3. CASE InProgress(d) = {}
  <2>1. pc' = [pc EXCEPT ![d] = "mark"] /\ LeaveLoop(d)
    BY <1>3 DEF NextTurn, Goto
  <2>2. LoopComplete(d)
    BY <1>1 DEF SafetyInv, LoopInv, InLoop
  <2>3. \A s \in Steps : task[d][s].pc = "none"
    BY <1>3 DEF InProgress
  <2>4. AllSettled
    BY <1>1, <2>2, <2>3, NothingLeft, FrameTypes DEF LoopComplete
  <2>5. AllSettled'
    BY <1>1, <2>4 DEF AllSettled, Settled, HasRow
  <2> QED BY <1>1, <2>1, <2>5, SameRows, LeaveForMark
<1> QED BY <1>2, <1>3

\* The process is gone, and with it every frame.
LEMMA ForgetSafe ==
  ASSUME TypeInv, SafetyInv, Forget, UNCHANGED <<inst, rows, cond>>
  PROVE  SafetyInv'
<1>1. \A d \in Drives : /\ pc'[d] = "idle" /\ task'[d] = [s \in Steps |-> NoTask]
                        /\ resolved'[d] = {} /\ evalQ'[d] = {} /\ skipQ'[d] = {}
  BY DEF Forget
<1>2. \A d \in Drives : DriveInv(d)' /\ LoopInv(d)'
  BY <1>1, EmptyFrame DEF LoopInv, InLoop
<1>3. Owned'
  BY <1>1 DEF Owned, Owns, NoTask, Task
<1>4. Kept /\ Due
  BY SameRows, StandKept
<1>5. DependenciesSettled' /\ SkipsAreSound'
  BY <1>4, DueKeepsRows DEF SafetyInv
<1>6. CompletedMeansSettled'
  BY <1>4 DEF SafetyInv, CompletedMeansSettled, Kept
<1> QED BY <1>2, <1>3, <1>5, <1>6 DEF SafetyInv

\* Shutdown, exit, crash and boot sweep.
LEMMA ProcessSafe ==
  ASSUME TypeInv, SafetyInv, Stop \/ Exit \/ Crash \/ Boot
  PROVE  SafetyInv'
<1>1. CASE Stop
  <2>1. UNCHANGED <<inst, rows, cond, pc, loopVars>>
    BY <1>1 DEF Stop, store
  <2>2. Stand /\ StayOpen /\ Due /\ \A c \in Drives : UNCHANGED Frame(c)
    BY <2>1, SameRows DEF Frame, loopVars, edgeVars
  <2>3. Owned'
    BY <2>1 DEF SafetyInv, Owned, Owns, loopVars
  <2> QED BY <2>1, <2>2, <2>3, NoDriveActs
<1>2. CASE Exit
  BY <1>2, ForgetSafe DEF Exit, store
<1>3. CASE Crash
  BY <1>3, ForgetSafe DEF Crash, store
<1>4. CASE Boot
  <2>1. UNCHANGED <<cond, pc, loopVars>> /\ (inst' = "PAUSED" \/ inst' = inst)
    BY <1>4 DEF Boot
  <2>2. Stand /\ StayOpen /\ Due
    BY <1>4, SameRows, AttemptsCancelled DEF Boot
  <2>3. \A c \in Drives : UNCHANGED Frame(c)
    BY <2>1 DEF Frame, loopVars, edgeVars
  <2>4. Owned'
    BY <2>1, <2>2, OwnedKept DEF SafetyInv, Owns, loopVars
  <2> QED BY <2>1, <2>2, <2>3, <2>4, NoDriveActs
<1> QED BY <1>1, <1>2, <1>3, <1>4

\* The API handlers write the instance row, never COMPLETED.
LEMMA ApiSafe ==
  ASSUME TypeInv, SafetyInv, NEW c \in Clients, ApiWrite(c) \/ \E op \in Ops : ApiRead(c, op)
  PROVE  SafetyInv'
<1>1. UNCHANGED <<rows, cond, pc, loopVars>> /\ (inst' # "COMPLETED" \/ inst' = inst)
  BY DEF ApiWrite, ApiRead, Target, store
<1>2. Stand /\ StayOpen /\ Due /\ \A d \in Drives : UNCHANGED Frame(d)
  BY <1>1, SameRows DEF Frame, loopVars, edgeVars
<1>3. Owned'
  BY <1>1 DEF SafetyInv, Owned, Owns, loopVars
<1> QED BY <1>1, <1>2, <1>3, NoDriveActs

-----------------------------------------------------------------------------
(* Step tasks.                                                             *)

\* A task moves on, or ends with a settled step behind it.
LEMMA TaskMoves ==
  ASSUME TypeInv, SafetyInv, Stand, Due, Owned',
         NEW d \in Drives, NEW s \in Steps, NEW k \in TaskType,
         task' = [task EXCEPT ![d][s] = k], task[d][s].pc # "none", k.pc # "none",
         k.pc = "done" => HasRow(s, {"COMPLETED"})',
         UNCHANGED <<inst, cond, pc, verdict, edgeVars>>
  PROVE  SafetyInv'
<1>1. UNCHANGED <<scheduled, evalQ, skipQ, resolved, active>>
  BY DEF edgeVars
<1>2. /\ \A c \in Drives \ {d} : task'[c] = task[c]
      /\ task'[d][s] = k /\ \A t \in Steps \ {s} : task'[d][t] = task[d][t]
  BY DEF TypeInv, TypeOK
<1>3. Kept
  BY StandKept
<1>4. DriveInv(d)'
  BY <1>1, <1>2, <1>3, ConclusionsStand DEF SafetyInv
<1>5. LoopComplete(d) => LoopComplete(d)'
  BY <1>1, <1>2, <1>3, LoopStands
<1>6. AllSettled => AllSettled'
  BY <1>3 DEF AllSettled, Kept
<1>7. LoopInv(d)'
  BY <1>5, <1>6 DEF LoopInv, SafetyInv
<1>8. \A c \in Drives \ {d} : UNCHANGED Frame(c)
  BY <1>1, <1>2 DEF Frame
<1> QED BY <1>4, <1>7, <1>8, OneDriveActs

\* SetTask changes one task.
LEMMA TaskSet ==
  ASSUME TypeInv, NEW d \in Drives, NEW s \in Steps, NEW k, task' = [task EXCEPT ![d][s] = k]
  PROVE  /\ task'[d][s] = k
         /\ \A c \in Drives, t \in Steps : c # d \/ t # s => task'[c][t] = task[c][t]
BY DEF TypeInv, TypeOK

\* Rows stay open and no task gains a row: ownership is undisturbed.
LEMMA TaskWithoutRow ==
  ASSUME TypeInv, SafetyInv, StayOpen, NEW d \in Drives, NEW s \in Steps, NEW k,
         task' = [task EXCEPT ![d][s] = k],
         k.pc \in {"run", "save"} => Owns(d, s) /\ k.row = task[d][s].row
  PROVE  Owned'
BY TaskSet, OwnedKept DEF Owns, SafetyInv

\* TaskBegin keeps the safety invariant.
LEMMA TaskBeginSafe ==
  ASSUME TypeInv, TypeInv', SafetyInv, NEW d \in Drives, NEW s \in Steps, TaskBegin(d, s)
  PROVE  SafetyInv'
<1> DEFINE k == Task("create", AttemptBase(s) + 1, Retries[s], 0)
<1>1. /\ task[d][s].pc = "new" /\ task' = [task EXCEPT ![d][s] = k]
      /\ UNCHANGED <<inst, rows, cond, pc, verdict, edgeVars>>
  BY DEF TaskBegin, TaskAt, SetTask, store
<1>2. k.pc = "create"
  BY DEF Task
<1> HIDE DEF k
<1>3. k \in TaskType
  BY <1>1, TaskSet DEF TypeInv, TypeOK
<1>4. Stand /\ StayOpen /\ Due
  BY <1>1, SameRows
<1>5. Owned'
  BY <1>1, <1>2, <1>4, TaskWithoutRow
<1> QED BY <1>1, <1>2, <1>3, <1>4, <1>5, TaskMoves

\* TaskCreate keeps the safety invariant.
LEMMA TaskCreateSafe ==
  ASSUME TypeInv, TypeInv', SafetyInv, NEW d \in Drives, NEW s \in Steps, TaskCreate(d, s)
  PROVE  SafetyInv'
<1> DEFINE k == Task("run", task[d][s].attempt, task[d][s].left, Len(rows[s]) + 1)
           r == Attempt(task[d][s].attempt, "RUNNING")
<1>1. /\ task[d][s].pc = "create" /\ task' = [task EXCEPT ![d][s] = k]
      /\ rows' = [rows EXCEPT ![s] = Append(@, r)]
      /\ UNCHANGED <<inst, cond, pc, verdict, edgeVars>>
  BY DEF TaskCreate, TaskAt, SetTask
<1>2. k.pc = "run" /\ k.row = Len(rows[s]) + 1 /\ r.state = "RUNNING"
  BY DEF Task, Attempt
<1>3. task[d][s].attempt \in Nat \ {0}
  BY <1>1, RowsType DEF TypeInv, Numbered, NumberedTask
<1>4. r \in RowType
  BY <1>3 DEF Attempt, RowType
<1>5. \A e \in In(s) : Settled(e[1])
  BY <1>1 DEF SafetyInv, DriveInv
<1>6. Stand /\ StayOpen /\ Due
  BY <1>1, <1>3, <1>5, AttemptCreated
<1> HIDE DEF k, r
<1>7. /\ rows'[s][Len(rows[s]) + 1] = r /\ Len(rows[s]) + 1 \notin DOMAIN rows[s]
  <2>1. rows'[s][Len(rows[s]) + 1] = r
    BY <1>1, <1>4, RowAppended DEF TypeInv
  <2>2. Len(rows[s]) + 1 \notin DOMAIN rows[s]
    BY RowsType DEF TypeInv
  <2> QED BY <2>1, <2>2
<1>8. k \in TaskType
  BY <1>1, TaskSet DEF TypeInv, TypeOK
<1>9. Owned'
  <2>1. task'[d][s] = k /\ \A c \in Drives, t \in Steps : c # d \/ t # s => task'[c][t] = task[c][t]
    BY <1>1 DEF TypeInv, TypeOK
  <2>2. \A c \in Drives, t \in Steps : Owns(c, t) =>
          task[c][t].row \in DOMAIN rows[t] /\ rows[t][task[c][t].row].state \in Open
    BY DEF TypeInv, Numbered, NumberedTask, SafetyInv, Owned, Owns
  <2>3. \A c \in Drives, t \in Steps : c # d \/ t # s =>
          (Owns(c, t)' => Owns(c, t) /\ rows'[t][task'[c][t].row].state \in Open)
    BY <2>1, <2>2, <1>6 DEF Owns, StayOpen
  <2>4. rows'[s][task'[d][s].row].state \in Open
    BY <2>1, <1>2, <1>7 DEF Open
  <2>5. \A c \in Drives : c # d /\ Owns(c, s)' => task'[c][s].row # task'[d][s].row
    BY <2>1, <2>2, <2>3, <1>2, <1>7
  <2>6. \A b, c \in Drives, t \in Steps : (b # d \/ t # s) /\ (c # d \/ t # s) /\ b # c
          /\ Owns(b, t)' /\ Owns(c, t)' => task'[b][t].row # task'[c][t].row
    BY <2>1, <2>3 DEF SafetyInv, Owned
  <2> QED BY <2>3, <2>4, <2>5, <2>6 DEF Owned
<1> QED BY <1>1, <1>2, <1>6, <1>8, <1>9, TaskMoves

\* TaskRan keeps the safety invariant.
LEMMA TaskRanSafe ==
  ASSUME TypeInv, TypeInv', SafetyInv, NEW d \in Drives, NEW s \in Steps, TaskRan(d, s)
  PROVE  SafetyInv'
<1> DEFINE k == Task("save", task[d][s].attempt, task[d][s].left, task[d][s].row)
<1>1. /\ task[d][s].pc = "run" /\ task' = [task EXCEPT ![d][s] = k]
      /\ UNCHANGED <<inst, rows, cond, pc, verdict, edgeVars>>
  BY DEF TaskRan, TaskAt, SetTask, store
<1>2. k.pc = "save" /\ k.row = task[d][s].row
  BY DEF Task
<1> HIDE DEF k
<1>3. k \in TaskType
  BY <1>1, TaskSet DEF TypeInv, TypeOK
<1>4. Stand /\ StayOpen /\ Due
  BY <1>1, SameRows
<1>5. Owned'
  BY <1>1, <1>2, <1>4, TaskWithoutRow DEF Owns
<1> QED BY <1>1, <1>2, <1>3, <1>4, <1>5, TaskMoves

\* An attempt ends and its task owns nothing any more.
LEMMA EndOwned ==
  ASSUME TypeInv, SafetyInv, NEW d \in Drives, NEW s \in Steps, Owns(d, s),
         NEW st \in {"COMPLETED", "FAILED"}, SetRow(s, task[d][s].row, st),
         NEW k, task' = [task EXCEPT ![d][s] = k], k.pc \notin {"run", "save"}
  PROVE  Owned'
<1>1. \A t \in Steps : \A i \in DOMAIN rows[t] :
        t # s \/ i # task[d][s].row => rows'[t][i] = rows[t][i]
  BY AttemptEnded DEF SafetyInv
<1>2. task'[d][s] = k /\ \A c \in Drives, t \in Steps : c # d \/ t # s => task'[c][t] = task[c][t]
  BY DEF TypeInv, TypeOK
<1>3. \A c \in Drives, t \in Steps : Owns(c, t)' =>
        /\ Owns(c, t) /\ task'[c][t].row = task[c][t].row
        /\ t = s => c # d
  BY <1>2 DEF Owns
<1>4. \A c \in Drives, t \in Steps : Owns(c, t) =>
        task[c][t].row \in DOMAIN rows[t] /\ rows[t][task[c][t].row].state \in Open
  BY DEF TypeInv, Numbered, NumberedTask, SafetyInv, Owned, Owns
<1>5. \A c \in Drives : c # d /\ Owns(c, s) => task[c][s].row # task[d][s].row
  BY DEF SafetyInv, Owned
<1>6. \A c \in Drives, t \in Steps : Owns(c, t)' => rows'[t][task'[c][t].row].state \in Open
  BY <1>1, <1>3, <1>4, <1>5
<1>7. \A b, c \in Drives, t \in Steps :
        b # c /\ Owns(b, t)' /\ Owns(c, t)' => task'[b][t].row # task'[c][t].row
  BY <1>3 DEF SafetyInv, Owned
<1> QED BY <1>6, <1>7 DEF Owned

\* TaskSave keeps the safety invariant.
LEMMA TaskSaveSafe ==
  ASSUME TypeInv, TypeInv', SafetyInv, NEW d \in Drives, NEW s \in Steps, TaskSave(d, s)
  PROVE  SafetyInv'
<1> DEFINE k == Task("done", 0, 0, 0)
<1>1. /\ task[d][s].pc = "save" /\ task' = [task EXCEPT ![d][s] = k]
      /\ SetRow(s, task[d][s].row, "COMPLETED")
      /\ UNCHANGED <<inst, cond, pc, verdict, edgeVars>>
  BY DEF TaskSave, TaskAt, SetTask
<1>2. k.pc = "done" /\ k \in TaskType
  BY DEF Task, TaskType
<1> HIDE DEF k
<1>3. Owns(d, s)
  BY <1>1 DEF Owns
<1>4. Stand /\ Due /\ HasRow(s, {"COMPLETED"})'
  BY <1>1, <1>3, AttemptEnded DEF SafetyInv, HasRow
<1>5. Owned'
  BY <1>1, <1>2, <1>3, EndOwned
<1> QED BY <1>1, <1>2, <1>4, <1>5, TaskMoves

\* TaskFailed keeps the safety invariant.
LEMMA TaskFailedSafe ==
  ASSUME TypeInv, TypeInv', SafetyInv, NEW d \in Drives, NEW s \in Steps, TaskFailed(d, s)
  PROVE  SafetyInv'
<1>1. /\ task[d][s].pc = "run" /\ SetRow(s, task[d][s].row, "FAILED")
      /\ UNCHANGED <<inst, cond, pc, verdict, edgeVars>>
  BY DEF TaskFailed, TaskAt
<1>2. PICK k : task' = [task EXCEPT ![d][s] = k] /\ k.pc \in {"create", "failed"}
  <2> DEFINE again == Task("create", task[d][s].attempt + 1, task[d][s].left - 1, 0)
             ended == Task("failed", 0, 0, 0)
  <2>0. again.pc = "create" /\ ended.pc = "failed"
    BY DEF Task
  <2> HIDE DEF again, ended
  <2>1. CASE task' = [task EXCEPT ![d][s] = again]
    BY <2>0, <2>1
  <2>2. CASE task' = [task EXCEPT ![d][s] = ended]
    BY <2>0, <2>2
  <2> QED BY <2>1, <2>2 DEF TaskFailed, SetTask, again, ended
<1>3. k \in TaskType
  BY <1>2, TaskSet DEF TypeInv, TypeOK
<1>4. Owns(d, s)
  BY <1>1 DEF Owns
<1>5. Stand /\ Due
  BY <1>1, <1>4, AttemptEnded DEF SafetyInv
<1>6. Owned'
  BY <1>1, <1>2, <1>4, EndOwned
<1> QED BY <1>1, <1>2, <1>3, <1>5, <1>6, TaskMoves

\* TaskStoreFails keeps the safety invariant.
LEMMA TaskStoreFailsSafe ==
  ASSUME TypeInv, TypeInv', SafetyInv, NEW d \in Drives, NEW s \in Steps, TaskStoreFails(d, s)
  PROVE  SafetyInv'
<1> DEFINE k == Task("failed", 0, 0, 0)
<1>1. /\ task[d][s].pc \in {"run", "save"} /\ task' = [task EXCEPT ![d][s] = k]
      /\ UNCHANGED <<inst, rows, cond, pc, verdict, edgeVars>>
  BY DEF TaskStoreFails, SetTask, store
<1>2. k.pc = "failed" /\ k \in TaskType
  BY DEF Task, TaskType
<1> HIDE DEF k
<1>3. Stand /\ StayOpen /\ Due
  BY <1>1, SameRows
<1>4. Owned'
  BY <1>1, <1>2, <1>3, TaskWithoutRow
<1> QED BY <1>1, <1>2, <1>3, <1>4, TaskMoves

-----------------------------------------------------------------------------
(* Edges.                                                                  *)

\* A finished task is looked at.
LEMMA ExamineSafe ==
  ASSUME TypeInv, SafetyInv, NEW d \in Drives, NEW s \in Steps, Examine(d, s)
  PROVE  SafetyInv'
<1>1. /\ pc[d] = "process" /\ evalQ[d] = {} /\ skipQ[d] = {}
      /\ task' = [task EXCEPT ![d][s] = NoTask]
      /\ UNCHANGED <<inst, rows, cond, scheduled, skipQ, resolved, active>>
      /\ \/ /\ evalQ' = evalQ
            /\ \E st \in {"FAILED", "PAUSED"} : Abort(d, st)
         \/ /\ task[d][s].pc = "done" /\ evalQ' = [evalQ EXCEPT ![d] = Out(s)]
            /\ UNCHANGED <<pc, verdict>>
  BY DEF Examine, At, EdgesDone, SetTask, store
<1>2. /\ task'[d][s] = NoTask /\ NoTask.pc = "none"
      /\ \A t \in Steps \ {s} : task'[d][t] = task[d][t]
      /\ \A c \in Drives \ {d} : task'[c] = task[c]
  BY <1>1 DEF TypeInv, TypeOK, NoTask, Task
<1>3. Stand /\ StayOpen /\ Due /\ Kept
  BY <1>1, SameRows, StandKept
<1>4. Owned'
  BY <1>1, <1>2, <1>3, TaskWithoutRow
<1>5. CASE evalQ' = evalQ /\ \E st \in {"FAILED", "PAUSED"} : Abort(d, st)
  <2>1. /\ pc'[d] = "cancel" /\ verdict'[d] # "COMPLETED"
        /\ \A c \in Drives \ {d} : pc'[c] = pc[c] /\ verdict'[c] = verdict[c]
    BY <1>5 DEF Abort, Goto, TypeInv, TypeOK
  <2>2. DriveInv(d)'
    BY <1>1, <1>2, <1>3, <1>5, ConclusionsStand DEF SafetyInv
  <2>3. LoopInv(d)'
    BY <2>1 DEF LoopInv, InLoop
  <2>4. \A c \in Drives \ {d} : UNCHANGED Frame(c)
    BY <1>1, <1>2, <1>5, <2>1 DEF Frame
  <2> QED BY <1>1, <1>3, <1>4, <2>2, <2>3, <2>4, OneDriveActs
<1>6. CASE /\ task[d][s].pc = "done" /\ evalQ' = [evalQ EXCEPT ![d] = Out(s)]
           /\ UNCHANGED <<pc, verdict>>
  <2>1. evalQ'[d] = Out(s) /\ \A c \in Drives \ {d} : evalQ'[c] = evalQ[c]
    BY <1>6 DEF TypeInv, TypeOK
  <2>2. HasRow(s, {"COMPLETED"})' /\ Settled(s)'
    BY <1>3, <1>6, SettledHas DEF SafetyInv, DriveInv, Kept
  <2>3. \A e \in evalQ'[d] : HasRow(e[1], {"COMPLETED"})'
    BY <2>1, <2>2 DEF Out
  <2>4. /\ \A e \in resolved'[d] : Settled(e[1])'
        /\ \A e \in resolved'[d] \ active'[d] : Closed(e)'
        /\ \A e \in skipQ'[d] : HasRow(e[1], {"SKIPPED"})'
    BY <1>1, <1>3, EdgesKept, FrameTypes DEF SafetyInv, DriveInv
  <2>5. \A t \in Steps : task'[d][t].pc = "done" => HasRow(t, {"COMPLETED"})'
    BY <1>2, <1>3 DEF SafetyInv, DriveInv, Kept
  <2>6. \A t \in Steps : task'[d][t].pc # "none" => \A e \in In(t) : Settled(e[1])'
    BY <1>1, <1>2, <1>3, EdgesKept DEF SafetyInv, DriveInv, In
  <2>7. DriveInv(d)'
    BY <2>3, <2>4, <2>5, <2>6 DEF DriveInv
  <2>8. LoopComplete(d) /\ verdict[d] = "COMPLETED"
    BY <1>1 DEF SafetyInv, LoopInv, InLoop
  <2>9. LoopComplete(d)'
    <3>1. scheduled'[d] = scheduled[d] /\ scheduled[d] \subseteq Steps /\ resolved'[d] = resolved[d]
      BY <1>1, FrameTypes
    <3>2. \A t \in scheduled'[d] : task'[d][t].pc # "none" \/ Settled(t)'
      BY <1>2, <1>3, <2>2, <2>8, <3>1 DEF LoopComplete, Kept
    <3>3. \A t \in scheduled'[d] : task'[d][t].pc = "none" =>
            Out(t) \subseteq resolved'[d] \cup evalQ'[d] \cup skipQ'[d]
      BY <1>1, <1>2, <2>1, <2>8, <3>1 DEF LoopComplete
    <3> QED BY <2>8, <3>1, <3>2, <3>3 DEF LoopComplete
  <2>10. LoopInv(d)'
    BY <1>1, <1>6, <2>8, <2>9 DEF LoopInv
  <2>11. \A c \in Drives \ {d} : UNCHANGED Frame(c)
    BY <1>1, <1>2, <1>6, <2>1 DEF Frame
  <2> QED BY <1>1, <1>3, <1>4, <2>7, <2>10, <2>11, OneDriveActs
<1> QED BY <1>1, <1>5, <1>6

\* An edge is resolved, and its target scheduled or skipped if it was the last.
LEMMA EdgeResolved ==
  ASSUME TypeInv, SafetyInv, NEW d \in Drives, NEW e \in Edges, pc[d] = "process",
         Settled(e[1]), NEW res, NEW act, NEW queue,
         res = resolved[d] \cup {e}, queue = skipQ[d] \ {e},
         act = active[d] \cup {e} \/ (act = active[d] /\ Closed(e)),
         ScheduleOrSkip(d, e[2], res, act, queue),
         resolved' = [resolved EXCEPT ![d] = res], active' = [active EXCEPT ![d] = act],
         \A c \in Drives \ {d} : evalQ'[c] = evalQ[c],
         evalQ[d] \ {e} \subseteq evalQ'[d], evalQ'[d] \subseteq evalQ[d],
         UNCHANGED <<inst, cond, pc, verdict>>
  PROVE  SafetyInv'
<1> DEFINE s == e[2]
<1>1. s \in Steps /\ e \in In(s) /\ \A t \in Steps : t # s => e \notin In(t)
  BY EdgeEnds DEF In
<1>2. /\ resolved'[d] = res /\ active'[d] = act
      /\ \A c \in Drives \ {d} : resolved'[c] = resolved[c] /\ active'[c] = active[c]
  BY DEF TypeInv, TypeOK
<1>3. /\ res \subseteq Edges /\ \A f \in res : Settled(f[1])
      /\ \A f \in res \ act : Closed(f)
  BY FrameTypes DEF SafetyInv, DriveInv
<1>4. LoopComplete(d) /\ verdict[d] = "COMPLETED"
  BY DEF SafetyInv, LoopInv, InLoop
<1>5. \A f \in evalQ'[d] \cup queue : f \in Edges
  BY FrameTypes
<1>6. /\ \A f \in evalQ'[d] : HasRow(f[1], {"COMPLETED"})
      /\ \A f \in queue : HasRow(f[1], {"SKIPPED"})
  BY DEF SafetyInv, DriveInv
<1>7. resolved[d] \cup evalQ[d] \cup skipQ[d] \subseteq res \cup evalQ'[d] \cup queue
  OBVIOUS
<1>8. scheduled[d] \subseteq Steps /\ Out(s) \subseteq Edges
  BY FrameTypes DEF Out
<1> HIDE DEF s
\* What holds of the drive once the rows and the tasks are known.
<1>9. ASSUME Kept, StayOpen, Stand, Due, Owned',
             \A c \in Drives \ {d} : UNCHANGED <<task[c], scheduled[c], skipQ[c]>>,
             \A f \in skipQ'[d] : HasRow(f[1], {"SKIPPED"})',
             \A t \in Steps : \/ task'[d][t] = task[d][t]
                              \/ t = s /\ task'[d][t].pc = "new" /\ In(s) \subseteq res,
             LoopComplete(d)'
      PROVE  SafetyInv'
  <2>1. /\ \A f \in resolved'[d] : Settled(f[1])'
        /\ \A f \in resolved'[d] \ active'[d] : Closed(f)'
        /\ \A f \in evalQ'[d] : HasRow(f[1], {"COMPLETED"})'
    BY <1>2, <1>3, <1>5, <1>6, <1>9, EdgesKept
  <2>2. \A t \in Steps : task'[d][t].pc = "done" => HasRow(t, {"COMPLETED"})'
    BY <1>9 DEF SafetyInv, DriveInv, Kept
  <2>3. \A t \in Steps : task'[d][t].pc # "none" => \A f \in In(t) : Settled(f[1])'
    BY <1>3, <1>9, EdgesKept DEF SafetyInv, DriveInv, In
  <2>4. DriveInv(d)'
    BY <1>9, <2>1, <2>2, <2>3 DEF DriveInv
  <2>5. LoopInv(d)'
    BY <1>4, <1>9 DEF LoopInv
  <2>6. \A c \in Drives \ {d} : UNCHANGED Frame(c)
    BY <1>2, <1>9 DEF Frame
  <2> QED BY <1>9, <2>4, <2>5, <2>6, OneDriveActs
<1>10. CASE /\ ~(In(s) \subseteq res) \/ s \in scheduled[d]
            /\ skipQ' = [skipQ EXCEPT ![d] = queue] /\ UNCHANGED <<rows, scheduled, task>>
  <2>1. Stand /\ StayOpen /\ Due /\ Kept
    BY <1>10, SameRows, StandKept
  <2>2. Owned'
    BY <1>10 DEF SafetyInv, Owned, Owns
  <2>3. skipQ'[d] = queue /\ \A c \in Drives \ {d} : skipQ'[c] = skipQ[c]
    BY <1>10 DEF TypeInv, TypeOK
  <2>4. \A f \in skipQ'[d] : HasRow(f[1], {"SKIPPED"})'
    BY <1>5, <1>6, <2>1, <2>3, EdgesKept
  <2>5. LoopComplete(d)'
    <3>1. \A t \in Steps : In(t) \subseteq res => t \in scheduled[d]
      BY <1>1, <1>4, <1>10 DEF LoopComplete
    <3> QED BY <1>2, <1>4, <1>7, <1>8, <1>10, <2>1, <2>3, <3>1 DEF LoopComplete, Kept
  <2> QED BY <1>9, <1>10, <2>1, <2>2, <2>3, <2>4, <2>5
<1>11. CASE /\ In(s) \subseteq res /\ In(s) \cap act = {}
            /\ scheduled' = [scheduled EXCEPT ![d] = @ \cup {s}]
            /\ rows' = [rows EXCEPT ![s] = Append(@, Attempt(1, "SKIPPED"))]
            /\ skipQ' = [skipQ EXCEPT ![d] = queue \cup Out(s)] /\ UNCHANGED task
  <2>1. \A f \in In(s) : Closed(f)
    BY <1>3, <1>11
  <2>2. Stand /\ StayOpen /\ Due /\ HasRow(s, {"SKIPPED"})' /\ Kept
    BY <1>1, <1>11, <2>1, SkipRecorded, StandKept
  <2>3. Owned'
    BY <1>11, <2>2, OwnedKept DEF SafetyInv, Owns
  <2>4. /\ skipQ'[d] = queue \cup Out(s) /\ scheduled'[d] = scheduled[d] \cup {s}
        /\ \A c \in Drives \ {d} : skipQ'[c] = skipQ[c] /\ scheduled'[c] = scheduled[c]
    BY <1>11 DEF TypeInv, TypeOK
  <2>5. \A f \in skipQ'[d] : HasRow(f[1], {"SKIPPED"})'
    BY <1>5, <1>6, <2>2, <2>4, EdgesKept DEF Out
  <2>6. LoopComplete(d)'
    <3>1. Settled(s)'
      BY <2>2 DEF Settled, HasRow
    <3>2. \A t \in Steps : In(t) \subseteq res => t \in scheduled'[d]
      BY <1>1, <1>4, <2>4 DEF LoopComplete
    <3>3. \A t \in scheduled'[d] : task'[d][t].pc # "none" \/ Settled(t)'
      BY <1>4, <1>8, <1>11, <2>2, <2>4, <3>1 DEF LoopComplete, Kept
    <3>4. \A t \in scheduled'[d] : task'[d][t].pc = "none" =>
            Out(t) \subseteq res \cup evalQ'[d] \cup skipQ'[d]
      BY <1>4, <1>7, <1>11, <2>4 DEF LoopComplete
    <3> QED BY <1>2, <3>2, <3>3, <3>4 DEF LoopComplete
  <2> QED BY <1>9, <1>11, <2>2, <2>3, <2>4, <2>5, <2>6
<1>12. CASE /\ In(s) \subseteq res
            /\ scheduled' = [scheduled EXCEPT ![d] = @ \cup {s}]
            /\ task' = [task EXCEPT ![d][s] = NewTask]
            /\ skipQ' = [skipQ EXCEPT ![d] = queue] /\ UNCHANGED rows
  <2>1. Stand /\ StayOpen /\ Due /\ Kept
    BY <1>12, SameRows, StandKept
  <2>2. NewTask.pc = "new"
    BY DEF NewTask, Task
  <2>3. Owned'
    BY <1>1, <1>12, <2>1, <2>2, TaskWithoutRow
  <2>4. /\ skipQ'[d] = queue /\ scheduled'[d] = scheduled[d] \cup {s}
        /\ \A c \in Drives \ {d} : skipQ'[c] = skipQ[c] /\ scheduled'[c] = scheduled[c]
    BY <1>12 DEF TypeInv, TypeOK
  <2>5. /\ task'[d][s] = NewTask /\ \A t \in Steps \ {s} : task'[d][t] = task[d][t]
        /\ \A c \in Drives \ {d} : task'[c] = task[c]
    BY <1>1, <1>12 DEF TypeInv, TypeOK
  <2>6. \A f \in skipQ'[d] : HasRow(f[1], {"SKIPPED"})'
    BY <1>5, <1>6, <2>1, <2>4, EdgesKept
  <2>7. LoopComplete(d)'
    <3>1. \A t \in Steps : In(t) \subseteq res => t \in scheduled'[d]
      BY <1>1, <1>4, <2>4 DEF LoopComplete
    <3>2. \A t \in scheduled'[d] : task'[d][t].pc # "none" \/ Settled(t)'
      BY <1>4, <1>8, <2>1, <2>2, <2>4, <2>5 DEF LoopComplete, Kept
    <3>3. \A t \in scheduled'[d] : task'[d][t].pc = "none" =>
            Out(t) \subseteq res \cup evalQ'[d] \cup skipQ'[d]
      <4> SUFFICES ASSUME NEW t \in scheduled'[d], task'[d][t].pc = "none"
                   PROVE  Out(t) \subseteq res \cup evalQ'[d] \cup skipQ'[d]
        OBVIOUS
      <4>1. t # s
        BY <2>2, <2>5
      <4>2. t \in scheduled[d] /\ task[d][t].pc = "none"
        BY <1>8, <2>4, <2>5, <4>1
      <4> QED BY <1>4, <1>7, <2>4, <4>2 DEF LoopComplete
    <3> QED BY <1>2, <3>1, <3>2, <3>3 DEF LoopComplete
  <2> QED BY <1>9, <1>12, <2>1, <2>2, <2>3, <2>4, <2>5, <2>6, <2>7
<1> QED BY <1>1, <1>10, <1>11, <1>12, ScheduleOrSkipCases DEF s, TypeInv

\* EvalEdge keeps the safety invariant.
LEMMA EvalEdgeSafe ==
  ASSUME TypeInv, SafetyInv, NEW d \in Drives, NEW e \in Edges, EvalEdge(d, e)
  PROVE  SafetyInv'
<1>1. /\ pc[d] = "process" /\ skipQ[d] = {} /\ e \in evalQ[d]
      /\ evalQ' = [evalQ EXCEPT ![d] = @ \ {e}] /\ UNCHANGED <<inst, cond>>
  BY DEF EvalEdge, At
<1>2. evalQ'[d] = evalQ[d] \ {e} /\ \A c \in Drives \ {d} : evalQ'[c] = evalQ[c]
  BY <1>1 DEF TypeInv, TypeOK
<1>3. HasRow(e[1], {"COMPLETED"}) /\ Settled(e[1])
  BY <1>1, SettledHas, EdgeEnds DEF SafetyInv, DriveInv
<1>4. CASE cond[e] = "error"
  <2>1. Abort(d, "FAILED") /\ UNCHANGED <<rows, scheduled, task, skipQ, resolved, active>>
    BY <1>4 DEF EvalEdge
  <2>2. /\ pc'[d] = "cancel" /\ verdict'[d] # "COMPLETED"
        /\ \A c \in Drives \ {d} : pc'[c] = pc[c] /\ verdict'[c] = verdict[c]
    BY <2>1 DEF Abort, Goto, TypeInv, TypeOK
  <2>3. Stand /\ StayOpen /\ Due /\ Kept
    BY <2>1, SameRows, StandKept
  <2>4. Owned'
    BY <2>1 DEF SafetyInv, Owned, Owns
  <2>5. DriveInv(d)'
    BY <1>1, <1>2, <2>1, <2>3, ConclusionsStand DEF SafetyInv
  <2>6. LoopInv(d)'
    BY <2>2 DEF LoopInv, InLoop
  <2>7. \A c \in Drives \ {d} : UNCHANGED Frame(c)
    BY <1>2, <2>1, <2>2 DEF Frame
  <2> QED BY <1>1, <2>3, <2>4, <2>5, <2>6, <2>7, OneDriveActs
<1>5. CASE cond[e] # "error"
  <2> DEFINE res == resolved[d] \cup {e}
             act == IF cond[e] = "true" THEN active[d] \cup {e} ELSE active[d]
  <2>1. /\ resolved' = [resolved EXCEPT ![d] = res] /\ active' = [active EXCEPT ![d] = act]
        /\ ScheduleOrSkip(d, e[2], res, act, {}) /\ UNCHANGED <<pc, verdict>>
    BY <1>5 DEF EvalEdge
  <2>2. cond[e] \in {"true", "false"}
    BY <1>5 DEF TypeInv, TypeOK, AllOutcomes
  <2>3. act = active[d] \cup {e} \/ (act = active[d] /\ Closed(e))
    BY <1>3, <2>2 DEF Closed
  <2>4. {} = skipQ[d] \ {e}
    BY <1>1
  <2> HIDE DEF act
  <2> QED BY <1>1, <1>2, <1>3, <2>1, <2>3, <2>4, EdgeResolved
<1> QED BY <1>4, <1>5

\* SkipEdge keeps the safety invariant.
LEMMA SkipEdgeSafe ==
  ASSUME TypeInv, SafetyInv, NEW d \in Drives, NEW e \in Edges, SkipEdge(d, e)
  PROVE  SafetyInv'
<1> DEFINE res == resolved[d] \cup {e}
<1>1. /\ pc[d] = "process" /\ e \in skipQ[d] /\ resolved' = [resolved EXCEPT ![d] = res]
      /\ ScheduleOrSkip(d, e[2], res, active[d], skipQ[d] \ {e})
      /\ UNCHANGED <<inst, cond, pc, verdict, evalQ, active>>
  BY DEF SkipEdge, At
<1>2. Closed(e) /\ Settled(e[1])
  BY <1>1, ClosedSettled DEF SafetyInv, DriveInv, Closed
<1>3. active' = [active EXCEPT ![d] = active[d]]
  BY <1>1 DEF TypeInv, TypeOK
<1> QED BY <1>1, <1>2, <1>3, EdgeResolved

-----------------------------------------------------------------------------
\* The safety invariant holds at first.
LEMMA SafetyInit == Init => SafetyInv
<1> SUFFICES ASSUME Init PROVE SafetyInv
  OBVIOUS
<1>1. \A s \in Steps : rows[s] = << >> /\ DOMAIN rows[s] = {}
  BY DEF Init
<1>2. \A d \in Drives : /\ pc[d] \in {"start", "idle"} /\ \A s \in Steps : task[d][s].pc = "none"
                        /\ resolved[d] = {} /\ evalQ[d] = {} /\ skipQ[d] = {}
  BY DEF Init, NoTask, Task
<1>3. inst # "COMPLETED"
  BY DEF Init
<1>4. \A d \in Drives : DriveInv(d) /\ LoopInv(d)
  BY <1>2 DEF DriveInv, LoopInv, InLoop
<1>5. Owned
  BY <1>2 DEF Owned, Owns
<1>6. DependenciesSettled /\ SkipsAreSound
  BY <1>1 DEF DependenciesSettled, SkipsAreSound, HasRow
<1> QED BY <1>3, <1>4, <1>5, <1>6 DEF SafetyInv, CompletedMeansSettled

\* Every step keeps the safety invariant.
LEMMA SafetyStep ==
  ASSUME TypeInv, TypeInv', SafetyInv, [Next]_vars
  PROVE  SafetyInv'
<1>1. CASE UNCHANGED vars
  BY <1>1 DEF vars, store, loopVars, edgeVars, bounds, SafetyInv, Owned, Owns, DriveInv, LoopInv,
     LoopComplete, AllSettled, Closed, Settled, HasRow, DependenciesSettled, SkipsAreSound,
     CompletedMeansSettled
<1>2. ASSUME NEW d \in Drives, DriveStep(d) PROVE SafetyInv'
  BY <1>2, StartSafe, ResumeWriteSafe, ResumeEnterSafe, PollSafe, CollectSafe, NextTurnSafe,
     CancelPendingSafe, MarkSafe, ExamineSafe, EvalEdgeSafe, SkipEdgeSafe DEF DriveStep
<1>3. ASSUME NEW d \in Drives, Interruption(d) PROVE SafetyInv'
  BY <1>3, InterruptSafe, InterruptOutsideSafe, InterruptCancelSafe DEF Interruption
<1>4. ASSUME NEW d \in Drives, ResumeLoad(d) \/ ResumeAborts(d) \/ Timeout(d) PROVE SafetyInv'
  BY <1>4, ResumeLoadSafe, ResumeAbortsSafe, TimeoutSafe
<1>5. ASSUME NEW d \in Drives, NEW s \in Steps, TaskStep(d, s) \/ TaskStoreFails(d, s)
      PROVE  SafetyInv'
  BY <1>5, TaskBeginSafe, TaskCreateSafe, TaskRanSafe, TaskSaveSafe, TaskFailedSafe,
     TaskStoreFailsSafe DEF TaskStep
<1>6. ASSUME NEW c \in Clients, ApiWrite(c) \/ \E op \in Ops : ApiRead(c, op) PROVE SafetyInv'
  BY <1>6, ApiSafe
<1>7. CASE Stop \/ Exit \/ Crash \/ Boot
  BY <1>7, ProcessSafe
<1> QED BY <1>1, <1>2, <1>3, <1>4, <1>5, <1>6, <1>7 DEF Next

-----------------------------------------------------------------------------
\* Final rows stand: a row is appended, is ended by the task that owns it, or
\* is RUNNING when it is cancelled.
LEMMA RowsStand ==
  ASSUME TypeInv, TypeInv', Owned, [Next]_vars
  PROVE  Stand
<1>1. CASE UNCHANGED rows
  BY <1>1, SameRows
<1>2. ASSUME NEW d \in Drives, NEW e \in Edges, EvalEdge(d, e) \/ SkipEdge(d, e)
      PROVE  Stand
  <2>1. e[2] \in Steps
    BY EdgeEnds
  <2>2. CASE rows' = [rows EXCEPT ![e[2]] = Append(@, Attempt(1, "SKIPPED"))]
    <3>1. 1 \in Nat \ {0} /\ "SKIPPED" \in RowStates
      OBVIOUS
    <3> HIDE DEF RowStates
    <3> QED BY <2>1, <2>2, <3>1, RowAppendedStands
  <2>3. UNCHANGED rows \/ \E res, act, queue : ScheduleOrSkip(d, e[2], res, act, queue)
    BY <1>2 DEF EvalEdge, SkipEdge
  <2> QED BY <1>1, <2>1, <2>2, <2>3 DEF ScheduleOrSkip
<1>3. ASSUME NEW d \in Drives, CancelPending(d) PROVE Stand
  BY <1>3, AttemptsCancelled DEF CancelPending
<1>4. ASSUME Boot PROVE Stand
  BY <1>1, <1>4, AttemptsCancelled DEF Boot
<1>5. ASSUME NEW d \in Drives, NEW s \in Steps, TaskCreate(d, s) PROVE Stand
  <2>1. task[d][s].attempt \in Nat \ {0}
    BY <1>5 DEF TaskCreate, TaskAt, TypeInv, TypeOK, TaskType, Numbered, NumberedTask
  <2> QED BY <1>5, <2>1, RowAppendedStands DEF TaskCreate
<1>6. ASSUME NEW d \in Drives, NEW s \in Steps, TaskSave(d, s) \/ TaskFailed(d, s) PROVE Stand
  <2>1. Owns(d, s)
    BY <1>6 DEF TaskSave, TaskFailed, TaskAt, Owns
  <2> QED BY <1>6, <2>1, AttemptEnded DEF TaskSave, TaskFailed
<1>7. ASSUME NEW d \in Drives, DriveStep(d) PROVE Stand
  <2>1. CASE Start(d) \/ ResumeWrite(d) \/ ResumeEnter(d) \/ Poll(d) \/ Collect(d)
    BY <1>1, <2>1 DEF Start, ResumeWrite, ResumeEnter, Poll, Collect, store
  <2>2. CASE NextTurn(d) \/ Mark(d) \/ \E s \in Steps : Examine(d, s)
    BY <1>1, <2>2 DEF NextTurn, Mark, Examine, store
  <2> QED BY <1>2, <1>3, <1>7, <2>1, <2>2 DEF DriveStep
<1>8. ASSUME NEW d \in Drives,
             Interruption(d) \/ ResumeLoad(d) \/ ResumeAborts(d) \/ Timeout(d)
      PROVE  Stand
  BY <1>1, <1>8 DEF Interruption, Interrupt, InterruptOutside, InterruptCancel, ResumeLoad,
     ResumeAborts, Timeout, store
<1>9. ASSUME NEW d \in Drives, NEW s \in Steps, TaskStep(d, s) \/ TaskStoreFails(d, s)
      PROVE  Stand
  <2>1. CASE TaskBegin(d, s) \/ TaskRan(d, s) \/ TaskStoreFails(d, s)
    BY <1>1, <2>1 DEF TaskBegin, TaskRan, TaskStoreFails, store
  <2> QED BY <1>5, <1>6, <1>9, <2>1 DEF TaskStep
<1>10. ASSUME NEW c \in Clients, ApiWrite(c) \/ \E op \in Ops : ApiRead(c, op) PROVE Stand
  BY <1>1, <1>10 DEF ApiWrite, ApiRead, store
<1>11. CASE Stop \/ Exit \/ Crash
  BY <1>1, <1>11 DEF Stop, Exit, Crash, store
<1> QED BY <1>1, <1>4, <1>7, <1>8, <1>9, <1>10, <1>11 DEF Next, vars, store

\* DependenciesSettled holds of every execution: no step is attempted before
\* the steps it depends on have completed or been skipped.
THEOREM DependenciesCorrect == Spec => []DependenciesSettled
<1>1. SafetyInv => DependenciesSettled
  BY DEF SafetyInv
<1>2. TypeInv /\ SafetyInv /\ [Next]_vars => TypeInv' /\ SafetyInv'
  BY TypeStep, SafetyStep
<1> QED BY <1>1, <1>2, TypeInit, SafetyInit, PTL DEF Spec

\* SkipsAreSound holds of every execution: a skipped step had every way into
\* it closed, by a skip or by a false condition of a completed step.
THEOREM SkipsCorrect == Spec => []SkipsAreSound
<1>1. SafetyInv => SkipsAreSound
  BY DEF SafetyInv
<1>2. TypeInv /\ SafetyInv /\ [Next]_vars => TypeInv' /\ SafetyInv'
  BY TypeStep, SafetyStep
<1> QED BY <1>1, <1>2, TypeInit, SafetyInit, PTL DEF Spec

\* CompletedMeansSettled holds of every execution: an instance that says
\* COMPLETED has no step left out.
THEOREM CompletionCorrect == Spec => []CompletedMeansSettled
<1>1. SafetyInv => CompletedMeansSettled
  BY DEF SafetyInv
<1>2. TypeInv /\ SafetyInv /\ [Next]_vars => TypeInv' /\ SafetyInv'
  BY TypeStep, SafetyStep
<1> QED BY <1>1, <1>2, TypeInit, SafetyInit, PTL DEF Spec

\* FinishedRowsStand holds of every execution: what a row says of an attempt
\* that ended is never rewritten, however many drives the instance has.
THEOREM FinishedRowsCorrect == Spec => FinishedRowsStand
<1> DEFINE Step == \A s \in Steps : \A i \in DOMAIN rows[s] :
                     rows[s][i].state \in {"COMPLETED", "FAILED", "SKIPPED"} =>
                       i \in DOMAIN rows'[s] /\ rows'[s][i].state = rows[s][i].state
<1>1. TypeInv /\ SafetyInv /\ [Next]_vars => TypeInv' /\ SafetyInv'
  BY TypeStep, SafetyStep
<1>2. TypeInv /\ SafetyInv /\ [Next]_vars => [Step]_rows
  BY TypeStep, RowsStand DEF SafetyInv, Stand, Final
<1> HIDE DEF Step
<1>3. Spec => [][Step]_rows
  BY <1>1, <1>2, TypeInit, SafetyInit, PTL DEF Spec
<1> QED BY <1>3 DEF Step, FinishedRowsStand

-----------------------------------------------------------------------------
(* Nothing is stranded.                                                    *)

\* A task belongs to a loop that scheduled its step and has not been left.
TasksInLoop ==
  \A d \in Drives, s \in Steps : task[d][s].pc # "none" =>
    pc[d] \in InLoop \cup {"cancel"} /\ s \in scheduled[d]

\* A drive's last word is never RUNNING, and none outlives the process.
DrivesSettle ==
  /\ \A d \in Drives : verdict[d] # "RUNNING"
  /\ proc = "down" => \A d \in Drives : pc[d] = "idle"

\* A process that serves has a drive for an instance in RUNNING.
SomebodyDrives ==
  "rehydrate" \notin Faults /\ proc = "up" /\ inst = "RUNNING" =>
    \E d \in Drives : pc[d] \notin {"idle", "loaded"}

\* An attempt in RUNNING is one that some task will end.
SomebodyRuns ==
  "store" \notin Faults /\ "cut" \notin Faults /\ crashes = 0 =>
    \A s \in Steps : \A i \in DOMAIN rows[s] :
      rows[s][i].state = "RUNNING" => \E d \in Drives : Owns(d, s) /\ task[d][s].row = i

QuietInv == TasksInLoop /\ DrivesSettle /\ SomebodyDrives /\ SomebodyRuns

\* What a step may do to drive d: nothing; move it; end its frame; let it
\* enter its loop; change one of its tasks; schedule one more step.
Stays(d)  == UNCHANGED <<pc[d], task[d], scheduled[d]>>
Walks(d)  ==
  /\ UNCHANGED <<task[d], scheduled[d]>>
  /\ \/ pc[d] \in InLoop /\ pc'[d] \in InLoop \cup {"cancel"}
     \/ pc[d] \in {"idle", "loaded"} /\ pc'[d] \in {"loaded", "listing"}
Leaves(d) == \A s \in Steps : task'[d][s].pc = "none"
Enters(d) ==
  \/ pc'[d] = "poll" /\ \A s \in Steps : task'[d][s].pc # "none" => s \in scheduled'[d]
  \/ pc'[d] = "mark" /\ \A s \in Steps : task'[d][s].pc = "none"
Works(d)  ==
  /\ scheduled'[d] = scheduled[d]
  /\ \/ pc'[d] = pc[d]
     \/ pc[d] \in InLoop /\ pc'[d] = "cancel"
  /\ \A s \in Steps : task'[d][s].pc # "none" => task[d][s].pc # "none"
Schedules(d) ==
  /\ pc[d] \in InLoop /\ pc'[d] = pc[d]
  /\ \E s \in Steps :
       /\ scheduled'[d] = scheduled[d] \cup {s}
       /\ \A t \in Steps \ {s} : task'[d][t] = task[d][t]

DriveMoves(d) == Stays(d) \/ Walks(d) \/ Leaves(d) \/ Enters(d) \/ Works(d) \/ Schedules(d)

\* Entering the loop: every task belongs to a scheduled step.
LEMMA EnterLoopMoves ==
  ASSUME TypeInv, NEW d \in Drives, NEW done \in SUBSET Steps, EnterLoop(d, done)
  PROVE  Enters(d) /\ \A c \in Drives \ {d} : Stays(c)
<1> DEFINE ready == {s \in Steps \ done : In(s) \subseteq DoneEdges(done)}
<1>1. /\ task' = [task EXCEPT ![d] = [s \in Steps |-> IF s \in ready THEN NewTask ELSE NoTask]]
      /\ scheduled' = [scheduled EXCEPT ![d] = done \cup ready]
      /\ pc' = [pc EXCEPT ![d] = IF ready = {} THEN "mark" ELSE "poll"]
  BY DEF EnterLoop, Goto
<1> HIDE DEF ready
<1>2. NoTask.pc = "none"
  BY DEF NoTask, Task
<1>. QED
  BY <1>1, <1>2 DEF Enters, Stays, TypeInv, TypeOK

\* Leaving it: no task is left, whichever place comes next.
LEMMA LeaveLoopMoves ==
  ASSUME TypeInv, NEW d \in Drives, LeaveLoop(d), NEW p, pc' = [pc EXCEPT ![d] = p]
  PROVE  Leaves(d) /\ \A c \in Drives \ {d} : Stays(c)
BY DEF LeaveLoop, Leaves, Stays, NoTask, Task, TypeInv, TypeOK

\* Giving up keeps the tasks for the cancellation.
LEMMA AbortMoves ==
  ASSUME TypeInv, NEW d \in Drives, pc[d] \in InLoop, NEW st, Abort(d, st), UNCHANGED <<task, scheduled>>
  PROVE  Walks(d) /\ \A c \in Drives \ {d} : Stays(c)
BY DEF Abort, Goto, Walks, Stays, TypeInv, TypeOK

\* A task that moves stays with its drive.
LEMMA TaskMovesOnly ==
  ASSUME TypeInv, NEW d \in Drives, NEW s \in Steps, NEW k, SetTask(d, s, k),
         task[d][s].pc # "none", UNCHANGED <<pc, scheduled>>
  PROVE  Works(d) /\ \A c \in Drives \ {d} : Stays(c)
<1>1. /\ \A t \in Steps \ {s} : task'[d][t] = task[d][t]
      /\ \A c \in Drives \ {d} : task'[c] = task[c]
  BY DEF SetTask, TypeInv, TypeOK
<1>. QED
  BY <1>1 DEF Works, Stays

\* An edge resolved schedules at most its target.
LEMMA EdgeMoves ==
  ASSUME TypeInv, NEW d \in Drives, pc[d] \in InLoop, NEW s \in Steps, NEW res, NEW act, NEW queue,
         ScheduleOrSkip(d, s, res, act, queue), UNCHANGED pc
  PROVE  (Stays(d) \/ Schedules(d)) /\ \A c \in Drives \ {d} : Stays(c)
<1>1. CASE UNCHANGED <<scheduled, task>>
  BY <1>1 DEF Stays
<1>2. CASE /\ scheduled' = [scheduled EXCEPT ![d] = @ \cup {s}]
           /\ UNCHANGED task \/ task' = [task EXCEPT ![d][s] = NewTask]
  <2>1. /\ scheduled'[d] = scheduled[d] \cup {s}
        /\ \A c \in Drives \ {d} : scheduled'[c] = scheduled[c]
    BY <1>2 DEF TypeInv, TypeOK
  <2>2. /\ \A t \in Steps \ {s} : task'[d][t] = task[d][t]
        /\ \A c \in Drives \ {d} : task'[c] = task[c]
    BY <1>2 DEF TypeInv, TypeOK
  <2>. QED
    BY <2>1, <2>2 DEF Stays, Schedules
<1>. QED
  BY <1>1, <1>2, ScheduleOrSkipCases DEF TypeInv

\* The steps of the drive's own coroutine.
LEMMA DriveStepMoves ==
  ASSUME TypeInv, NEW d \in Drives, DriveStep(d)
  PROVE  DriveMoves(d) /\ \A c \in Drives \ {d} : Stays(c)
<1>1. CASE Start(d) \/ ResumeEnter(d)
  BY <1>1, EnterLoopMoves DEF Start, ResumeEnter, AlreadyDone, DriveMoves
<1>2. CASE ResumeWrite(d) \/ Collect(d)
  BY <1>2 DEF ResumeWrite, Collect, At, Goto, loopVars, edgeVars, DriveMoves, Walks, Stays, InLoop,
              TypeInv, TypeOK
<1>3. CASE Poll(d)
  <2>1. CASE Abort(d, inst)
    BY <1>3, <2>1, AbortMoves DEF Poll, At, InLoop, edgeVars, DriveMoves
  <2>2. CASE Goto(d, "wait")
    BY <1>3, <2>2 DEF Poll, At, Goto, edgeVars, DriveMoves, Walks, Stays, InLoop, TypeInv, TypeOK
  <2>. QED
    BY <1>3, <2>1, <2>2 DEF Poll
<1>4. CASE NextTurn(d)
  <2>1. CASE Goto(d, "poll") /\ UNCHANGED <<task, edgeVars>>
    BY <1>4, <2>1 DEF NextTurn, At, Goto, edgeVars, DriveMoves, Walks, Stays, InLoop, TypeInv, TypeOK
  <2>2. CASE Goto(d, "mark") /\ LeaveLoop(d)
    BY <1>4, <2>2, LeaveLoopMoves DEF Goto, DriveMoves
  <2>. QED
    BY <1>4, <2>1, <2>2 DEF NextTurn
<1>5. CASE CancelPending(d)
  BY <1>5, LeaveLoopMoves DEF CancelPending, Goto, DriveMoves
<1>6. CASE Mark(d)
  BY <1>6, LeaveLoopMoves DEF Mark, Return, Goto, DriveMoves
<1>7. ASSUME NEW s \in Steps, Examine(d, s)
      PROVE  DriveMoves(d) /\ \A c \in Drives \ {d} : Stays(c)
  <2>1. pc[d] \in InLoop /\ SetTask(d, s, NoTask) /\ NoTask.pc = "none" /\ UNCHANGED scheduled
    BY <1>7 DEF Examine, At, InLoop, NoTask, Task
  <2>2. /\ \A t \in Steps : task'[d][t].pc # "none" => task[d][t].pc # "none"
        /\ \A c \in Drives \ {d} : task'[c] = task[c]
    BY <2>1 DEF SetTask, TypeInv, TypeOK
  <2>3. pc' = pc \/ pc' = [pc EXCEPT ![d] = "cancel"]
    BY <1>7 DEF Examine, Abort, Goto
  <2>4. pc'[d] = pc[d] \/ pc'[d] = "cancel"
    BY <2>3 DEF TypeInv, TypeOK
  <2>5. \A c \in Drives \ {d} : pc'[c] = pc[c]
    BY <2>3 DEF TypeInv, TypeOK
  <2>. QED
    BY <2>1, <2>2, <2>4, <2>5 DEF DriveMoves, Works, Stays
<1>8. ASSUME NEW e \in Edges, EvalEdge(d, e)
      PROVE  DriveMoves(d) /\ \A c \in Drives \ {d} : Stays(c)
  <2>1. pc[d] \in InLoop /\ e[2] \in Steps
    BY <1>8, EdgeEnds DEF EvalEdge, At, InLoop
  <2>2. \/ Abort(d, "FAILED") /\ UNCHANGED <<task, scheduled>>
        \/ UNCHANGED pc /\ \E res, act : ScheduleOrSkip(d, e[2], res, act, {})
    BY <1>8 DEF EvalEdge
  <2>. QED
    BY <2>1, <2>2, AbortMoves, EdgeMoves DEF DriveMoves
<1>9. ASSUME NEW e \in Edges, SkipEdge(d, e)
      PROVE  DriveMoves(d) /\ \A c \in Drives \ {d} : Stays(c)
  <2>1. pc[d] \in InLoop /\ e[2] \in Steps
    BY <1>9, EdgeEnds DEF SkipEdge, At, InLoop
  <2>2. UNCHANGED pc /\ \E res, act, queue : ScheduleOrSkip(d, e[2], res, act, queue)
    BY <1>9 DEF SkipEdge
  <2>. QED
    BY <2>1, <2>2, EdgeMoves DEF DriveMoves
<1>. QED
  BY <1>1, <1>2, <1>3, <1>4, <1>5, <1>6, <1>7, <1>8, <1>9 DEF DriveStep

\* What is done to a drive, and by its tasks.
LEMMA OtherStepMoves ==
  ASSUME TypeInv, NEW d \in Drives,
         \/ Interruption(d) \/ ResumeLoad(d) \/ ResumeAborts(d) \/ Timeout(d)
         \/ \E s \in Steps : TaskStep(d, s) \/ TaskStoreFails(d, s)
  PROVE  DriveMoves(d) /\ \A c \in Drives \ {d} : Stays(c)
<1>1. CASE Interrupt(d) \/ Timeout(d)
  BY <1>1, AbortMoves DEF Interrupt, Timeout, edgeVars, DriveMoves
<1>2. CASE InterruptOutside(d) \/ ResumeAborts(d)
  BY <1>2, LeaveLoopMoves DEF InterruptOutside, ResumeAborts, Return, Goto, DriveMoves
<1>3. CASE InterruptCancel(d)
  BY <1>3, LeaveLoopMoves DEF InterruptCancel, Goto, DriveMoves
<1>4. CASE ResumeLoad(d)
  BY <1>4 DEF ResumeLoad, At, Goto, edgeVars, DriveMoves, Walks, Stays, TypeInv, TypeOK
<1>5. ASSUME NEW s \in Steps, TaskStep(d, s) \/ TaskStoreFails(d, s)
      PROVE  DriveMoves(d) /\ \A c \in Drives \ {d} : Stays(c)
  <2>1. \E k : SetTask(d, s, k)
    BY <1>5 DEF TaskStep, TaskBegin, TaskCreate, TaskRan, TaskSave, TaskFailed, TaskStoreFails
  <2>2. task[d][s].pc # "none" /\ UNCHANGED <<pc, scheduled>>
    BY <1>5 DEF TaskStep, TaskBegin, TaskCreate, TaskRan, TaskSave, TaskFailed, TaskStoreFails, TaskAt,
                edgeVars
  <2>. QED
    BY <2>1, <2>2, TaskMovesOnly DEF DriveMoves
<1>. QED
  BY <1>1, <1>2, <1>3, <1>4, <1>5 DEF Interruption

\* Whoever acts, every drive makes one of these moves.
LEMMA EveryDriveMoves ==
  ASSUME TypeInv, [Next]_vars, NEW d \in Drives
  PROVE  DriveMoves(d)
<1>1. CASE UNCHANGED vars
  BY <1>1 DEF vars, loopVars, edgeVars, DriveMoves, Stays
<1>2. ASSUME NEW c \in Clients, ApiWrite(c) \/ \E op \in Ops : ApiRead(c, op)
      PROVE  DriveMoves(d)
  BY <1>2 DEF ApiWrite, ApiRead, loopVars, edgeVars, DriveMoves, Stays
<1>3. CASE Stop \/ Boot
  BY <1>3 DEF Stop, Boot, loopVars, edgeVars, DriveMoves, Stays
<1>4. CASE Exit \/ Crash
  BY <1>4 DEF Exit, Crash, Forget, DriveMoves, Leaves, NoTask, Task
<1>. QED
  BY <1>1, <1>2, <1>3, <1>4, DriveStepMoves, OtherStepMoves, Zenon DEF Next, DriveMoves

\* Tasks stay in the loop they were scheduled in.
LEMMA TasksStep ==
  ASSUME TypeInv, TasksInLoop, [Next]_vars
  PROVE  TasksInLoop'
<1>. SUFFICES ASSUME NEW d \in Drives, NEW s \in Steps, task'[d][s].pc # "none"
              PROVE  pc'[d] \in InLoop \cup {"cancel"} /\ s \in scheduled'[d]
  BY DEF TasksInLoop
<1>1. DriveMoves(d)
  BY EveryDriveMoves
<1>. QED
  BY <1>1 DEF DriveMoves, Stays, Walks, Leaves, Enters, Works, Schedules, TasksInLoop, InLoop

\* A drive that is past reading the instance row.
Driving(d) == pc[d] \notin {"idle", "loaded"}

\* What a step of drive d does to its place and its last word: it starts from
\* idle only in a process that serves, it ends by taking the row out of
\* RUNNING, by a shutdown or by a rehydration that raises, and it is driving
\* when the row comes back to RUNNING.
Drives1(d) ==
  /\ verdict'[d] # "RUNNING" /\ UNCHANGED proc
  /\ pc[d] = "idle" => proc = "up" \/ pc'[d] = "idle"
  /\ Driving(d) => \/ Driving(d)'
                   \/ inst' # "RUNNING" \/ "rehydrate" \in Faults \/ proc # "up"
  /\ inst' = "RUNNING" => inst = "RUNNING" \/ Driving(d)'

Others(d) == \A c \in Drives \ {d} : UNCHANGED <<pc[c], verdict[c]>>

\* EnterLoop leaves the drive driving.
LEMMA EnterLoopDrives ==
  ASSUME TypeInv, NEW d \in Drives, NEW done, EnterLoop(d, done), pc[d] # "idle",
         UNCHANGED <<inst, proc>>
  PROVE  Drives1(d) /\ Others(d)
<1>1. verdict'[d] = "COMPLETED" /\ pc'[d] \in {"mark", "poll"}
  BY DEF EnterLoop, Goto, TypeInv, TypeOK
<1>2. Others(d)
  BY DEF EnterLoop, Goto, Others, TypeInv, TypeOK
<1>. QED
  BY <1>1, <1>2 DEF Drives1, Driving

\* Return leaves the drive idle.
LEMMA ReturnDrives ==
  ASSUME TypeInv, NEW d \in Drives, Return(d)
  PROVE  verdict'[d] = "COMPLETED" /\ pc'[d] = "idle" /\ Others(d)
BY DEF Return, Goto, Others, TypeInv, TypeOK

\* Abort leaves the drive driving.
LEMMA AbortDrives ==
  ASSUME TypeInv, NEW d \in Drives, pc[d] # "idle", NEW st, st # "RUNNING", Abort(d, st),
         UNCHANGED <<inst, proc>>
  PROVE  Drives1(d) /\ Others(d)
<1>1. verdict'[d] = st /\ pc'[d] = "cancel"
  BY DEF Abort, Goto, TypeInv, TypeOK
<1>2. Others(d)
  BY DEF Abort, Goto, Others, TypeInv, TypeOK
<1>. QED
  BY <1>1, <1>2 DEF Drives1, Driving

\* A move that says nothing leaves the drive driving.
LEMMA GotoDrives ==
  ASSUME TypeInv, NEW d \in Drives, verdict[d] # "RUNNING", pc[d] # "idle",
         NEW p, p \notin {"idle", "loaded"}, Goto(d, p), UNCHANGED <<verdict, proc>>
  PROVE  Drives1(d) /\ Others(d)
<1>1. pc'[d] = p
  BY DEF Goto, TypeInv, TypeOK
<1>2. Others(d)
  BY DEF Goto, Others, TypeInv, TypeOK
<1>. QED
  BY <1>1, <1>2 DEF Drives1, Driving

\* A step that moves nobody.
LEMMA NobodyDrives ==
  ASSUME NEW d \in Drives, verdict[d] # "RUNNING", UNCHANGED <<pc, verdict, inst, proc>>
  PROVE  Drives1(d) /\ Others(d)
BY DEF Drives1, Driving, Others

\* The steps of the drive's own coroutine.
LEMMA DriveStepDrives ==
  ASSUME TypeInv, DrivesSettle, NEW d \in Drives, DriveStep(d)
  PROVE  Drives1(d) /\ Others(d)
<1>0. verdict[d] # "RUNNING"
  BY DEF DrivesSettle
<1>1. CASE Start(d) \/ ResumeEnter(d)
  BY <1>1, EnterLoopDrives DEF Start, ResumeEnter, At, store
<1>2. CASE ResumeWrite(d)
  BY <1>0, <1>2, GotoDrives DEF ResumeWrite, At, loopVars
<1>3. CASE Collect(d)
  BY <1>0, <1>3, GotoDrives DEF Collect, At
<1>4. CASE Poll(d)
  <2>1. pc[d] # "idle" /\ UNCHANGED <<inst, proc>>
    BY <1>4 DEF Poll, At, store
  <2>2. CASE inst \in {"PAUSED", "KILLED"} /\ Abort(d, inst)
    BY <2>1, <2>2, AbortDrives
  <2>3. CASE Goto(d, "wait") /\ UNCHANGED verdict
    BY <1>0, <2>1, <2>3, GotoDrives
  <2>. QED
    BY <1>4, <2>2, <2>3 DEF Poll
<1>5. CASE NextTurn(d)
  <2>1. pc[d] # "idle" /\ UNCHANGED <<verdict, proc>>
    BY <1>5 DEF NextTurn, At
  <2>2. Goto(d, "poll") \/ Goto(d, "mark")
    BY <1>5 DEF NextTurn
  <2>. QED
    BY <1>0, <2>1, <2>2, GotoDrives
<1>6. CASE CancelPending(d)
  BY <1>0, <1>6, GotoDrives DEF CancelPending, At
<1>7. CASE Mark(d)
  <2>1. inst' = verdict[d] /\ UNCHANGED proc /\ pc[d] = "mark"
    BY <1>7 DEF Mark, At
  <2>2. verdict'[d] = "COMPLETED" /\ pc'[d] = "idle" /\ Others(d)
    BY <1>7, ReturnDrives DEF Mark
  <2>. QED
    BY <1>0, <2>1, <2>2 DEF Drives1, Driving
<1>8. ASSUME NEW s \in Steps, Examine(d, s)
      PROVE  Drives1(d) /\ Others(d)
  <2>1. pc[d] # "idle" /\ UNCHANGED <<inst, proc>>
    BY <1>8 DEF Examine, At, store
  <2>2. Abort(d, "FAILED") \/ Abort(d, "PAUSED") \/ UNCHANGED <<pc, verdict>>
    BY <1>8 DEF Examine
  <2>. QED
    BY <1>0, <2>1, <2>2, AbortDrives, NobodyDrives
<1>9. ASSUME NEW e \in Edges, EvalEdge(d, e) \/ SkipEdge(d, e)
      PROVE  Drives1(d) /\ Others(d)
  <2>1. pc[d] # "idle" /\ UNCHANGED <<inst, proc>>
    BY <1>9 DEF EvalEdge, SkipEdge, At
  <2>2. Abort(d, "FAILED") \/ UNCHANGED <<pc, verdict>>
    BY <1>9 DEF EvalEdge, SkipEdge
  <2>. QED
    BY <1>0, <2>1, <2>2, AbortDrives, NobodyDrives
<1>. QED
  BY <1>1, <1>2, <1>3, <1>4, <1>5, <1>6, <1>7, <1>8, <1>9 DEF DriveStep

\* What is done to a drive, and by its tasks.
LEMMA OtherStepDrives ==
  ASSUME TypeInv, DrivesSettle, NEW d \in Drives,
         \/ Interruption(d) \/ ResumeLoad(d) \/ ResumeAborts(d) \/ Timeout(d)
         \/ \E s \in Steps : TaskStep(d, s) \/ TaskStoreFails(d, s)
  PROVE  Drives1(d) /\ Others(d)
<1>0. verdict[d] # "RUNNING"
  BY DEF DrivesSettle
<1>1. CASE Interrupt(d) \/ Timeout(d)
  <2>1. pc[d] # "idle" /\ UNCHANGED <<inst, proc>>
    BY <1>1 DEF Interrupt, Timeout, InLoop, store
  <2>2. Abort(d, "FAILED") \/ Abort(d, "PAUSED")
    BY <1>1 DEF Interrupt, Timeout
  <2>. QED
    BY <2>1, <2>2, AbortDrives
<1>2. CASE InterruptOutside(d) \/ ResumeAborts(d)
  <2>1. Return(d) /\ UNCHANGED <<inst, proc>> /\ pc[d] # "idle"
    BY <1>2 DEF InterruptOutside, ResumeAborts, At, store
  <2>2. proc # "up" \/ "rehydrate" \in Faults
    BY <1>2 DEF InterruptOutside, ResumeAborts
  <2>. QED
    BY <2>1, <2>2, ReturnDrives DEF Drives1
<1>3. CASE InterruptCancel(d)
  <2>1. pc[d] # "idle" /\ UNCHANGED <<inst, proc>>
    BY <1>3 DEF InterruptCancel, At, store
  <2>2. pc' = [pc EXCEPT ![d] = "mark"] /\ verdict' = [verdict EXCEPT ![d] = "PAUSED"]
    BY <1>3 DEF InterruptCancel, Goto
  <2>3. pc'[d] = "mark" /\ verdict'[d] = "PAUSED"
    BY <2>2 DEF TypeInv, TypeOK
  <2>4. Others(d)
    BY <2>2 DEF Others, TypeInv, TypeOK
  <2>. QED
    BY <2>1, <2>3, <2>4 DEF Drives1, Driving
<1>4. CASE ResumeLoad(d)
  <2>1. pc[d] = "idle" /\ proc = "up" /\ UNCHANGED <<inst, proc, verdict>>
    BY <1>4 DEF ResumeLoad, At, store
  <2>2. pc' = [pc EXCEPT ![d] = "loaded"]
    BY <1>4 DEF ResumeLoad, Goto
  <2>3. Others(d)
    BY <2>1, <2>2 DEF Others, TypeInv, TypeOK
  <2>4. inst' # "RUNNING"
    BY <1>4 DEF ResumeLoad, store
  <2>. QED
    BY <1>0, <2>1, <2>3, <2>4 DEF Drives1, Driving
<1>5. ASSUME NEW s \in Steps, TaskStep(d, s) \/ TaskStoreFails(d, s)
      PROVE  Drives1(d) /\ Others(d)
  <2>1. UNCHANGED <<pc, verdict, inst, proc>>
    BY <1>5 DEF TaskStep, TaskBegin, TaskCreate, TaskRan, TaskSave, TaskFailed, TaskStoreFails, store
  <2>. QED
    BY <1>0, <2>1, NobodyDrives
<1>. QED
  BY <1>1, <1>2, <1>3, <1>4, <1>5 DEF Interruption

\* A drive's step keeps both: nobody else moved.
LEMMA OneDriveSettles ==
  ASSUME TypeInv, DrivesSettle, SomebodyDrives, NEW d \in Drives, Drives1(d), Others(d)
  PROVE  DrivesSettle' /\ SomebodyDrives'
<1>1. \A c \in Drives : verdict'[c] # "RUNNING"
  BY DEF DrivesSettle, Drives1, Others
<1>2. proc' = "down" => \A c \in Drives : pc'[c] = "idle"
  BY DEF DrivesSettle, Drives1, Others
<1>3. SomebodyDrives'
  BY DEF SomebodyDrives, Drives1, Driving, Others
<1>. QED
  BY <1>1, <1>2, <1>3 DEF DrivesSettle

\* Every step keeps both.
LEMMA SettlesStep ==
  ASSUME TypeInv, DrivesSettle, SomebodyDrives, [Next]_vars
  PROVE  DrivesSettle' /\ SomebodyDrives'
<1>1. CASE UNCHANGED vars
  BY <1>1 DEF vars, store, loopVars, DrivesSettle, SomebodyDrives
<1>2. ASSUME NEW c \in Clients, ApiWrite(c) \/ \E op \in Ops : ApiRead(c, op)
      PROVE  DrivesSettle' /\ SomebodyDrives'
  <2>1. UNCHANGED <<pc, verdict, proc>>
    BY <1>2 DEF ApiWrite, ApiRead, loopVars
  <2>2. inst' = inst \/ inst' # "RUNNING"
    BY <1>2 DEF ApiWrite, ApiRead, store, Target
  <2>. QED
    BY <2>1, <2>2 DEF DrivesSettle, SomebodyDrives
<1>3. CASE Stop
  <2>1. UNCHANGED <<pc, verdict>> /\ proc' = "stopping"
    BY <1>3 DEF Stop, loopVars
  <2>. QED
    BY <2>1 DEF DrivesSettle, SomebodyDrives
<1>4. CASE Boot
  <2>1. UNCHANGED <<pc, verdict>> /\ proc' = "up" /\ inst' # "RUNNING"
    BY <1>4 DEF Boot, loopVars
  <2>. QED
    BY <2>1 DEF DrivesSettle, SomebodyDrives
<1>5. CASE Exit \/ Crash
  <2>1. Forget /\ proc' = "down"
    BY <1>5 DEF Exit, Crash
  <2>. QED
    BY <2>1 DEF Forget, DrivesSettle, SomebodyDrives
<1>6. ASSUME NEW d \in Drives,
             \/ DriveStep(d) \/ Interruption(d) \/ ResumeLoad(d) \/ ResumeAborts(d) \/ Timeout(d)
             \/ \E s \in Steps : TaskStep(d, s) \/ TaskStoreFails(d, s)
      PROVE  DrivesSettle' /\ SomebodyDrives'
  BY <1>6, DriveStepDrives, OtherStepDrives, OneDriveSettles
<1>. QED
  BY <1>1, <1>2, <1>3, <1>4, <1>5, <1>6 DEF Next

\* Who owned a row owns it still, unless the row has ended.
OwnersStand ==
  \A d \in Drives, s \in Steps : Owns(d, s) =>
    \/ Owns(d, s)' /\ task'[d][s].row = task[d][s].row
    \/ rows'[s][task[d][s].row].state # "RUNNING"

\* No attempt was started.
NoneStarted ==
  \A s \in Steps : \A i \in DOMAIN rows'[s] : rows'[s][i].state = "RUNNING" =>
    i \in DOMAIN rows[s] /\ rows[s][i].state = "RUNNING"

\* Hence every attempt in RUNNING keeps its owner.
LEMMA RunsKept ==
  ASSUME SomebodyRuns, OwnersStand, NoneStarted, crashes' = 0 => crashes = 0
  PROVE  SomebodyRuns'
BY DEF SomebodyRuns, OwnersStand, NoneStarted

\* Outside the loop there is nothing to own.
LEMMA OwnsInLoop ==
  ASSUME TasksInLoop, NEW d \in Drives, pc[d] \notin InLoop \cup {"cancel"}, NEW s \in Steps
  PROVE  task[d][s].pc = "none" /\ ~Owns(d, s)
BY DEF TasksInLoop, Owns

\* A step that touches neither rows nor owned tasks.
LEMMA OwnersLeftAlone ==
  ASSUME TypeInv, UNCHANGED rows,
         \A d \in Drives, s \in Steps : Owns(d, s) =>
           Owns(d, s)' /\ task'[d][s].row = task[d][s].row
  PROVE  OwnersStand /\ NoneStarted
BY DEF OwnersStand, NoneStarted

\* A step that touches neither rows nor tasks.
LEMMA TasksLeftAlone ==
  ASSUME TypeInv, UNCHANGED <<rows, task>>
  PROVE  OwnersStand /\ NoneStarted
BY OwnersLeftAlone DEF Owns

\* A drive that owned nothing replaces its tasks.
LEMMA OwnedNothing ==
  ASSUME TypeInv, UNCHANGED rows, NEW d \in Drives, \A s \in Steps : ~Owns(d, s),
         NEW k, task' = [task EXCEPT ![d] = k]
  PROVE  OwnersStand /\ NoneStarted
<1>1. \A c \in Drives \ {d} : task'[c] = task[c]
  BY DEF TypeInv, TypeOK
<1>. QED
  BY <1>1, OwnersLeftAlone DEF Owns

\* One task changes.
LEMMA OneTaskSet ==
  ASSUME TypeInv, NEW d \in Drives, NEW s \in Steps, NEW k, SetTask(d, s, k)
  PROVE  /\ task'[d][s] = k
         /\ \A c \in Drives, t \in Steps : c # d \/ t # s => task'[c][t] = task[c][t]
BY DEF SetTask, TypeInv, TypeOK

\* One task that owned nothing is replaced.
LEMMA TaskOwnedNothing ==
  ASSUME TypeInv, UNCHANGED rows, NEW d \in Drives, NEW s \in Steps, NEW k, SetTask(d, s, k),
         ~Owns(d, s)
  PROVE  OwnersStand /\ NoneStarted
<1>1. \A c \in Drives, t \in Steps : c # d \/ t # s => task'[c][t] = task[c][t]
  BY OneTaskSet
<1>. QED
  BY <1>1, OwnersLeftAlone DEF Owns

\* Cancelled rows do not run.
LEMMA CancelledDoNotRun ==
  ASSUME TypeInv, NEW S, rows' = CancelRows(S), NEW s \in Steps, s \in S, NEW i \in DOMAIN rows[s]
  PROVE  rows'[s][i].state # "RUNNING"
BY DEF CancelRows, Attempt

\* A cancellation starts no attempt.
LEMMA CancelStartsNone ==
  ASSUME TypeInv, NEW S, rows' = CancelRows(S)
  PROVE  NoneStarted
<1>1. \A s \in Steps :
        /\ DOMAIN rows'[s] = DOMAIN rows[s]
        /\ \A i \in DOMAIN rows[s] :
             \/ rows'[s][i].state = rows[s][i].state
             \/ rows'[s][i].state = "CANCELLED"
  BY RowsCancelled DEF TypeInv
<1>. QED
  BY <1>1 DEF NoneStarted

\* The owner of a row points at one.
LEMMA OwnedRow ==
  ASSUME TypeInv, NEW d \in Drives, NEW s \in Steps, Owns(d, s)
  PROVE  task[d][s].row \in DOMAIN rows[s]
BY DEF TypeInv, Numbered, NumberedTask, Owns

\* An attempt that ends takes its row out of RUNNING.
LEMMA AttemptEndRuns ==
  ASSUME TypeInv, NEW d \in Drives, NEW s \in Steps, Owns(d, s), NEW k, SetTask(d, s, k),
         NEW st \in {"COMPLETED", "FAILED"}, SetRow(s, task[d][s].row, st)
  PROVE  OwnersStand /\ NoneStarted
<1> DEFINE n == task[d][s].row
<1>1. n \in DOMAIN rows[s]
  BY OwnedRow
<1>2. /\ DOMAIN rows'[s] = DOMAIN rows[s]
      /\ rows'[s][n] = Attempt(rows[s][n].attempt, st)
      /\ \A j \in DOMAIN rows[s] \ {n} : rows'[s][j] = rows[s][j]
      /\ \A t \in Steps \ {s} : rows'[t] = rows[t]
  BY <1>1, RowUpdated DEF TypeInv
<1> HIDE DEF n
<1>3. rows'[s][n].state # "RUNNING"
  BY <1>2 DEF Attempt
<1>4. NoneStarted
  BY <1>2, <1>3 DEF NoneStarted
<1>5. \A c \in Drives, t \in Steps : c # d \/ t # s => task'[c][t] = task[c][t]
  BY OneTaskSet
<1>6. OwnersStand
  BY <1>3, <1>5 DEF OwnersStand, Owns, n
<1>. QED
  BY <1>4, <1>6

\* An attempt that is created has its task for an owner.
LEMMA TaskCreateRuns ==
  ASSUME TypeInv, SomebodyRuns, NEW d \in Drives, NEW s \in Steps, TaskCreate(d, s)
  PROVE  SomebodyRuns'
<1> DEFINE k == Task("run", task[d][s].attempt, task[d][s].left, Len(rows[s]) + 1)
           r == Attempt(task[d][s].attempt, "RUNNING")
<1>1. rows' = [rows EXCEPT ![s] = Append(@, r)] /\ SetTask(d, s, k) /\ ~Owns(d, s)
  BY DEF TaskCreate, TaskAt, Owns
<1>2. UNCHANGED crashes
  BY DEF TaskCreate, bounds
<1>3. task[d][s].attempt \in Nat \ {0}
  <2>1. task[d][s].attempt \in 1 .. Len(rows[s]) + 1 /\ Len(rows[s]) \in Nat
    BY RowsType DEF TypeInv, Numbered, NumberedTask, TaskCreate, TaskAt
  <2>. QED
    BY <2>1
<1>4. r \in RowType
  BY <1>3 DEF Attempt, RowType
<1>5. k.pc = "run" /\ k.row = Len(rows[s]) + 1
  BY DEF Task
<1>. HIDE DEF k, r
<1>6. /\ task'[d][s] = k
      /\ \A c \in Drives, t \in Steps : c # d \/ t # s => task'[c][t] = task[c][t]
  BY <1>1, OneTaskSet
<1>7. /\ DOMAIN rows'[s] = 1 .. Len(rows[s]) + 1
      /\ \A i \in DOMAIN rows[s] : rows'[s][i] = rows[s][i]
      /\ \A t \in Steps \ {s} : rows'[t] = rows[t]
  BY <1>1, <1>4, RowAppended DEF TypeInv
<1>8. DOMAIN rows[s] = 1 .. Len(rows[s]) /\ Len(rows[s]) \in Nat
  BY RowsType DEF TypeInv
<1>9. \A i \in DOMAIN rows'[s] : i \in DOMAIN rows[s] \/ i = k.row
  BY <1>5, <1>7, <1>8
<1>10. Owns(d, s)' /\ task'[d][s].row = k.row
  BY <1>5, <1>6 DEF Owns
<1>11. \A c \in Drives, t \in Steps :
         Owns(c, t) => Owns(c, t)' /\ task'[c][t].row = task[c][t].row
  BY <1>1, <1>6 DEF Owns
<1>12. \A t \in Steps : \A i \in DOMAIN rows'[t] :
         \/ t = s /\ i = k.row
         \/ i \in DOMAIN rows[t] /\ rows'[t][i] = rows[t][i]
  BY <1>7, <1>9
<1>. QED
  BY <1>2, <1>10, <1>11, <1>12 DEF SomebodyRuns

\* A step of a task or of its row.
LEMMA TaskStepRuns ==
  ASSUME TypeInv, SomebodyRuns, NEW d \in Drives, NEW s \in Steps,
         TaskStep(d, s) \/ TaskStoreFails(d, s)
  PROVE  SomebodyRuns'
<1>0. UNCHANGED crashes
  BY DEF TaskStep, TaskBegin, TaskCreate, TaskRan, TaskSave, TaskFailed, TaskStoreFails, bounds
<1>1. CASE TaskBegin(d, s)
  <2>1. UNCHANGED rows /\ ~Owns(d, s) /\ \E k : SetTask(d, s, k)
    BY <1>1 DEF TaskBegin, TaskAt, Owns, store
  <2>. QED
    BY <1>0, <2>1, TaskOwnedNothing, RunsKept
<1>2. CASE TaskCreate(d, s)
  BY <1>2, TaskCreateRuns
<1>3. CASE TaskRan(d, s)
  <2> DEFINE k == Task("save", task[d][s].attempt, task[d][s].left, task[d][s].row)
  <2>1. UNCHANGED rows /\ SetTask(d, s, k)
    BY <1>3 DEF TaskRan, store
  <2>2. k.pc = "save" /\ k.row = task[d][s].row
    BY DEF Task
  <2>. HIDE DEF k
  <2>3. \A c \in Drives, t \in Steps :
          Owns(c, t) => Owns(c, t)' /\ task'[c][t].row = task[c][t].row
    BY <2>1, <2>2, OneTaskSet DEF Owns
  <2>. QED
    BY <1>0, <2>1, <2>3, OwnersLeftAlone, RunsKept
<1>4. CASE TaskSave(d, s)
  <2>1. Owns(d, s) /\ SetRow(s, task[d][s].row, "COMPLETED") /\ \E k : SetTask(d, s, k)
    BY <1>4 DEF TaskSave, TaskAt, Owns
  <2>. QED
    BY <1>0, <2>1, AttemptEndRuns, RunsKept
<1>5. CASE TaskFailed(d, s)
  <2>1. Owns(d, s) /\ SetRow(s, task[d][s].row, "FAILED") /\ \E k : SetTask(d, s, k)
    BY <1>5 DEF TaskFailed, TaskAt, Owns
  <2>. QED
    BY <1>0, <2>1, AttemptEndRuns, RunsKept
<1>6. CASE TaskStoreFails(d, s)
  BY <1>6 DEF TaskStoreFails, SomebodyRuns
<1>. QED
  BY <1>1, <1>2, <1>3, <1>4, <1>5, <1>6 DEF TaskStep

\* A step of the drive's own coroutine: it leaves its loop only with its
\* tasks done or its rows cancelled.
LEMMA DriveStepRuns ==
  ASSUME TypeInv, TasksInLoop, SomebodyRuns, NEW d \in Drives, DriveStep(d)
  PROVE  SomebodyRuns'
<1>0. UNCHANGED crashes
  BY DEF DriveStep, Start, ResumeWrite, ResumeEnter, Poll, Collect, NextTurn, CancelPending, Mark,
         Examine, EvalEdge, SkipEdge, bounds
<1>. SUFFICES OwnersStand /\ NoneStarted
  BY <1>0, RunsKept
<1>1. CASE Start(d) \/ ResumeEnter(d)
  <2>1. pc[d] \notin InLoop \cup {"cancel"} /\ UNCHANGED rows
    BY <1>1 DEF Start, ResumeEnter, At, InLoop, store
  <2>2. \E k : task' = [task EXCEPT ![d] = k]
    BY <1>1 DEF Start, ResumeEnter, EnterLoop
  <2>. QED
    BY <2>1, <2>2, OwnsInLoop, OwnedNothing
<1>2. CASE ResumeWrite(d) \/ Collect(d) \/ Poll(d)
  <2>1. UNCHANGED <<rows, task>>
    BY <1>2 DEF ResumeWrite, Collect, Poll, store, loopVars
  <2>. QED
    BY <2>1, TasksLeftAlone
<1>3. CASE NextTurn(d)
  <2>1. /\ UNCHANGED rows
        /\ \/ UNCHANGED task
           \/ InProgress(d) = {} /\ LeaveLoop(d)
    BY <1>3 DEF NextTurn, store
  <2>2. CASE UNCHANGED task
    BY <2>1, <2>2, TasksLeftAlone
  <2>3. CASE InProgress(d) = {} /\ LeaveLoop(d)
    <3>1. \A s \in Steps : ~Owns(d, s)
      BY <2>3 DEF InProgress, Owns
    <3>. QED
      BY <2>1, <2>3, <3>1, OwnedNothing DEF LeaveLoop
  <2>. QED
    BY <2>1, <2>2, <2>3
<1>4. CASE CancelPending(d)
  <2>1. rows' = CancelRows(InProgress(d)) /\ task' = [task EXCEPT ![d] = [s \in Steps |-> NoTask]]
    BY <1>4 DEF CancelPending, LeaveLoop
  <2>2. NoneStarted
    BY <2>1, CancelStartsNone
  <2>3. \A c \in Drives \ {d} : task'[c] = task[c]
    BY <2>1 DEF TypeInv, TypeOK
  <2>4. ASSUME NEW s \in Steps, Owns(d, s)
        PROVE  rows'[s][task[d][s].row].state # "RUNNING"
    <3>1. s \in InProgress(d)
      BY <2>4 DEF InProgress, Owns
    <3>. QED
      BY <2>1, <2>4, <3>1, OwnedRow, CancelledDoNotRun
  <2>5. OwnersStand
    BY <2>3, <2>4 DEF OwnersStand, Owns
  <2>. QED
    BY <2>2, <2>5
<1>5. CASE Mark(d)
  <2>1. pc[d] \notin InLoop \cup {"cancel"} /\ UNCHANGED rows
    BY <1>5 DEF Mark, At, InLoop
  <2>2. \E k : task' = [task EXCEPT ![d] = k]
    BY <1>5 DEF Mark, Return, LeaveLoop
  <2>. QED
    BY <2>1, <2>2, OwnsInLoop, OwnedNothing
<1>6. ASSUME NEW s \in Steps, Examine(d, s)
      PROVE  OwnersStand /\ NoneStarted
  <2>1. UNCHANGED rows /\ SetTask(d, s, NoTask) /\ ~Owns(d, s)
    BY <1>6 DEF Examine, Owns, store
  <2>. QED
    BY <2>1, TaskOwnedNothing
<1>7. ASSUME NEW e \in Edges, EvalEdge(d, e) \/ SkipEdge(d, e)
      PROVE  OwnersStand /\ NoneStarted
  <2>1. \/ UNCHANGED <<rows, task>>
        \/ \E res, act, queue : ScheduleOrSkip(d, e[2], res, act, queue)
    BY <1>7 DEF EvalEdge, SkipEdge
  <2>2. e[2] \in Steps
    BY EdgeEnds
  <2>3. ASSUME NEW s \in Steps, rows' = [rows EXCEPT ![s] = Append(@, Attempt(1, "SKIPPED"))],
               UNCHANGED task
        PROVE  OwnersStand /\ NoneStarted
    <3> DEFINE r == Attempt(1, "SKIPPED")
    <3>1. r \in RowType /\ r.state = "SKIPPED"
      BY DEF Attempt, RowType
    <3>. HIDE DEF r
    <3>2. /\ DOMAIN rows'[s] = 1 .. Len(rows[s]) + 1
          /\ rows'[s][Len(rows[s]) + 1] = r
          /\ \A i \in DOMAIN rows[s] : rows'[s][i] = rows[s][i]
          /\ \A t \in Steps \ {s} : rows'[t] = rows[t]
      BY <2>3, <3>1, RowAppended DEF r, TypeInv
    <3>3. DOMAIN rows[s] = 1 .. Len(rows[s]) /\ Len(rows[s]) \in Nat
      BY RowsType DEF TypeInv
    <3>4. \A i \in DOMAIN rows'[s] : i \in DOMAIN rows[s] \/ rows'[s][i] = r
      BY <3>2, <3>3
    <3>5. NoneStarted
      BY <3>1, <3>2, <3>4 DEF NoneStarted
    <3>6. OwnersStand
      BY <2>3 DEF OwnersStand, Owns
    <3>. QED
      BY <3>5, <3>6
  <2>4. ASSUME NEW s \in Steps, s \notin scheduled[d], task' = [task EXCEPT ![d][s] = NewTask],
               UNCHANGED rows
        PROVE  OwnersStand /\ NoneStarted
    <3>1. ~Owns(d, s) /\ SetTask(d, s, NewTask)
      BY <2>4 DEF TasksInLoop, Owns, SetTask
    <3>. QED
      BY <2>4, <3>1, TaskOwnedNothing
  <2>. QED
    BY <2>1, <2>2, <2>3, <2>4, TasksLeftAlone, ScheduleOrSkipCases DEF TypeInv
<1>. QED
  BY <1>1, <1>2, <1>3, <1>4, <1>5, <1>6, <1>7 DEF DriveStep

\* Every step leaves each attempt in RUNNING to a task.
LEMMA RunsStep ==
  ASSUME TypeInv, TasksInLoop, DrivesSettle, SomebodyRuns, [Next]_vars
  PROVE  SomebodyRuns'
<1>1. ASSUME UNCHANGED <<rows, task, crashes>>
      PROVE  SomebodyRuns'
  BY <1>1, TasksLeftAlone, RunsKept
<1>2. CASE UNCHANGED vars
  BY <1>1, <1>2 DEF vars, store, loopVars, bounds
<1>3. ASSUME NEW c \in Clients, ApiWrite(c) \/ \E op \in Ops : ApiRead(c, op)
      PROVE  SomebodyRuns'
  BY <1>1, <1>3 DEF ApiWrite, ApiRead, store, loopVars, bounds
<1>4. CASE Stop
  BY <1>1, <1>4 DEF Stop, store, loopVars
<1>5. CASE Boot
  <2>1. UNCHANGED <<task, crashes>>
    BY <1>5 DEF Boot, loopVars, bounds
  <2>2. CASE UNCHANGED rows
    BY <1>1, <2>1, <2>2
  <2>3. CASE rows' = CancelRows(Steps)
    <3>1. NoneStarted
      BY <2>3, CancelStartsNone
    <3>2. OwnersStand
      BY <2>1 DEF OwnersStand, Owns
    <3>. QED
      BY <2>1, <3>1, <3>2, RunsKept
  <2>. QED
    BY <1>5, <2>2, <2>3 DEF Boot
<1>6. CASE Exit
  <2>1. UNCHANGED <<rows, crashes>> /\ \A d \in Drives : pc[d] = "idle"
    BY <1>6 DEF Exit, store, bounds
  <2>2. \A d \in Drives, s \in Steps : ~Owns(d, s)
    BY <2>1, OwnsInLoop DEF InLoop
  <2>. QED
    BY <2>1, <2>2, OwnersLeftAlone, RunsKept
<1>7. CASE Crash
  <2>1. crashes' # 0
    BY <1>7 DEF Crash, TypeInv, TypeOK
  <2>. QED
    BY <2>1 DEF SomebodyRuns
<1>8. ASSUME NEW d \in Drives, DriveStep(d) \/ \E s \in Steps : TaskStep(d, s) \/ TaskStoreFails(d, s)
      PROVE  SomebodyRuns'
  BY <1>8, DriveStepRuns, TaskStepRuns
<1>9. ASSUME NEW d \in Drives, Interrupt(d) \/ Timeout(d) \/ ResumeLoad(d)
      PROVE  SomebodyRuns'
  BY <1>1, <1>9 DEF Interrupt, Timeout, ResumeLoad, store, bounds
<1>10. ASSUME NEW d \in Drives, InterruptOutside(d) \/ ResumeAborts(d)
       PROVE  SomebodyRuns'
  <2>1. pc[d] \notin InLoop \cup {"cancel"} /\ UNCHANGED <<rows, crashes>>
    BY <1>10 DEF InterruptOutside, ResumeAborts, At, InLoop, store, bounds
  <2>2. \E k : task' = [task EXCEPT ![d] = k]
    BY <1>10 DEF InterruptOutside, ResumeAborts, Return, LeaveLoop
  <2>. QED
    BY <2>1, <2>2, OwnsInLoop, OwnedNothing, RunsKept
<1>11. ASSUME NEW d \in Drives, InterruptCancel(d)
       PROVE  SomebodyRuns'
  BY <1>11 DEF InterruptCancel, SomebodyRuns
<1>. QED
  BY <1>2, <1>3, <1>4, <1>5, <1>6, <1>7, <1>8, <1>9, <1>10, <1>11 DEF Next, Interruption

\* Nothing is stranded at first.
LEMMA QuietInit == Init => QuietInv
<1>. SUFFICES ASSUME Init PROVE QuietInv
  OBVIOUS
<1>1. TasksInLoop
  BY DEF Init, TasksInLoop, NoTask, Task
<1>2. DrivesSettle
  BY DEF Init, DrivesSettle
<1>3. SomebodyDrives
  BY DEF Init, SomebodyDrives
<1>4. \A s \in Steps : rows[s] = << >>
  BY DEF Init
<1>5. SomebodyRuns
  BY <1>4 DEF SomebodyRuns
<1>. QED
  BY <1>1, <1>2, <1>3, <1>5 DEF QuietInv

\* What is done together is not cut short between its parts.
NothingSplits == Faults \cap {"store", "rehydrate", "cut"} = {}

\* When every drive has ended in a process that serves, the instance is not
\* in RUNNING and no attempt of it is: for any number of drives and clients,
\* retries, requests, timeouts, shutdowns and crashes.  What may not fail are
\* the writes after a step has run ("store": its row keeps RUNNING), the
\* rehydration once RUNNING has been written ("rehydrate": nobody drives the
\* instance) and the awaiting of the cancelled tasks ("cut": their rows are
\* not marked).
THEOREM NothingIsStranded == NothingSplits => (Spec => []NothingStranded)
<1>1. Init => TypeInv /\ QuietInv
  BY TypeInit, QuietInit
<1>2. TypeInv /\ QuietInv /\ [Next]_vars => TypeInv' /\ QuietInv'
  BY TypeStep, TasksStep, SettlesStep, RunsStep DEF QuietInv
<1>3. ASSUME NothingSplits, TypeInv, QuietInv
      PROVE  NothingStranded
  <2>. SUFFICES ASSUME Quiet
                PROVE  /\ inst # "RUNNING"
                       /\ crashes = 0 => \A s \in Steps : ~HasRow(s, {"RUNNING"})
    BY DEF NothingStranded
  <2>1. inst # "RUNNING"
    BY <1>3 DEF QuietInv, SomebodyDrives, Quiet, NothingSplits
  <2>2. \A d \in Drives, s \in Steps : ~Owns(d, s)
    BY <1>3, OwnsInLoop DEF QuietInv, Quiet, InLoop
  <2>3. crashes = 0 => \A s \in Steps : ~HasRow(s, {"RUNNING"})
    BY <1>3, <2>2 DEF QuietInv, SomebodyRuns, NothingSplits, HasRow
  <2>. QED
    BY <2>1, <2>3
<1>4. ASSUME NothingSplits
      PROVE  Spec => []NothingStranded
  <2>1. TypeInv /\ QuietInv => NothingStranded
    BY <1>3, <1>4
  <2>. QED
    BY <1>1, <1>2, <2>1, PTL DEF Spec
<1>. QED
  BY <1>4

-----------------------------------------------------------------------------
(* The first drive follows the conditions.                                 *)

\* An edge that was taken: its source completed and its condition holds.
Taken(e) == HasRow(e[1], {"COMPLETED"}) /\ cond[e] = "true"
WayIn(s) == In(s) # {} => \E e \in In(s) : Taken(e)

\* Before any resumption, what a drive holds active was taken, and a step
\* with a task or a row has a way in that was taken, or was skipped.
FollowInv ==
  resumes = 0 =>
    /\ \A d \in Drives : pc[d] \notin {"loaded", "listing"}
    /\ \A d \in Drives : \A e \in active[d] : Taken(e)
    /\ \A d \in Drives, s \in Steps : task[d][s].pc # "none" => WayIn(s)
    /\ \A s \in Steps : rows[s] # << >> => HasRow(s, {"SKIPPED"}) \/ WayIn(s)

\* What a step may add to a drive, where the drive may not go, and which rows
\* the step may begin.
Follows(d) ==
  /\ pc'[d] \notin {"loaded", "listing"}
  /\ \A e \in active'[d] : e \in active[d] \/ Taken(e)
  /\ \A s \in Steps : task'[d][s].pc # "none" => task[d][s].pc # "none" \/ WayIn(s)

RowsFollow ==
  \A s \in Steps : rows'[s] # << >> => rows[s] # << >> \/ HasRow(s, {"SKIPPED"})' \/ WayIn(s)

\* What was taken stays taken.
LEMMA TakenKept ==
  ASSUME Kept, UNCHANGED cond
  PROVE  /\ \A e \in Edges : Taken(e) => Taken(e)'
         /\ \A s \in Steps : WayIn(s) => WayIn(s)'
<1>1. \A e \in Edges : Taken(e) => Taken(e)'
  BY EdgesKept DEF Taken
<1>2. \A s \in Steps : \A e \in In(s) : e \in Edges
  BY DEF In
<1>. QED
  BY <1>1, <1>2 DEF WayIn

\* Hence a step that follows keeps the invariant.
LEMMA FollowKept ==
  ASSUME TypeInv', FollowInv, Kept, UNCHANGED cond, resumes' = 0 => resumes = 0,
         resumes = 0 /\ resumes' = 0 => RowsFollow /\ \A d \in Drives : Follows(d)
  PROVE  FollowInv'
<1>. SUFFICES ASSUME resumes' = 0
              PROVE  /\ \A d \in Drives : pc'[d] \notin {"loaded", "listing"}
                     /\ \A d \in Drives : \A e \in active'[d] : Taken(e)'
                     /\ \A d \in Drives, s \in Steps : task'[d][s].pc # "none" => WayIn(s)'
                     /\ \A s \in Steps : rows'[s] # << >> => HasRow(s, {"SKIPPED"})' \/ WayIn(s)'
  BY DEF FollowInv
<1>0. RowsFollow /\ \A d \in Drives : Follows(d)
  OBVIOUS
<1>1. \A d \in Drives : pc'[d] \notin {"loaded", "listing"}
  BY <1>0 DEF Follows
<1>2. \A d \in Drives : \A e \in active'[d] : Taken(e)'
  <2>1. \A d \in Drives : active'[d] \subseteq Edges
    BY DEF TypeInv, TypeOK
  <2>2. \A d \in Drives : \A e \in active'[d] : Taken(e)
    BY <1>0 DEF Follows, FollowInv
  <2>. QED
    BY <2>1, <2>2, TakenKept
<1>3. \A d \in Drives, s \in Steps : task'[d][s].pc # "none" => WayIn(s)'
  BY <1>0, TakenKept DEF Follows, FollowInv
<1>4. \A s \in Steps : HasRow(s, {"SKIPPED"}) => HasRow(s, {"SKIPPED"})'
  BY DEF Kept
<1>5. \A s \in Steps : rows'[s] # << >> => HasRow(s, {"SKIPPED"})' \/ WayIn(s)'
  BY <1>0, <1>4, TakenKept DEF RowsFollow, FollowInv
<1>. QED
  BY <1>1, <1>2, <1>3, <1>5

\* Only drive d acts.
OthersFollow(d) == \A c \in Drives \ {d} : UNCHANGED <<pc[c], task[c], active[c]>>

\* The drives that do not act add nothing.
LEMMA OneFollows ==
  ASSUME FollowInv, resumes = 0, NEW d \in Drives, Follows(d), OthersFollow(d)
  PROVE  \A c \in Drives : Follows(c)
BY DEF FollowInv, Follows, OthersFollow

\* A step that leaves edges, tasks and rows alone and goes nowhere new.
LEMMA StillFollows ==
  ASSUME FollowInv, resumes = 0, UNCHANGED <<task, active, rows>>,
         \A d \in Drives : pc'[d] = pc[d] \/ pc'[d] \notin {"loaded", "listing"}
  PROVE  RowsFollow /\ \A d \in Drives : Follows(d)
BY DEF FollowInv, Follows, RowsFollow

\* A drive leaves its loop.
LEMMA LeavingFollows ==
  ASSUME TypeInv, FollowInv, resumes = 0, NEW d \in Drives, LeaveLoop(d),
         NEW p, p \notin {"loaded", "listing"}, Goto(d, p)
  PROVE  \A c \in Drives : Follows(c)
<1>1. pc'[d] = p /\ \A c \in Drives \ {d} : pc'[c] = pc[c]
  BY DEF Goto, TypeInv, TypeOK
<1>2. active'[d] = {} /\ \A c \in Drives \ {d} : active'[c] = active[c]
  BY DEF LeaveLoop, TypeInv, TypeOK
<1>3. Leaves(d) /\ \A c \in Drives \ {d} : Stays(c)
  BY LeaveLoopMoves DEF Goto
<1>. QED
  BY <1>1, <1>2, <1>3, OneFollows DEF Follows, OthersFollow, Leaves, Stays

\* The first drive enters its loop: only steps without a way in are ready.
LEMMA StartFollows ==
  ASSUME TypeInv, FollowInv, resumes = 0, NEW d \in Drives, Start(d)
  PROVE  \A c \in Drives : Follows(c)
<1> DEFINE ready == {s \in Steps \ {} : In(s) \subseteq DoneEdges({})}
<1>1. DoneEdges({}) = {}
  BY DEF DoneEdges
<1>2. /\ task' = [task EXCEPT ![d] = [s \in Steps |-> IF s \in ready THEN NewTask ELSE NoTask]]
      /\ active' = [active EXCEPT ![d] = {}]
      /\ pc' = [pc EXCEPT ![d] = IF ready = {} THEN "mark" ELSE "poll"]
  BY <1>1 DEF Start, EnterLoop, Goto
<1>3. \A s \in ready : In(s) = {}
  BY <1>1
<1>. HIDE DEF ready
<1>4. \A s \in Steps : task'[d][s].pc # "none" => WayIn(s)
  <2>1. \A s \in Steps : task'[d][s] = IF s \in ready THEN NewTask ELSE NoTask
    BY <1>2 DEF TypeInv, TypeOK
  <2>2. NoTask.pc = "none"
    BY DEF NoTask, Task
  <2>. QED
    BY <1>3, <2>1, <2>2 DEF WayIn
<1>5. pc'[d] \in {"mark", "poll"} /\ \A c \in Drives \ {d} : pc'[c] = pc[c]
  BY <1>2 DEF TypeInv, TypeOK
<1>6. active'[d] = {} /\ \A c \in Drives \ {d} : active'[c] = active[c] /\ task'[c] = task[c]
  BY <1>2 DEF TypeInv, TypeOK
<1>. QED
  BY <1>4, <1>5, <1>6, OneFollows DEF Follows, OthersFollow

\* _schedule_or_skip begins a row only by a skip, and a task only behind an
\* edge that was taken.
LEMMA ScheduleFollows ==
  ASSUME TypeInv, NEW d \in Drives, NEW s \in Steps, NEW res, NEW act, NEW queue,
         ScheduleOrSkip(d, s, res, act, queue), \A e \in act : Taken(e)
  PROVE  /\ RowsFollow
         /\ \A t \in Steps : task'[d][t].pc # "none" => task[d][t].pc # "none" \/ WayIn(t)
         /\ \A c \in Drives \ {d} : task'[c] = task[c]
<1>1. CASE UNCHANGED <<rows, task>>
  BY <1>1 DEF RowsFollow
<1>2. CASE rows' = [rows EXCEPT ![s] = Append(@, Attempt(1, "SKIPPED"))] /\ UNCHANGED task
  <2> DEFINE r == Attempt(1, "SKIPPED")
  <2>1. r \in RowType /\ r.state = "SKIPPED"
    BY DEF Attempt, RowType
  <2>. HIDE DEF r
  <2>2. /\ DOMAIN rows'[s] = 1 .. Len(rows[s]) + 1 /\ Len(rows[s]) \in Nat
        /\ rows'[s][Len(rows[s]) + 1] = r
        /\ \A t \in Steps \ {s} : rows'[t] = rows[t]
    BY <1>2, <2>1, RowAppended, RowsType DEF r, TypeInv
  <2>3. Len(rows[s]) + 1 \in DOMAIN rows'[s]
    BY <2>2
  <2>4. HasRow(s, {"SKIPPED"})'
    BY <2>1, <2>2, <2>3 DEF HasRow
  <2>. QED
    BY <1>2, <2>2, <2>4 DEF RowsFollow
<1>3. CASE In(s) \cap act # {} /\ task' = [task EXCEPT ![d][s] = NewTask] /\ UNCHANGED rows
  <2>1. WayIn(s)
    BY <1>3 DEF WayIn
  <2>2. /\ \A t \in Steps \ {s} : task'[d][t] = task[d][t]
        /\ \A c \in Drives \ {d} : task'[c] = task[c]
    BY <1>3 DEF TypeInv, TypeOK
  <2>. QED
    BY <1>3, <2>1, <2>2 DEF RowsFollow
<1>. QED
  BY <1>1, <1>2, <1>3, ScheduleOrSkipCases DEF TypeInv

\* An edge is evaluated, or resolved behind a skip.
LEMMA EdgesFollow ==
  ASSUME TypeInv, SafetyInv, FollowInv, resumes = 0, NEW d \in Drives, NEW e \in Edges,
         EvalEdge(d, e) \/ SkipEdge(d, e)
  PROVE  RowsFollow /\ \A c \in Drives : Follows(c)
<1>0. e[2] \in Steps
  BY EdgeEnds
<1>1. CASE Abort(d, "FAILED") /\ UNCHANGED <<rows, task, active>>
  <2>1. \A c \in Drives : pc'[c] = pc[c] \/ pc'[c] \notin {"loaded", "listing"}
    BY <1>1 DEF Abort, Goto, TypeInv, TypeOK
  <2>. QED
    BY <1>1, <2>1, StillFollows
<1>2. ASSUME UNCHANGED pc, NEW res, NEW act, NEW queue, ScheduleOrSkip(d, e[2], res, act, queue),
             active' = [active EXCEPT ![d] = act], \A f \in act : f \in active[d] \/ Taken(f)
      PROVE  RowsFollow /\ \A c \in Drives : Follows(c)
  <2>1. \A f \in act : Taken(f)
    BY <1>2 DEF FollowInv
  <2>2. active'[d] = act /\ \A c \in Drives \ {d} : active'[c] = active[c]
    BY <1>2 DEF TypeInv, TypeOK
  <2>3. /\ RowsFollow
        /\ \A t \in Steps : task'[d][t].pc # "none" => task[d][t].pc # "none" \/ WayIn(t)
        /\ \A c \in Drives \ {d} : task'[c] = task[c]
    BY <1>0, <1>2, <2>1, ScheduleFollows
  <2>4. Follows(d) /\ OthersFollow(d)
    BY <1>2, <2>2, <2>3 DEF Follows, OthersFollow, FollowInv
  <2>. QED
    BY <2>3, <2>4, OneFollows
<1>3. CASE EvalEdge(d, e)
  <2>1. HasRow(e[1], {"COMPLETED"})
    BY <1>3 DEF EvalEdge, SafetyInv, DriveInv
  <2>2. CASE cond[e] = "error"
    BY <1>1, <1>3, <2>2 DEF EvalEdge
  <2>3. CASE cond[e] # "error"
    <3> DEFINE act == IF cond[e] = "true" THEN active[d] \cup {e} ELSE active[d]
               res == resolved[d] \cup {e}
    <3>1. /\ UNCHANGED pc /\ ScheduleOrSkip(d, e[2], res, act, {})
          /\ active' = [active EXCEPT ![d] = act]
      BY <1>3, <2>3 DEF EvalEdge
    <3>2. \A f \in act : f \in active[d] \/ Taken(f)
      BY <2>1 DEF Taken
    <3>. HIDE DEF act, res
    <3>. QED
      BY <1>2, <3>1, <3>2
  <2>. QED
    BY <2>2, <2>3
<1>4. CASE SkipEdge(d, e)
  <2> DEFINE act == active[d]
  <2>1. /\ UNCHANGED <<pc, active>>
        /\ \E res, queue : ScheduleOrSkip(d, e[2], res, act, queue)
    BY <1>4 DEF SkipEdge
  <2>2. active' = [active EXCEPT ![d] = act]
    BY <2>1 DEF TypeInv, TypeOK
  <2>3. \A f \in act : f \in active[d] \/ Taken(f)
    OBVIOUS
  <2>. HIDE DEF act
  <2>. QED
    BY <1>2, <2>1, <2>2, <2>3
<1>. QED
  BY <1>3, <1>4

\* A cancellation begins no row.
LEMMA CancelFollows ==
  ASSUME TypeInv, NEW S, rows' = CancelRows(S)
  PROVE  RowsFollow
<1>1. \A s \in Steps :
        rows[s] \in Seq(RowType) /\ rows'[s] \in Seq(RowType) /\ Len(rows'[s]) = Len(rows[s])
  BY RowsCancelled DEF TypeInv, TypeOK
<1>2. \A s \in Steps : rows'[s] # << >> => rows[s] # << >>
  BY <1>1
<1>. QED
  BY <1>2 DEF RowsFollow

\* A task's step: the row it begins is its own step's.
LEMMA TaskFollows ==
  ASSUME TypeInv, SafetyInv, FollowInv, resumes = 0, NEW d \in Drives, NEW s \in Steps,
         TaskStep(d, s) \/ TaskStoreFails(d, s)
  PROVE  RowsFollow /\ \A c \in Drives : Follows(c)
<1>1. UNCHANGED <<pc, active>> /\ task[d][s].pc # "none" /\ \E k : SetTask(d, s, k)
  BY DEF TaskStep, TaskBegin, TaskCreate, TaskRan, TaskSave, TaskFailed, TaskStoreFails, TaskAt, edgeVars
<1>2. \A c \in Drives, t \in Steps : task'[c][t] = task[c][t] \/ task[c][t].pc # "none"
  BY <1>1, OneTaskSet
<1>3. \A c \in Drives : Follows(c)
  BY <1>1, <1>2 DEF Follows, FollowInv
<1>4. \/ UNCHANGED rows
      \/ \E r : rows' = [rows EXCEPT ![s] = r]
  BY DEF TaskStep, TaskBegin, TaskCreate, TaskRan, TaskSave, TaskFailed, TaskStoreFails, SetRow, store
<1>5. \A t \in Steps \ {s} : rows'[t] = rows[t]
  BY <1>4 DEF TypeInv, TypeOK
<1>6. WayIn(s)
  BY <1>1 DEF FollowInv
<1>7. RowsFollow
  BY <1>5, <1>6 DEF RowsFollow
<1>. QED
  BY <1>3, <1>7

\* A step of the drive's own coroutine.
LEMMA DriveStepFollows ==
  ASSUME TypeInv, SafetyInv, FollowInv, resumes = 0, NEW d \in Drives, DriveStep(d)
  PROVE  RowsFollow /\ \A c \in Drives : Follows(c)
<1>1. CASE Start(d)
  BY <1>1, StartFollows DEF Start, store, RowsFollow
<1>2. CASE ResumeWrite(d) \/ ResumeEnter(d)
  BY <1>2 DEF ResumeWrite, ResumeEnter, At, FollowInv
<1>3. CASE Poll(d) \/ Collect(d)
  <2>1. /\ UNCHANGED <<task, active, rows>>
        /\ \E p \in {"cancel", "wait", "process"} : Goto(d, p)
    BY <1>3 DEF Poll, Collect, Abort, store, edgeVars
  <2>2. \A c \in Drives : pc'[c] = pc[c] \/ pc'[c] \notin {"loaded", "listing"}
    BY <2>1 DEF Goto, TypeInv, TypeOK
  <2>. QED
    BY <2>1, <2>2, StillFollows
<1>4. CASE NextTurn(d)
  <2>1. CASE Goto(d, "poll") /\ UNCHANGED <<task, edgeVars>>
    <3>1. UNCHANGED <<task, active, rows>>
      BY <1>4, <2>1 DEF NextTurn, store, edgeVars
    <3>2. \A c \in Drives : pc'[c] = pc[c] \/ pc'[c] \notin {"loaded", "listing"}
      BY <2>1 DEF Goto, TypeInv, TypeOK
    <3>. QED
      BY <3>1, <3>2, StillFollows
  <2>2. CASE Goto(d, "mark") /\ LeaveLoop(d)
    BY <1>4, <2>2, LeavingFollows DEF NextTurn, store, RowsFollow
  <2>. QED
    BY <1>4, <2>1, <2>2 DEF NextTurn
<1>5. CASE CancelPending(d)
  <2>1. RowsFollow
    BY <1>5, CancelFollows DEF CancelPending
  <2>. QED
    BY <1>5, <2>1, LeavingFollows DEF CancelPending
<1>6. CASE Mark(d)
  BY <1>6, LeavingFollows DEF Mark, Return, RowsFollow
<1>7. ASSUME NEW s \in Steps, Examine(d, s)
      PROVE  RowsFollow /\ \A c \in Drives : Follows(c)
  <2>1. UNCHANGED <<active, rows>> /\ SetTask(d, s, NoTask) /\ NoTask.pc = "none"
    BY <1>7 DEF Examine, store, NoTask, Task
  <2>2. \A c \in Drives, t \in Steps : task'[c][t] = task[c][t] \/ task'[c][t].pc = "none"
    BY <2>1, OneTaskSet
  <2>3. UNCHANGED pc \/ pc' = [pc EXCEPT ![d] = "cancel"]
    BY <1>7 DEF Examine, Abort, Goto
  <2>4. \A c \in Drives : pc'[c] = pc[c] \/ pc'[c] \notin {"loaded", "listing"}
    BY <2>3 DEF TypeInv, TypeOK
  <2>. QED
    BY <2>1, <2>2, <2>4 DEF Follows, FollowInv, RowsFollow
<1>8. ASSUME NEW e \in Edges, EvalEdge(d, e) \/ SkipEdge(d, e)
      PROVE  RowsFollow /\ \A c \in Drives : Follows(c)
  BY <1>8, EdgesFollow
<1>. QED
  BY <1>1, <1>2, <1>3, <1>4, <1>5, <1>6, <1>7, <1>8 DEF DriveStep

\* What is done to a drive.
LEMMA OtherStepFollows ==
  ASSUME TypeInv, FollowInv, resumes = 0, resumes' = 0, NEW d \in Drives,
         Interruption(d) \/ ResumeLoad(d) \/ ResumeAborts(d) \/ Timeout(d)
  PROVE  RowsFollow /\ \A c \in Drives : Follows(c)
<1>1. CASE Interrupt(d) \/ Timeout(d)
  <2>1. UNCHANGED <<task, active, rows>> /\ Goto(d, "cancel")
    BY <1>1 DEF Interrupt, Timeout, Abort, store, edgeVars
  <2>2. \A c \in Drives : pc'[c] = pc[c] \/ pc'[c] \notin {"loaded", "listing"}
    BY <2>1 DEF Goto, TypeInv, TypeOK
  <2>. QED
    BY <2>1, <2>2, StillFollows
<1>2. CASE InterruptOutside(d) \/ ResumeAborts(d)
  BY <1>2, LeavingFollows DEF InterruptOutside, ResumeAborts, Return, store, RowsFollow
<1>3. CASE InterruptCancel(d)
  BY <1>3, LeavingFollows DEF InterruptCancel, store, RowsFollow
<1>4. CASE ResumeLoad(d)
  BY <1>4 DEF ResumeLoad
<1>. QED
  BY <1>1, <1>2, <1>3, <1>4 DEF Interruption

\* The conditions are fixed, and the count of resumptions only grows.
LEMMA ResumptionsCount ==
  ASSUME [Next]_vars
  PROVE  UNCHANGED cond /\ (UNCHANGED resumes \/ resumes' = resumes + 1)
<1>1. CASE UNCHANGED vars
  BY <1>1 DEF vars, bounds
<1>2. ASSUME NEW d \in Drives, DriveStep(d)
      PROVE  UNCHANGED <<cond, resumes>>
  BY <1>2 DEF DriveStep, Start, ResumeWrite, ResumeEnter, Poll, Collect, NextTurn, CancelPending, Mark,
              Examine, EvalEdge, SkipEdge, bounds
<1>3. ASSUME NEW d \in Drives, Interruption(d) \/ ResumeAborts(d) \/ Timeout(d)
      PROVE  UNCHANGED <<cond, resumes>>
  BY <1>3 DEF Interruption, Interrupt, InterruptOutside, InterruptCancel, ResumeAborts, Timeout, bounds
<1>4. ASSUME NEW d \in Drives, ResumeLoad(d)
      PROVE  UNCHANGED cond /\ resumes' = resumes + 1
  BY <1>4 DEF ResumeLoad
<1>5. ASSUME NEW d \in Drives, NEW s \in Steps, TaskStep(d, s) \/ TaskStoreFails(d, s)
      PROVE  UNCHANGED <<cond, resumes>>
  BY <1>5 DEF TaskStep, TaskBegin, TaskCreate, TaskRan, TaskSave, TaskFailed, TaskStoreFails, bounds
<1>6. ASSUME NEW c \in Clients, ApiWrite(c) \/ \E op \in Ops : ApiRead(c, op)
      PROVE  UNCHANGED <<cond, resumes>>
  BY <1>6 DEF ApiWrite, ApiRead, bounds
<1>7. CASE Stop \/ Exit \/ Crash \/ Boot
  BY <1>7 DEF Stop, Exit, Crash, Boot, bounds
<1>. QED
  BY <1>1, <1>2, <1>3, <1>4, <1>5, <1>6, <1>7 DEF Next

\* Every step follows the conditions until the instance is resumed.
LEMMA FollowStep ==
  ASSUME TypeInv, SafetyInv, FollowInv, [Next]_vars
  PROVE  FollowInv'
<1>1. TypeInv' /\ Kept
  BY TypeStep, RowsStand, StandKept DEF SafetyInv
<1>2. UNCHANGED cond /\ (resumes' = 0 => resumes = 0)
  BY ResumptionsCount DEF TypeInv, TypeOK
<1>. SUFFICES ASSUME resumes = 0, resumes' = 0
              PROVE  RowsFollow /\ \A d \in Drives : Follows(d)
  BY <1>1, <1>2, FollowKept
<1>3. CASE UNCHANGED vars
  BY <1>3, StillFollows DEF vars, store, loopVars, edgeVars
<1>4. ASSUME NEW c \in Clients, ApiWrite(c) \/ \E op \in Ops : ApiRead(c, op)
      PROVE  RowsFollow /\ \A d \in Drives : Follows(d)
  BY <1>4, StillFollows DEF ApiWrite, ApiRead, store, loopVars, edgeVars
<1>5. CASE Stop
  BY <1>5, StillFollows DEF Stop, store, loopVars, edgeVars
<1>6. CASE Boot
  <2>1. UNCHANGED <<pc, task, active>>
    BY <1>6 DEF Boot, loopVars, edgeVars
  <2>2. RowsFollow
    BY <1>6, CancelFollows DEF Boot, RowsFollow
  <2>. QED
    BY <2>1, <2>2 DEF Follows, FollowInv
<1>7. CASE Exit \/ Crash
  <2>1. UNCHANGED rows /\ Forget /\ NoTask.pc = "none"
    BY <1>7 DEF Exit, Crash, store, NoTask, Task
  <2>. QED
    BY <2>1 DEF Forget, Follows, RowsFollow
<1>8. ASSUME NEW d \in Drives,
             \/ DriveStep(d) \/ Interruption(d) \/ ResumeLoad(d) \/ ResumeAborts(d) \/ Timeout(d)
             \/ \E s \in Steps : TaskStep(d, s) \/ TaskStoreFails(d, s)
      PROVE  RowsFollow /\ \A c \in Drives : Follows(c)
  BY <1>8, DriveStepFollows, OtherStepFollows, TaskFollows
<1>. QED
  BY <1>3, <1>4, <1>5, <1>6, <1>7, <1>8 DEF Next

\* Nothing is active at first.
LEMMA FollowInit == Init => FollowInv
BY DEF Init, FollowInv, NoTask, Task

\* FirstDriveFollowsConditions holds of every execution: until an instance is
\* resumed, a step that was attempted has a source that completed and an edge
\* from it whose condition holds.
THEOREM ConditionsAreFollowed == Spec => []FirstDriveFollowsConditions
<1>1. FollowInv => FirstDriveFollowsConditions
  BY DEF FollowInv, FirstDriveFollowsConditions, WayIn, Taken
<1>2. TypeInv /\ SafetyInv /\ FollowInv /\ [Next]_vars => TypeInv' /\ SafetyInv' /\ FollowInv'
  BY TypeStep, SafetyStep, FollowStep
<1>. QED
  BY <1>1, <1>2, TypeInit, SafetyInit, FollowInit, PTL DEF Spec

-----------------------------------------------------------------------------
(* One drive at a time keeps an immutable-attempt log.                     *)

\* At most one activation of run() or resume() at once.  With two, a step may
\* be attempted by both: the run EngineTwoDrives shows it.
OneDrive == \A c, d \in Drives : c = d

Active == {"new", "create", "run", "save"}

\* A task and the log of its step: what the task runs is in RUNNING, under the
\* highest number; what it is about to create is numbered above; a step with
\* a task that is not over has not settled.
LogTask(k, q) ==
  /\ k.pc \in {"run", "save"} => /\ q[k.row].state = "RUNNING"
                                 /\ \A i \in DOMAIN q : q[i].attempt <= k.attempt
  /\ k.pc = "create" => \A i \in DOMAIN q : q[i].attempt < k.attempt
  /\ k.pc \in Active => \A i \in DOMAIN q : q[i].state \notin {"COMPLETED", "SKIPPED"}

\* The drive that is in its loop has scheduled every step that has a row.
LogOf(d) ==
  /\ \A s \in Steps : LogTask(task[d][s], rows[s])
  /\ pc[d] \in InLoop => \A s \in Steps : rows[s] # << >> => s \in scheduled[d]
  /\ pc[d] = "start" => \A s \in Steps : rows[s] = << >>

LogInv == \A d \in Drives : LogOf(d)

\* No task, nothing to say of the rows.
LEMMA IdleLogged ==
  ASSUME NEW d \in Drives, \A s \in Steps : task'[d][s].pc = "none",
         pc'[d] \notin InLoop \cup {"start"}
  PROVE  LogOf(d)'
BY DEF LogOf, LogTask, Active

\* The drive moves, its tasks and the rows stay.
LEMMA StillLogged ==
  ASSUME NEW d \in Drives, LogOf(d), UNCHANGED rows, UNCHANGED task[d], UNCHANGED scheduled[d],
         pc'[d] \in InLoop => pc[d] \in InLoop, pc'[d] = "start" => pc[d] = "start"
  PROVE  LogOf(d)'
<1>1. \A s \in Steps : LogTask(task[d][s], rows[s])'
  BY DEF LogOf
<1>. QED
  BY <1>1 DEF LogOf

\* A new task has only to find its step unsettled.
LEMMA NewLogged ==
  ASSUME NEW s \in Steps, ~Settled(s)
  PROVE  LogTask(NewTask, rows[s])
BY DEF LogTask, NewTask, Task, Active, Settled, HasRow

\* The drive enters its loop.
LEMMA EnterLogged ==
  ASSUME TypeInv, NEW d \in Drives, NEW done \in SUBSET Steps, EnterLoop(d, done), UNCHANGED rows,
         \A s \in Steps : Settled(s) => s \in done,
         \A s \in Steps : rows[s] # << >> => \A e \in In(s) : e[1] \in done
  PROVE  LogOf(d)'
<1> DEFINE ready == {s \in Steps \ done : In(s) \subseteq DoneEdges(done)}
<1>1. /\ task' = [task EXCEPT ![d] = [s \in Steps |-> IF s \in ready THEN NewTask ELSE NoTask]]
      /\ scheduled' = [scheduled EXCEPT ![d] = done \cup ready]
      /\ pc' = [pc EXCEPT ![d] = IF ready = {} THEN "mark" ELSE "poll"]
  BY DEF EnterLoop, Goto
<1>2. \A s \in Steps : rows[s] # << >> => s \in done \cup ready
  BY DEF DoneEdges, In
<1>3. \A s \in ready : ~Settled(s)
  OBVIOUS
<1>. HIDE DEF ready
<1>4. /\ \A s \in Steps : task'[d][s] = IF s \in ready THEN NewTask ELSE NoTask
      /\ scheduled'[d] = done \cup ready /\ pc'[d] # "start"
  BY <1>1 DEF TypeInv, TypeOK
<1>5. \A s \in Steps : LogTask(NoTask, rows[s])
  BY DEF LogTask, NoTask, Task, Active
<1>6. \A s \in Steps : LogTask(task'[d][s], rows[s])
  BY <1>3, <1>4, <1>5, NewLogged
<1>7. \A s \in Steps : LogTask(task[d][s], rows[s])'
  BY <1>6
<1>. QED
  BY <1>2, <1>4, <1>7 DEF LogOf

\* One task changes, and at most the log of its step.
LEMMA TaskLogged ==
  ASSUME TypeInv, NEW d \in Drives, LogOf(d), NEW s \in Steps, NEW k, SetTask(d, s, k),
         LogTask(k, rows'[s]), \A t \in Steps \ {s} : rows'[t] = rows[t],
         rows'[s] # << >> => rows[s] # << >> \/ s \in scheduled[d],
         pc[d] # "start", pc'[d] # "start", pc'[d] \in InLoop => pc[d] \in InLoop,
         UNCHANGED scheduled
  PROVE  LogOf(d)'
<1>1. task'[d][s] = k /\ \A t \in Steps \ {s} : task'[d][t] = task[d][t]
  BY OneTaskSet
<1>2. \A t \in Steps : LogTask(task'[d][t], rows'[t])
  BY <1>1 DEF LogOf
<1>3. \A t \in Steps : LogTask(task[d][t], rows[t])'
  BY <1>2
<1>. QED
  BY <1>3 DEF LogOf

\* A task reads the attempts of its step.
LEMMA TaskBeginLogged ==
  ASSUME TypeInv, TasksInLoop, NEW d \in Drives, LogOf(d), NEW s \in Steps, TaskBegin(d, s)
  PROVE  LogOf(d)'
<1> DEFINE n == LastAttempt(s) + 1
           k == Task("create", n, Retries[s], 0)
<1>1. SetTask(d, s, k) /\ UNCHANGED <<rows, pc, scheduled>> /\ task[d][s].pc = "new"
  BY DEF TaskBegin, TaskAt, AttemptBase, store, edgeVars
<1>2. pc[d] \in InLoop \cup {"cancel"}
  BY <1>1 DEF TasksInLoop
<1>3. \A i \in DOMAIN rows[s] : rows[s][i].attempt < n
  <2>1. LastAttempt(s) \in Nat /\ \A i \in DOMAIN rows[s] : rows[s][i].attempt <= LastAttempt(s)
    BY LastAttemptType, RowsType DEF TypeInv
  <2>2. \A i \in DOMAIN rows[s] : rows[s][i].attempt \in Nat
    BY RowsType DEF TypeInv
  <2>. QED
    BY <2>1, <2>2
<1>4. \A i \in DOMAIN rows[s] : rows[s][i].state \notin {"COMPLETED", "SKIPPED"}
  BY <1>1 DEF LogOf, LogTask, Active
<1>5. k.pc = "create" /\ k.attempt = n
  BY DEF Task
<1>. HIDE DEF n, k
<1>6. LogTask(k, rows[s])
  BY <1>3, <1>4, <1>5 DEF LogTask
<1>. QED
  BY <1>1, <1>2, <1>6, TaskLogged DEF InLoop

\* A task creates its attempt.
LEMMA TaskCreateLogged ==
  ASSUME TypeInv, TasksInLoop, NEW d \in Drives, LogOf(d), NEW s \in Steps, TaskCreate(d, s)
  PROVE  LogOf(d)'
<1> DEFINE n == task[d][s].attempt
           k == Task("run", n, task[d][s].left, Len(rows[s]) + 1)
           r == Attempt(n, "RUNNING")
<1>1. /\ SetTask(d, s, k) /\ rows' = [rows EXCEPT ![s] = Append(@, r)]
      /\ UNCHANGED <<pc, scheduled>> /\ task[d][s].pc = "create"
  BY DEF TaskCreate, TaskAt, edgeVars
<1>2. pc[d] \in InLoop \cup {"cancel"} /\ s \in scheduled[d]
  BY <1>1 DEF TasksInLoop
<1>3. n \in Nat \ {0}
  <2>1. n \in 1 .. Len(rows[s]) + 1 /\ Len(rows[s]) \in Nat
    BY <1>1, RowsType DEF TypeInv, Numbered, NumberedTask
  <2>. QED
    BY <2>1
<1>4. r \in RowType /\ r.attempt = n /\ r.state = "RUNNING"
  BY <1>3 DEF Attempt, RowType
<1>5. k.pc = "run" /\ k.attempt = n /\ k.row = Len(rows[s]) + 1
  BY DEF Task
<1>6. \A i \in DOMAIN rows[s] :
        rows[s][i].attempt < n /\ rows[s][i].state \notin {"COMPLETED", "SKIPPED"}
  BY <1>1 DEF LogOf, LogTask, Active
<1>7. \A i \in DOMAIN rows[s] : rows[s][i].attempt \in Nat
  BY RowsType DEF TypeInv
<1>. HIDE DEF n, k, r
<1>8. /\ Len(rows[s]) \in Nat /\ DOMAIN rows[s] = 1 .. Len(rows[s])
      /\ DOMAIN rows'[s] = 1 .. Len(rows[s]) + 1
      /\ rows'[s][Len(rows[s]) + 1] = r
      /\ \A i \in DOMAIN rows[s] : rows'[s][i] = rows[s][i]
      /\ \A t \in Steps \ {s} : rows'[t] = rows[t]
  BY <1>1, <1>4, RowAppended, RowsType DEF TypeInv
<1>9. \A i \in DOMAIN rows'[s] : i \in DOMAIN rows[s] \/ rows'[s][i] = r
  BY <1>8
<1>10. \A i \in DOMAIN rows'[s] : rows'[s][i].attempt <= n
  BY <1>3, <1>4, <1>6, <1>7, <1>8, <1>9
<1>11. \A i \in DOMAIN rows'[s] : rows'[s][i].state \notin {"COMPLETED", "SKIPPED"}
  BY <1>4, <1>6, <1>8, <1>9
<1>12. LogTask(k, rows'[s])
  BY <1>4, <1>5, <1>8, <1>10, <1>11 DEF LogTask
<1>. QED
  BY <1>1, <1>2, <1>8, <1>12, TaskLogged DEF InLoop

\* An attempt ends: the numbers and the other rows stand.
LEMMA EndLogged ==
  ASSUME TypeInv, TasksInLoop, NEW d \in Drives, LogOf(d), NEW s \in Steps, Owns(d, s),
         NEW st \in {"COMPLETED", "FAILED"}, SetRow(s, task[d][s].row, st),
         NEW k, SetTask(d, s, k), UNCHANGED <<pc, scheduled>>,
         \/ k.pc \in {"done", "failed"}
         \/ st = "FAILED" /\ k.pc = "create" /\ k.attempt = task[d][s].attempt + 1
  PROVE  LogOf(d)'
<1> DEFINE n == task[d][s].attempt
           j == task[d][s].row
<1>1. pc[d] \in InLoop \cup {"cancel"} /\ s \in scheduled[d]
  BY DEF TasksInLoop, Owns
<1>2. j \in DOMAIN rows[s]
  BY OwnedRow
<1>3. /\ DOMAIN rows'[s] = DOMAIN rows[s]
      /\ rows'[s][j] = Attempt(rows[s][j].attempt, st)
      /\ \A i \in DOMAIN rows[s] \ {j} : rows'[s][i] = rows[s][i]
      /\ \A t \in Steps \ {s} : rows'[t] = rows[t]
  BY <1>2, RowUpdated DEF TypeInv
<1>4. /\ \A i \in DOMAIN rows[s] : rows[s][i].attempt <= n
      /\ \A i \in DOMAIN rows[s] : rows[s][i].state \notin {"COMPLETED", "SKIPPED"}
  BY DEF LogOf, LogTask, Owns, Active
<1>5. n \in Nat /\ \A i \in DOMAIN rows[s] : rows[s][i].attempt \in Nat
  BY RowsType, FrameTypes DEF TypeInv, TaskType
<1>. HIDE DEF n, j
<1>6. rows'[s][j].attempt = rows[s][j].attempt /\ rows'[s][j].state = st
  BY <1>3 DEF Attempt
<1>7. \A i \in DOMAIN rows'[s] : rows'[s][i].attempt = rows[s][i].attempt
  BY <1>3, <1>6
<1>8. \A i \in DOMAIN rows'[s] : rows'[s][i].attempt < n + 1
  BY <1>3, <1>4, <1>5, <1>7
<1>9. st = "FAILED" => \A i \in DOMAIN rows'[s] : rows'[s][i].state \notin {"COMPLETED", "SKIPPED"}
  BY <1>3, <1>4, <1>6
<1>10. LogTask(k, rows'[s])
  BY <1>8, <1>9 DEF LogTask, Active, n
<1>. QED
  BY <1>1, <1>3, <1>10, TaskLogged DEF InLoop

\* Every step of a task.
LEMMA TaskStepLogged ==
  ASSUME TypeInv, TasksInLoop, NEW d \in Drives, LogOf(d), NEW s \in Steps,
         TaskStep(d, s) \/ TaskStoreFails(d, s)
  PROVE  LogOf(d)'
<1>1. CASE TaskBegin(d, s)
  BY <1>1, TaskBeginLogged
<1>2. CASE TaskCreate(d, s)
  BY <1>2, TaskCreateLogged
<1>3. ASSUME NEW k, SetTask(d, s, k), UNCHANGED <<rows, pc, scheduled>>, Owns(d, s),
             \/ k.pc = "failed"
             \/ k.pc = "save" /\ k.row = task[d][s].row /\ k.attempt = task[d][s].attempt
      PROVE  LogOf(d)'
  <2>1. LogTask(k, rows[s])
    BY <1>3 DEF LogOf, LogTask, Active, Owns
  <2>2. pc[d] \in InLoop \cup {"cancel"}
    BY <1>3 DEF TasksInLoop, Owns
  <2>. QED
    BY <1>3, <2>1, <2>2, TaskLogged DEF InLoop
<1>4. CASE TaskRan(d, s)
  <2> DEFINE k == Task("save", task[d][s].attempt, task[d][s].left, task[d][s].row)
  <2>1. SetTask(d, s, k) /\ UNCHANGED <<rows, pc, scheduled>> /\ Owns(d, s)
    BY <1>4 DEF TaskRan, TaskAt, Owns, store, edgeVars
  <2>2. k.pc = "save" /\ k.row = task[d][s].row /\ k.attempt = task[d][s].attempt
    BY DEF Task
  <2>. HIDE DEF k
  <2>. QED
    BY <1>3, <2>1, <2>2
<1>5. CASE TaskSave(d, s)
  <2> DEFINE k == Task("done", 0, 0, 0)
  <2>1. /\ SetTask(d, s, k) /\ SetRow(s, task[d][s].row, "COMPLETED")
        /\ UNCHANGED <<pc, scheduled>> /\ Owns(d, s)
    BY <1>5 DEF TaskSave, TaskAt, Owns, edgeVars
  <2>2. k.pc = "done"
    BY DEF Task
  <2>. HIDE DEF k
  <2>. QED
    BY <2>1, <2>2, EndLogged
<1>6. CASE TaskFailed(d, s)
  <2>1. SetRow(s, task[d][s].row, "FAILED") /\ UNCHANGED <<pc, scheduled>> /\ Owns(d, s)
    BY <1>6 DEF TaskFailed, TaskAt, Owns, edgeVars
  <2>2. \/ SetTask(d, s, Task("create", task[d][s].attempt + 1, task[d][s].left - 1, 0))
        \/ SetTask(d, s, Task("failed", 0, 0, 0))
    BY <1>6 DEF TaskFailed
  <2>3. \E k : /\ SetTask(d, s, k)
               /\ k.pc = "failed" \/ (k.pc = "create" /\ k.attempt = task[d][s].attempt + 1)
    BY <2>2 DEF Task
  <2>. QED
    BY <2>1, <2>3, EndLogged
<1>7. CASE TaskStoreFails(d, s)
  <2> DEFINE k == Task("failed", 0, 0, 0)
  <2>1. SetTask(d, s, k) /\ UNCHANGED <<rows, pc, scheduled>> /\ Owns(d, s)
    BY <1>7 DEF TaskStoreFails, Owns, store, edgeVars
  <2>2. k.pc = "failed"
    BY DEF Task
  <2>. HIDE DEF k
  <2>. QED
    BY <1>3, <2>1, <2>2
<1>. QED
  BY <1>1, <1>2, <1>4, <1>5, <1>6, <1>7 DEF TaskStep

\* A step that the loop has not scheduled has no row and no task.
LEMMA Unscheduled ==
  ASSUME TypeInv, TasksInLoop, NEW d \in Drives, LogOf(d), pc[d] \in InLoop,
         NEW s \in Steps, s \notin scheduled[d]
  PROVE  rows[s] = << >> /\ task[d][s].pc = "none" /\ ~Settled(s)
<1>1. rows[s] = << >> /\ task[d][s].pc = "none"
  BY DEF LogOf, TasksInLoop
<1>. QED
  BY <1>1 DEF Settled, HasRow

\* An edge is resolved: its target may be skipped or scheduled.
LEMMA EdgeLogged ==
  ASSUME TypeInv, TasksInLoop, NEW d \in Drives, LogOf(d), pc[d] = "process",
         NEW s \in Steps, NEW res, NEW act, NEW queue, ScheduleOrSkip(d, s, res, act, queue),
         UNCHANGED pc
  PROVE  LogOf(d)'
<1>0. pc[d] \in InLoop /\ pc'[d] # "start"
  BY DEF InLoop
<1>1. CASE UNCHANGED <<rows, scheduled, task>>
  BY <1>0, <1>1, StillLogged
<1>2. CASE /\ s \notin scheduled[d] /\ scheduled' = [scheduled EXCEPT ![d] = @ \cup {s}]
           /\ rows' = [rows EXCEPT ![s] = Append(@, Attempt(1, "SKIPPED"))] /\ UNCHANGED task
  <2>1. task[d][s].pc = "none"
    BY <1>0, <1>2, Unscheduled
  <2>2. \A t \in Steps \ {s} : rows'[t] = rows[t]
    BY <1>2 DEF TypeInv, TypeOK
  <2>3. scheduled'[d] = scheduled[d] \cup {s}
    BY <1>2 DEF TypeInv, TypeOK
  <2>4. \A t \in Steps : LogTask(task[d][t], rows'[t])
    BY <2>1, <2>2 DEF LogOf, LogTask, Active
  <2>5. \A t \in Steps : LogTask(task[d][t], rows[t])'
    BY <1>2, <2>4
  <2>. QED
    BY <1>0, <2>2, <2>3, <2>5 DEF LogOf
<1>3. CASE /\ s \notin scheduled[d] /\ scheduled' = [scheduled EXCEPT ![d] = @ \cup {s}]
           /\ task' = [task EXCEPT ![d][s] = NewTask] /\ UNCHANGED rows
  <2>1. LogTask(NewTask, rows[s])
    BY <1>0, <1>3, Unscheduled, NewLogged
  <2>2. task'[d][s] = NewTask /\ \A t \in Steps \ {s} : task'[d][t] = task[d][t]
    BY <1>3 DEF TypeInv, TypeOK
  <2>3. scheduled'[d] = scheduled[d] \cup {s}
    BY <1>3 DEF TypeInv, TypeOK
  <2>4. \A t \in Steps : LogTask(task'[d][t], rows[t])
    BY <2>1, <2>2 DEF LogOf
  <2>5. \A t \in Steps : LogTask(task[d][t], rows[t])'
    BY <1>3, <2>4
  <2>. QED
    BY <1>0, <1>3, <2>3, <2>5 DEF LogOf
<1>. QED
  BY <1>1, <1>2, <1>3, ScheduleOrSkipCases DEF TypeInv

\* A step of the drive's own coroutine.
LEMMA DriveStepLogged ==
  ASSUME TypeInv, TasksInLoop, DependenciesSettled, NEW d \in Drives, LogOf(d), DriveStep(d)
  PROVE  LogOf(d)'
<1>1. CASE Start(d)
  <2>1. EnterLoop(d, {}) /\ UNCHANGED rows /\ \A s \in Steps : rows[s] = << >>
    BY <1>1 DEF Start, At, store, LogOf
  <2>2. \A s \in Steps : ~Settled(s)
    BY <2>1 DEF Settled, HasRow
  <2>. QED
    BY <2>1, <2>2, EnterLogged
<1>2. CASE ResumeEnter(d)
  <2>1. EnterLoop(d, AlreadyDone) /\ UNCHANGED rows
    BY <1>2 DEF ResumeEnter, store
  <2>2. AlreadyDone \in SUBSET Steps /\ \A s \in Steps : Settled(s) => s \in AlreadyDone
    BY DEF AlreadyDone
  <2>3. \A s \in Steps : rows[s] # << >> => \A e \in In(s) : e[1] \in AlreadyDone
    BY EdgeEnds DEF DependenciesSettled, AlreadyDone, In
  <2>. QED
    BY <2>1, <2>2, <2>3, EnterLogged
<1>3. CASE ResumeWrite(d)
  <2>1. pc[d] = "loaded" /\ pc' = [pc EXCEPT ![d] = "listing"] /\ UNCHANGED task
    BY <1>3 DEF ResumeWrite, At, Goto, loopVars
  <2>2. pc'[d] = "listing"
    BY <2>1 DEF TypeInv, TypeOK
  <2>3. \A s \in Steps : task'[d][s].pc = "none"
    BY <2>1, OwnsInLoop DEF InLoop
  <2>. QED
    BY <2>2, <2>3, IdleLogged DEF InLoop
<1>4. CASE Poll(d) \/ Collect(d)
  <2>1. UNCHANGED <<rows, task, scheduled>> /\ pc[d] \in InLoop
    BY <1>4 DEF Poll, Collect, At, InLoop, store, edgeVars
  <2>2. \E p \in {"cancel", "wait", "process"} : Goto(d, p)
    BY <1>4 DEF Poll, Collect, Abort
  <2>3. pc'[d] # "start"
    BY <2>2 DEF Goto, TypeInv, TypeOK
  <2>. QED
    BY <2>1, <2>3, StillLogged
<1>5. ASSUME LeaveLoop(d), Goto(d, "mark")
      PROVE  LogOf(d)'
  <2>1. pc'[d] = "mark" /\ \A s \in Steps : task'[d][s].pc = "none"
    BY <1>5, LeaveLoopMoves DEF Goto, Leaves, TypeInv, TypeOK
  <2>. QED
    BY <2>1, IdleLogged DEF InLoop
<1>6. CASE NextTurn(d)
  <2>1. CASE Goto(d, "poll") /\ UNCHANGED <<task, edgeVars>>
    <3>1. UNCHANGED <<rows, task, scheduled>> /\ pc[d] \in InLoop
      BY <1>6, <2>1 DEF NextTurn, At, InLoop, store, edgeVars
    <3>2. pc'[d] # "start"
      BY <2>1 DEF Goto, TypeInv, TypeOK
    <3>. QED
      BY <3>1, <3>2, StillLogged
  <2>. QED
    BY <1>5, <1>6, <2>1 DEF NextTurn
<1>7. CASE CancelPending(d)
  BY <1>5, <1>7 DEF CancelPending
<1>8. CASE Mark(d)
  <2>1. LeaveLoop(d) /\ Goto(d, "idle")
    BY <1>8 DEF Mark, Return
  <2>2. pc'[d] = "idle" /\ \A s \in Steps : task'[d][s].pc = "none"
    BY <2>1, LeaveLoopMoves DEF Goto, Leaves, TypeInv, TypeOK
  <2>. QED
    BY <2>2, IdleLogged DEF InLoop
<1>9. ASSUME NEW s \in Steps, Examine(d, s)
      PROVE  LogOf(d)'
  <2>1. /\ SetTask(d, s, NoTask) /\ UNCHANGED <<rows, scheduled>> /\ pc[d] = "process"
        /\ UNCHANGED pc \/ pc' = [pc EXCEPT ![d] = "cancel"]
    BY <1>9 DEF Examine, Abort, Goto, At, store
  <2>2. pc[d] \in InLoop /\ pc[d] # "start" /\ pc'[d] # "start"
    BY <2>1 DEF InLoop, TypeInv, TypeOK
  <2>3. LogTask(NoTask, rows[s])
    BY DEF LogTask, NoTask, Task, Active
  <2>. QED
    BY <2>1, <2>2, <2>3, TaskLogged
<1>10. ASSUME NEW e \in Edges, EvalEdge(d, e) \/ SkipEdge(d, e)
       PROVE  LogOf(d)'
  <2>1. pc[d] = "process" /\ e[2] \in Steps
    BY <1>10, EdgeEnds DEF EvalEdge, SkipEdge, At
  <2>2. \/ Abort(d, "FAILED") /\ UNCHANGED <<rows, scheduled, task>>
        \/ UNCHANGED pc /\ \E res, act, queue : ScheduleOrSkip(d, e[2], res, act, queue)
    BY <1>10 DEF EvalEdge, SkipEdge
  <2>3. CASE Abort(d, "FAILED") /\ UNCHANGED <<rows, scheduled, task>>
    <3>1. pc'[d] = "cancel"
      BY <2>3 DEF Abort, Goto, TypeInv, TypeOK
    <3>. QED
      BY <2>3, <3>1, StillLogged DEF InLoop
  <2>. QED
    BY <2>1, <2>2, <2>3, EdgeLogged
<1>. QED
  BY <1>1, <1>2, <1>3, <1>4, <1>6, <1>7, <1>8, <1>9, <1>10 DEF DriveStep

\* What is done to the drive.
LEMMA OtherStepLogged ==
  ASSUME TypeInv, TasksInLoop, NEW d \in Drives, LogOf(d),
         Interruption(d) \/ ResumeLoad(d) \/ ResumeAborts(d) \/ Timeout(d)
  PROVE  LogOf(d)'
<1>1. CASE Interrupt(d) \/ Timeout(d)
  <2>1. UNCHANGED <<rows, task, scheduled>> /\ Goto(d, "cancel")
    BY <1>1 DEF Interrupt, Timeout, Abort, store, edgeVars
  <2>2. pc'[d] = "cancel"
    BY <2>1 DEF Goto, TypeInv, TypeOK
  <2>. QED
    BY <2>1, <2>2, StillLogged DEF InLoop
<1>2. CASE InterruptOutside(d) \/ ResumeAborts(d) \/ InterruptCancel(d)
  <2>1. LeaveLoop(d) /\ \E p \in {"idle", "mark"} : Goto(d, p)
    BY <1>2 DEF InterruptOutside, ResumeAborts, InterruptCancel, Return
  <2>2. pc'[d] \in {"idle", "mark"} /\ \A s \in Steps : task'[d][s].pc = "none"
    BY <2>1, LeaveLoopMoves DEF Goto, Leaves, TypeInv, TypeOK
  <2>. QED
    BY <2>2, IdleLogged DEF InLoop
<1>3. CASE ResumeLoad(d)
  <2>1. pc[d] = "idle" /\ UNCHANGED task /\ Goto(d, "loaded")
    BY <1>3 DEF ResumeLoad, At
  <2>2. pc'[d] = "loaded"
    BY <2>1 DEF Goto, TypeInv, TypeOK
  <2>3. \A s \in Steps : task'[d][s].pc = "none"
    BY <2>1, OwnsInLoop DEF InLoop
  <2>. QED
    BY <2>2, <2>3, IdleLogged DEF InLoop
<1>. QED
  BY <1>1, <1>2, <1>3 DEF Interruption

\* Every step of a system with one drive.
LEMMA LogStep ==
  ASSUME OneDrive, TypeInv, DependenciesSettled, TasksInLoop, DrivesSettle, LogInv, [Next]_vars
  PROVE  LogInv'
<1>1. ASSUME UNCHANGED <<rows, pc, task, scheduled>>
      PROVE  LogInv'
  BY <1>1, StillLogged DEF LogInv
<1>2. CASE UNCHANGED vars
  BY <1>1, <1>2 DEF vars, store, loopVars, edgeVars
<1>3. ASSUME NEW c \in Clients, ApiWrite(c) \/ \E op \in Ops : ApiRead(c, op)
      PROVE  LogInv'
  BY <1>1, <1>3 DEF ApiWrite, ApiRead, store, loopVars, edgeVars
<1>4. CASE Stop
  BY <1>1, <1>4 DEF Stop, store, loopVars, edgeVars
<1>5. CASE Boot
  <2>1. UNCHANGED <<pc, task>> /\ \A d \in Drives : pc[d] = "idle"
    BY <1>5 DEF Boot, loopVars, DrivesSettle
  <2>2. \A d \in Drives, s \in Steps : task'[d][s].pc = "none"
    BY <2>1, OwnsInLoop DEF InLoop
  <2>. QED
    BY <2>1, <2>2, IdleLogged DEF LogInv, InLoop
<1>6. CASE Exit \/ Crash
  <2>1. Forget /\ NoTask.pc = "none"
    BY <1>6 DEF Exit, Crash, NoTask, Task
  <2>2. \A d \in Drives : pc'[d] = "idle" /\ \A s \in Steps : task'[d][s].pc = "none"
    BY <2>1 DEF Forget
  <2>. QED
    BY <2>2, IdleLogged DEF LogInv, InLoop
<1>7. ASSUME NEW d \in Drives,
             \/ DriveStep(d) \/ Interruption(d) \/ ResumeLoad(d) \/ ResumeAborts(d) \/ Timeout(d)
             \/ \E s \in Steps : TaskStep(d, s) \/ TaskStoreFails(d, s)
      PROVE  LogInv'
  <2>1. LogOf(d)'
    BY <1>7, DriveStepLogged, OtherStepLogged, TaskStepLogged DEF LogInv
  <2>. QED
    BY <2>1 DEF LogInv, OneDrive
<1>. QED
  BY <1>2, <1>3, <1>4, <1>5, <1>6, <1>7 DEF Next

\* The log is empty at first.
LEMMA LogInit == Init => LogInv
BY DEF Init, LogInv, LogOf, LogTask, Active, NoTask, Task, InLoop

\* The abstract log's words for rows and edges are the engine's.
LEMMA LogWords ==
  /\ \A s \in Steps : Log!IsSettled(s) <=> Settled(s)
  /\ \A s \in Steps : Log!Incoming(s) = In(s)
  /\ \A e \in Edges : Log!Dead(e) <=> Closed(e)
BY DEF Log!IsSettled, Log!HasRow, Settled, HasRow, Log!Incoming, In, Log!Dead, Closed

\* A step that writes no row is a change of state of the instance, or nothing.
LEMMA StateRefines ==
  ASSUME TypeInv', SafetyInv', UNCHANGED <<rows, cond>>
  PROVE  [Log!LogNext]_(Log!logVars)
<1>1. CASE UNCHANGED inst
  BY <1>1 DEF Log!logVars
<1>2. CASE inst' # inst
  <2>1. inst' \in InstStates
    BY DEF TypeInv, TypeOK
  <2>2. inst' = "COMPLETED" => \A s \in Steps : Settled(s)
    BY DEF SafetyInv, CompletedMeansSettled, Settled, HasRow
  <2>3. Log!SetState(inst')
    BY <2>2, LogWords DEF Log!SetState
  <2>. QED
    BY <2>1, <2>3 DEF Log!LogNext
<1>. QED
  BY <1>1, <1>2

\* A cancellation, by a drive or by the boot sweep.
LEMMA CancelRefines ==
  ASSUME TypeInv, NEW S \in SUBSET Steps, rows' = CancelRows(S), inst' \in {inst, "PAUSED"},
         UNCHANGED cond
  PROVE  Log!LogNext
<1>1. \A s \in Steps : \A i \in DOMAIN rows[s] :
        Attempt(rows[s][i].attempt, "CANCELLED") = [rows[s][i] EXCEPT !.state = "CANCELLED"]
  <2>1. ASSUME NEW r \in RowType
        PROVE  Attempt(r.attempt, "CANCELLED") = [r EXCEPT !.state = "CANCELLED"]
    BY DEF RowType, Attempt
  <2>2. \A s \in Steps : \A i \in DOMAIN rows[s] : rows[s][i] \in RowType
    BY RowsType DEF TypeInv
  <2>. QED
    BY <2>1, <2>2
<1>2. CancelRows(S) = Log!Cancelled(S)
  BY <1>1 DEF CancelRows, Log!Cancelled
<1>3. Log!CancelAttempts
  BY <1>2 DEF Log!CancelAttempts
<1>. QED
  BY <1>3 DEF Log!LogNext

\* A task creates its attempt: the next one of the log.
LEMMA CreateRefines ==
  ASSUME TypeInv, SafetyInv, LogInv, NEW d \in Drives, NEW s \in Steps, TaskCreate(d, s)
  PROVE  Log!LogNext
<1> DEFINE n == task[d][s].attempt
<1>1. /\ rows' = [rows EXCEPT ![s] = Append(@, [attempt |-> n, state |-> "RUNNING"])]
      /\ UNCHANGED <<inst, cond>> /\ task[d][s].pc = "create"
  BY DEF TaskCreate, TaskAt, Attempt
<1>2. n \in 1 .. Len(rows[s]) + 1
  BY <1>1 DEF TypeInv, Numbered, NumberedTask
<1>3. /\ \A i \in DOMAIN rows[s] : rows[s][i].attempt < n
      /\ ~Settled(s)
  BY <1>1 DEF LogInv, LogOf, LogTask, Active, Settled, HasRow
<1>4. \A e \in In(s) : Settled(e[1])
  BY <1>1 DEF SafetyInv, DriveInv
<1>. HIDE DEF n
<1>5. ~Log!IsSettled(s) /\ \A e \in Log!Incoming(s) : Log!IsSettled(e[1])
  BY <1>3, <1>4, LogWords, EdgeEnds DEF In
<1>6. Log!BeginAttempt(s)
  BY <1>1, <1>2, <1>3, <1>5 DEF Log!BeginAttempt
<1>. QED
  BY <1>6 DEF Log!LogNext

\* An attempt ends that was in RUNNING.
LEMMA EndRefines ==
  ASSUME TypeInv, LogInv, NEW d \in Drives, NEW s \in Steps, Owns(d, s),
         NEW st \in {"COMPLETED", "FAILED"}, SetRow(s, task[d][s].row, st), UNCHANGED <<inst, cond>>
  PROVE  Log!LogNext
<1> DEFINE j == task[d][s].row
<1>1. j \in DOMAIN rows[s] /\ rows[s][j].state = "RUNNING"
  BY OwnedRow DEF LogInv, LogOf, LogTask, Owns
<1>2. rows[s][j] \in RowType
  BY <1>1, RowsType DEF TypeInv
<1>3. Attempt(rows[s][j].attempt, st) = [rows[s][j] EXCEPT !.state = st]
  BY <1>2 DEF RowType, Attempt
<1>4. rows' = [rows EXCEPT ![s][j] = [rows[s][j] EXCEPT !.state = st]]
  BY <1>3 DEF SetRow
<1>. HIDE DEF j
<1>5. rows' = [rows EXCEPT ![s][j].state = st]
  BY <1>4
<1>6. Log!EndAttempt(s, j)
  BY <1>1, <1>5 DEF Log!EndAttempt
<1>. QED
  BY <1>1, <1>6 DEF Log!LogNext

\* A skip: every way in is dead, and the step has no row yet.
LEMMA SkipRefines ==
  ASSUME TypeInv, LogInv, TasksInLoop, NEW d \in Drives, pc[d] \in InLoop, NEW s \in Steps,
         s \notin scheduled[d], In(s) # {}, \A e \in In(s) : Closed(e),
         rows' = [rows EXCEPT ![s] = Append(@, Attempt(1, "SKIPPED"))], UNCHANGED <<inst, cond>>
  PROVE  Log!LogNext
<1>1. rows[s] = << >>
  BY Unscheduled DEF LogInv
<1>2. rows' = [rows EXCEPT ![s] = <<[attempt |-> 1, state |-> "SKIPPED"]>>]
  BY <1>1 DEF Attempt
<1>3. Log!Incoming(s) # {} /\ \A e \in Log!Incoming(s) : Log!Dead(e)
  BY LogWords DEF In
<1>4. Log!Skip(s)
  BY <1>1, <1>2, <1>3 DEF Log!Skip
<1>. QED
  BY <1>4 DEF Log!LogNext

\* An edge is resolved: a skip, or nothing that the log sees.
LEMMA EdgeRefines ==
  ASSUME TypeInv, TypeInv', SafetyInv, SafetyInv', LogInv, TasksInLoop, NEW d \in Drives,
         NEW e \in Edges, EvalEdge(d, e) \/ SkipEdge(d, e)
  PROVE  [Log!LogNext]_(Log!logVars)
<1>1. pc[d] \in InLoop /\ e[2] \in Steps /\ e \in In(e[2]) /\ UNCHANGED <<inst, cond>>
  BY EdgeEnds DEF EvalEdge, SkipEdge, At, InLoop
<1>2. CASE UNCHANGED rows
  BY <1>1, <1>2, StateRefines
<1>3. ASSUME NEW res, NEW act, NEW queue, ScheduleOrSkip(d, e[2], res, act, queue),
             \A f \in res \ act : Closed(f)
      PROVE  [Log!LogNext]_(Log!logVars)
  <2>1. \/ UNCHANGED rows
        \/ /\ In(e[2]) \subseteq res /\ e[2] \notin scheduled[d] /\ In(e[2]) \cap act = {}
           /\ rows' = [rows EXCEPT ![e[2]] = Append(@, Attempt(1, "SKIPPED"))]
    BY <1>1, <1>3, ScheduleOrSkipCases DEF TypeInv
  <2>2. CASE /\ In(e[2]) \subseteq res /\ e[2] \notin scheduled[d] /\ In(e[2]) \cap act = {}
             /\ rows' = [rows EXCEPT ![e[2]] = Append(@, Attempt(1, "SKIPPED"))]
    <3>1. In(e[2]) # {} /\ \A f \in In(e[2]) : Closed(f)
      BY <1>1, <1>3, <2>2
    <3>. QED
      BY <1>1, <2>2, <3>1, SkipRefines
  <2>. QED
    BY <1>2, <2>1, <2>2
<1>4. \A f \in resolved[d] \ active[d] : Closed(f)
  BY DEF SafetyInv, DriveInv
<1>5. CASE EvalEdge(d, e)
  <2>1. HasRow(e[1], {"COMPLETED"})
    BY <1>5 DEF EvalEdge, SafetyInv, DriveInv
  <2>2. CASE cond[e] = "error"
    BY <1>2, <1>5, <2>2 DEF EvalEdge
  <2>3. CASE cond[e] # "error"
    <3> DEFINE act == IF cond[e] = "true" THEN active[d] \cup {e} ELSE active[d]
               res == resolved[d] \cup {e}
    <3>1. ScheduleOrSkip(d, e[2], res, act, {})
      BY <1>5, <2>3 DEF EvalEdge
    <3>2. cond[e] \in {"true", "false"}
      BY <2>3 DEF TypeInv, TypeOK, AllOutcomes
    <3>3. \A f \in res \ act : Closed(f)
      BY <1>4, <2>1, <3>2 DEF Closed
    <3>. HIDE DEF act, res
    <3>. QED
      BY <1>3, <3>1, <3>3
  <2>. QED
    BY <2>2, <2>3
<1>6. CASE SkipEdge(d, e)
  <2> DEFINE res == resolved[d] \cup {e}
  <2>1. ScheduleOrSkip(d, e[2], res, active[d], skipQ[d] \ {e})
    BY <1>6 DEF SkipEdge
  <2>2. Closed(e)
    BY <1>6 DEF SkipEdge, SafetyInv, DriveInv, Closed
  <2>3. \A f \in res \ active[d] : Closed(f)
    BY <1>4, <2>2
  <2>. HIDE DEF res
  <2>. QED
    BY <1>3, <2>1, <2>3
<1>. QED
  BY <1>5, <1>6

\* Every step of the engine is a step of the log, or nothing the log sees.
LEMMA StepRefines ==
  ASSUME TypeInv, TypeInv', SafetyInv, SafetyInv', TasksInLoop, LogInv, [Next]_vars
  PROVE  [Log!LogNext]_(Log!logVars)
<1>0. UNCHANGED cond
  BY ResumptionsCount
<1>1. CASE UNCHANGED rows
  BY <1>0, <1>1, StateRefines
<1>2. CASE UNCHANGED vars
  BY <1>1, <1>2 DEF vars, store
<1>3. ASSUME NEW c \in Clients, ApiWrite(c) \/ \E op \in Ops : ApiRead(c, op)
      PROVE  UNCHANGED rows
  BY <1>3 DEF ApiWrite, ApiRead, store
<1>4. CASE Stop \/ Exit \/ Crash
  BY <1>1, <1>4 DEF Stop, Exit, Crash, store
<1>5. CASE Boot
  <2>1. CASE rows' = CancelRows(Steps) /\ inst' = "PAUSED"
    BY <1>0, <2>1, CancelRefines
  <2>. QED
    BY <1>1, <1>5, <2>1 DEF Boot
<1>6. ASSUME NEW d \in Drives,
             \/ Start(d) \/ ResumeWrite(d) \/ ResumeEnter(d) \/ Poll(d) \/ Collect(d) \/ NextTurn(d)
             \/ Mark(d) \/ \E s \in Steps : Examine(d, s)
      PROVE  UNCHANGED rows
  BY <1>6 DEF Start, ResumeWrite, ResumeEnter, Poll, Collect, NextTurn, Mark, Examine, store
<1>7. ASSUME NEW d \in Drives, CancelPending(d)
      PROVE  Log!LogNext
  <2>1. rows' = CancelRows(InProgress(d)) /\ inst' = inst
    BY <1>7 DEF CancelPending
  <2>2. InProgress(d) \in SUBSET Steps
    BY DEF InProgress
  <2>. QED
    BY <1>0, <2>1, <2>2, CancelRefines
<1>8. ASSUME NEW d \in Drives, NEW e \in Edges, EvalEdge(d, e) \/ SkipEdge(d, e)
      PROVE  [Log!LogNext]_(Log!logVars)
  BY <1>8, EdgeRefines
<1>9. ASSUME NEW d \in Drives, DriveStep(d)
      PROVE  [Log!LogNext]_(Log!logVars)
  BY <1>1, <1>6, <1>7, <1>8, <1>9 DEF DriveStep
<1>10. ASSUME NEW d \in Drives, Interruption(d) \/ ResumeLoad(d) \/ ResumeAborts(d) \/ Timeout(d)
       PROVE  UNCHANGED rows
  BY <1>10 DEF Interruption, Interrupt, InterruptOutside, InterruptCancel, ResumeLoad, ResumeAborts,
               Timeout, store
<1>11. ASSUME NEW d \in Drives, NEW s \in Steps, TaskStep(d, s) \/ TaskStoreFails(d, s)
       PROVE  [Log!LogNext]_(Log!logVars)
  <2>1. CASE TaskBegin(d, s) \/ TaskRan(d, s) \/ TaskStoreFails(d, s)
    BY <1>1, <2>1 DEF TaskBegin, TaskRan, TaskStoreFails, store
  <2>2. CASE TaskCreate(d, s)
    BY <2>2, CreateRefines
  <2>3. CASE TaskSave(d, s) \/ TaskFailed(d, s)
    <3>1. /\ Owns(d, s) /\ UNCHANGED inst
          /\ \E st \in {"COMPLETED", "FAILED"} : SetRow(s, task[d][s].row, st)
      BY <2>3 DEF TaskSave, TaskFailed, TaskAt, Owns
    <3>. QED
      BY <1>0, <3>1, EndRefines
  <2>. QED
    BY <1>11, <2>1, <2>2, <2>3 DEF TaskStep
<1>. QED
  BY <1>1, <1>2, <1>3, <1>4, <1>5, <1>9, <1>10, <1>11 DEF Next

\* The initial states are initial states of the log.
LEMMA InitRefines == Init => Log!LogInit
<1>. SUFFICES ASSUME Init PROVE Log!LogInit
  OBVIOUS
<1>1. Outcomes \cup {"true"} \subseteq {"true", "false", "error"}
  BY ParameterAssumption DEF AllOutcomes
<1>2. cond \in [Edges -> {"true", "false", "error"}]
  BY <1>1 DEF Init
<1>. QED
  BY <1>2 DEF Init, Log!LogInit

\* With at most one drive at a time the rows and the instance state behave as
\* the immutable-attempt log, whatever the graph, the retries, the requests,
\* the faults, the shutdowns and the crashes: the log only grows, attempt
\* numbers increase, nothing follows a settled step, no terminal row is
\* rewritten.
THEOREM AttemptLogImplemented == OneDrive => (Spec => ImplementsAttemptLog)
<1> DEFINE Inv == TypeInv /\ SafetyInv /\ QuietInv /\ LogInv
<1>1. Init => Inv
  BY TypeInit, SafetyInit, QuietInit, LogInit
<1>2. ASSUME OneDrive
      PROVE  Inv /\ [Next]_vars => Inv'
  <2>1. TypeInv /\ SafetyInv /\ QuietInv /\ [Next]_vars => TypeInv' /\ SafetyInv' /\ QuietInv'
    BY TypeStep, SafetyStep, TasksStep, SettlesStep, RunsStep DEF QuietInv
  <2>2. TypeInv /\ SafetyInv /\ QuietInv /\ LogInv /\ [Next]_vars => LogInv'
    BY <1>2, LogStep DEF SafetyInv, QuietInv
  <2>. QED
    BY <2>1, <2>2
<1>3. Inv /\ Inv' /\ [Next]_vars => [Log!LogNext]_(Log!logVars)
  BY StepRefines DEF QuietInv
<1>. HIDE DEF Inv
<1>4. ASSUME OneDrive
      PROVE  Spec => ImplementsAttemptLog
  <2>1. Inv /\ [Next]_vars => Inv'
    BY <1>2, <1>4
  <2>. QED
    BY <1>1, <1>3, <2>1, InitRefines, PTL DEF Spec, ImplementsAttemptLog, Log!LogSpec
<1>. QED
  BY <1>4
=============================================================================
