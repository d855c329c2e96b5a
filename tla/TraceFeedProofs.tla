--------------------------- MODULE TraceFeedProofs ---------------------------
(***************************************************************************)
(* Theorems about TraceFeed, for any number of entries, organizations,     *)
(* writers, connections and faults, and any length of the queues.          *)
(***************************************************************************)
EXTENDS TraceFeed, TLAPS

-----------------------------------------------------------------------------
(***************************************************************************)
(* The inductive invariant.                                                *)

Pending(e) == \E w \in Writers : writer[w] # Idle /\ writer[w].id = e
InQueue(s, e) == \E i \in 1 .. Len(queue[s]) : queue[s][i].id = e
Sent(s, e) == \E f \in sent : f.to = s /\ f.id = e
Touched(s, e) == release[s][e] # "none" \/ access[s][e] # "none" \/ Sent(s, e)

\* An entry is written by one call, and what waits to be appended is new; the
\* raw that appending would cut off is in the vault by then.
WriterInv ==
  /\ \A v, w \in Writers : v # w /\ writer[v] # Idle /\ writer[w] # Idle => writer[v].id # writer[w].id
  /\ \A w \in Writers :
       /\ writer[w].pc \in {"vault", "append"} => log[writer[w].id] = Absent
       /\ writer[w].pc = "publish" => log[writer[w].id] # Absent
       /\ writer[w].pc = "append" /\ safeOnly /\ writer[w].raw => writer[w].id \in vault \cup deleted

\* A connection meets an entry at most once: in its queue, then in hand, then
\* done with.
Once(s) ==
  /\ \A e \in Entries :
       /\ InQueue(s, e) \/ InHand(s, e) \/ Touched(s, e) => log[e] # Absent /\ ~Pending(e)
       /\ InQueue(s, e) => ~InHand(s, e) /\ ~Touched(s, e)
       /\ InHand(s, e) => ~Sent(s, e)
  /\ \A i, j \in 1 .. Len(queue[s]) : i # j => queue[s][i].id # queue[s][j].id

OnceInv == \A s \in Sockets : Once(s)

\* What a frame in hand has on record, place by place.
Frames(c, r, a, stamped, lost) ==
  /\ c.pc \in {"check", "begin"} => r = "none" /\ a = "none" /\ (c.full <=> ~stamped)
  /\ c.pc = "access" => r = "attempted" /\ a = "none" /\ stamped
  /\ c.pc \in {"fetch", "complete"} => r = "attempted" /\ a = "attempted"
  /\ c.pc = "commit" =>
       /\ r = "attempted" /\ (c.full /\ stamped => a # "none")
       /\ ~lost => a # "attempted" /\ (a = "failed" => ~c.full)
  /\ c.pc = "send" =>
       /\ c.full => r = "released" /\ (stamped => a # "none")
       /\ ~lost => /\ r # "attempted" /\ a # "attempted" /\ (r = "released" <=> c.full)
                   /\ a = "failed" => r = "retrieval_failed"

FrameAt(s) ==
  Frames(conn[s], release[s][conn[s].id], access[s][conn[s].id],
         log[conn[s].id].stamped, conn[s].id \in cut[s])

\* The grant has covered the subscriber while the frame was in hand.
Covering(s) ==
  /\ conn[s].pc \in {"begin", "access", "fetch", "complete", "commit"} => conn[s].fresh
  /\ covered[s] \/ (conn[s].pc = "send" /\ conn[s].full) => conn[s].fresh

FrameInv == \A s \in Sockets : conn[s].pc \in FramePlaces => FrameAt(s) /\ Covering(s)

IInv ==
  /\ TypeOK /\ WriterInv /\ OnceInv /\ FrameInv
  /\ NothingLostAtRest /\ RawLeavesOnRecord /\ RevocationStopsRaw /\ RecordsAreTrue

-----------------------------------------------------------------------------
(* Types.                                                                  *)

Releases  == {"none", "attempted", "released", "retrieval_failed"}
Accesses  == {"none", "attempted", "succeeded", "failed"}
FrameType == [pc: FramePlaces, id: Entries, full: BOOLEAN, fresh: BOOLEAN]

\* A connection has a frame in hand, or is one of two constants.
LEMMA ConnFacts ==
  ASSUME TypeOK, NEW s \in Sockets
  PROVE  /\ conn[s] \in ConnType
         /\ conn[s] = Closed <=> conn[s].pc = "closed"
         /\ conn[s].pc \in FramePlaces <=> conn[s].pc \notin {"closed", "wait"}
         /\ conn[s].pc \in FramePlaces => conn[s] \in FrameType
         /\ \A e : InHand(s, e) <=> conn[s].pc \in FramePlaces /\ conn[s].id = e
BY DEF TypeOK, ConnType, FramePlaces, FrameType, Closed, Waiting, InHand

\* A fault stays within its bound.
LEMMA FaultFacts ==
  ASSUME TypeOK, Fault \/ UNCHANGED faults
  PROVE  faults' \in 0 .. MaxFaults
BY FeedAssumption DEF Fault, TypeOK

\* A socket that moves on within its frame.
LEMMA GotoFacts ==
  ASSUME TypeOK, NEW s \in Sockets, conn[s].pc \in FramePlaces, NEW p \in FramePlaces, Goto(s, p)
  PROVE  /\ conn' \in [Sockets -> ConnType] /\ conn'[s] \in FrameType
         /\ conn'[s].pc = p /\ conn'[s].id = conn[s].id
         /\ conn'[s].full = conn[s].full /\ conn'[s].fresh = conn[s].fresh
         /\ \A t \in Sockets \ {s} : conn'[t] = conn[t]
<1> DEFINE c == [conn[s] EXCEPT !.pc = p]
<1>1. conn[s] \in FrameType
  BY ConnFacts
<1>2. /\ c \in FrameType /\ c.pc = p /\ c.id = conn[s].id
      /\ c.full = conn[s].full /\ c.fresh = conn[s].fresh
  BY <1>1 DEF FrameType, FramePlaces
<1>3. conn' = [conn EXCEPT ![s] = c] /\ conn \in [Sockets -> ConnType]
  BY DEF Goto, TypeOK
<1> HIDE DEF c
<1>4. c \in ConnType
  BY <1>2 DEF FrameType, ConnType
<1>. QED
  BY <1>2, <1>3, <1>4

\* A socket that moves on with a full or an empty frame in hand.
LEMMA HoldFacts ==
  ASSUME TypeOK, NEW s \in Sockets, conn[s].pc \in FramePlaces,
         NEW p \in FramePlaces, NEW b \in BOOLEAN, Hold(s, p, b)
  PROVE  /\ conn' \in [Sockets -> ConnType] /\ conn'[s] \in FrameType
         /\ conn'[s].pc = p /\ conn'[s].id = conn[s].id
         /\ conn'[s].full = b /\ conn'[s].fresh = conn[s].fresh
         /\ \A t \in Sockets \ {s} : conn'[t] = conn[t]
<1> DEFINE c == [conn[s] EXCEPT !.pc = p, !.full = b]
<1>1. conn[s] \in FrameType
  BY ConnFacts
<1>2. /\ c \in FrameType /\ c.pc = p /\ c.id = conn[s].id
      /\ c.full = b /\ c.fresh = conn[s].fresh
  BY <1>1 DEF FrameType, FramePlaces
<1>3. conn' = [conn EXCEPT ![s] = c] /\ conn \in [Sockets -> ConnType]
  BY DEF Hold, TypeOK
<1> HIDE DEF c
<1>4. c \in ConnType
  BY <1>2 DEF FrameType, ConnType
<1>. QED
  BY <1>2, <1>3, <1>4

\* A record of one frame leaves those of the others alone.
LEMMA RecordFacts ==
  ASSUME TypeOK, NEW s \in Sockets, conn[s].pc \in FramePlaces, NEW S, NEW r \in S,
         NEW table \in [Sockets -> [Entries -> S]]
  PROVE  /\ Record(table, s, r) \in [Sockets -> [Entries -> S]]
         /\ Record(table, s, r)[s][conn[s].id] = r
         /\ \A t \in Sockets, e \in Entries :
              t # s \/ e # conn[s].id => Record(table, s, r)[t][e] = table[t][e]
BY ConnFacts DEF Record, FrameType

-----------------------------------------------------------------------------
(* The steps between taking a frame and sending it have one shape.         *)

Mid(s) == Check(s) \/ Begin(s) \/ Access(s) \/ Fetch(s) \/ Complete(s) \/ Commit(s)

Shape(s) ==
  /\ conn[s] \in FrameType /\ conn' \in [Sockets -> ConnType] /\ conn'[s] \in FrameType
  /\ conn'[s].id = conn[s].id /\ conn'[s].fresh = conn[s].fresh
  /\ \A t \in Sockets \ {s} : conn'[t] = conn[t]
  /\ release' \in [Sockets -> [Entries -> Releases]] /\ access' \in [Sockets -> [Entries -> Accesses]]
  /\ \A t \in Sockets, e \in Entries :
       t # s \/ e # conn[s].id => release'[t][e] = release[t][e] /\ access'[t][e] = access[t][e]
  /\ cut' \in [Sockets -> SUBSET Entries] /\ \A t \in Sockets \ {s} : cut'[t] = cut[t]
  /\ cut'[s] \in {cut[s], cut[s] \cup {conn[s].id}}
  /\ faults' \in 0 .. MaxFaults
  /\ UNCHANGED <<vault, log, covered, deleted, safeOnly, writer, queue, scope, sent>>

\* Such a step goes on from a frame whose grant covers, or sends it projected.
Onward(s) ==
  /\ conn[s].pc # "send" /\ conn'[s].pc # "check"
  /\ conn'[s].pc = "send" /\ conn'[s].full => conn[s].pc = "commit"
  /\ conn[s].pc = "check" /\ conn'[s].pc # "send" => covered[s]

\* A cut adds the entry in hand and no other.
LEMMA CutFacts ==
  ASSUME TypeOK, NEW s \in Sockets, conn[s].pc \in FramePlaces, Cut(s) \/ UNCHANGED cut
  PROVE  /\ cut' \in [Sockets -> SUBSET Entries] /\ \A t \in Sockets \ {s} : cut'[t] = cut[t]
         /\ cut'[s] \in {cut[s], cut[s] \cup {conn[s].id}}
         /\ Cut(s) => conn[s].id \in cut'[s]
         /\ UNCHANGED cut => cut'[s] = cut[s]
<1>1. conn[s].id \in Entries
  BY ConnFacts DEF FrameType
<1>2. cut \in [Sockets -> SUBSET Entries]
  BY DEF TypeOK
<1>3. Cut(s) => conn[s].id \in cut'[s]
  BY <1>2 DEF Cut
<1>4. CASE UNCHANGED cut
  BY <1>2, <1>3, <1>4
<1>5. CASE Cut(s)
  BY <1>1, <1>2, <1>5 DEF Cut
<1>. QED
  BY <1>4, <1>5

\* One turn: the frame is in place p, and the records of its entry on this
\* connection read r and a.
Moves(s, p) ==
  /\ conn' \in [Sockets -> ConnType] /\ conn'[s] \in FrameType
  /\ conn'[s].pc = p /\ conn'[s].id = conn[s].id
  /\ conn'[s].fresh = conn[s].fresh
  /\ \A t \in Sockets \ {s} : conn'[t] = conn[t]

Writes(s, r, a) ==
  /\ release' \in [Sockets -> [Entries -> Releases]] /\ access' \in [Sockets -> [Entries -> Accesses]]
  /\ release'[s][conn[s].id] = r /\ access'[s][conn[s].id] = a
  /\ \A t \in Sockets, e \in Entries :
       t # s \/ e # conn[s].id => release'[t][e] = release[t][e] /\ access'[t][e] = access[t][e]

Turn(s, p, r, a) ==
  /\ Moves(s, p) /\ Writes(s, r, a) /\ faults' \in 0 .. MaxFaults
  /\ UNCHANGED <<vault, log, covered, deleted, safeOnly, writer, queue, scope, sent>>

\* A turn of a socket has the shape the invariants read.
LEMMA TurnFacts ==
  ASSUME TypeOK, NEW s \in Sockets, conn[s].pc \in FramePlaces,
         NEW p, NEW r, NEW a, Turn(s, p, r, a), Cut(s) \/ UNCHANGED cut
  PROVE  Shape(s)
<1>1. conn[s] \in FrameType
  BY ConnFacts
<1>. QED
  BY <1>1, CutFacts DEF Turn, Moves, Writes, Shape

\* A step in the middle of a frame.
LEMMA MidFacts ==
  ASSUME TypeOK, NEW s \in Sockets, Mid(s)
  PROVE  Shape(s) /\ Onward(s) /\ (FrameAt(s) => FrameAt(s)')
<1> DEFINE r0 == release[s][conn[s].id]
           a0 == access[s][conn[s].id]
           f0 == conn[s].full
           r1 == release'[s][conn[s].id]
           a1 == access'[s][conn[s].id]
           same == Fault \/ UNCHANGED faults
<1>1. conn[s].pc \in FramePlaces /\ conn[s] \in FrameType
  <2>1. conn[s].pc \in FramePlaces
    BY DEF Mid, Check, Begin, Access, Fetch, Complete, Commit, FramePlaces, At
  <2>. QED
    BY <2>1, ConnFacts
<1>2. /\ release \in [Sockets -> [Entries -> Releases]] /\ access \in [Sockets -> [Entries -> Accesses]]
      /\ conn[s].id \in Entries /\ f0 \in BOOLEAN
  BY <1>1 DEF TypeOK, Releases, Accesses, FrameType
<1>3. \A p \in FramePlaces : Goto(s, p) => Moves(s, p) /\ conn'[s].full = f0
  BY <1>1, GotoFacts DEF Moves
<1>4. \A p \in FramePlaces :
        /\ Hold(s, p, FALSE) => Moves(s, p) /\ ~conn'[s].full
        /\ Hold(s, p, TRUE) => Moves(s, p) /\ conn'[s].full
  BY <1>1, HoldFacts DEF Moves
<1>5. \A r \in Releases : release' = Record(release, s, r) /\ UNCHANGED access => Writes(s, r, a0)
  BY <1>1, <1>2, RecordFacts DEF Writes
<1>6. \A a \in Accesses : access' = Record(access, s, a) /\ UNCHANGED release => Writes(s, r0, a)
  BY <1>1, <1>2, RecordFacts DEF Writes
<1>7. UNCHANGED <<release, access>> => Writes(s, r0, a0)
  BY <1>2 DEF Writes
<1>8. same => faults' \in 0 .. MaxFaults
  BY FaultFacts
<1>9. /\ {"check", "begin", "access", "fetch", "complete", "commit", "send"} \subseteq FramePlaces
      /\ {"none", "attempted", "released", "retrieval_failed"} \subseteq Releases
      /\ {"none", "attempted", "succeeded", "failed"} \subseteq Accesses
      /\ r0 \in Releases /\ a0 \in Accesses
  BY <1>2 DEF FramePlaces, Releases, Accesses
<1>10. /\ UNCHANGED cut => cut'[s] = cut[s]
       /\ Cut(s) => conn[s].id \in cut'[s]
  BY <1>1, CutFacts
<1>11. \A p, r, a : Turn(s, p, r, a) =>
         conn'[s].pc = p /\ conn'[s].id = conn[s].id /\ log' = log
         /\ release'[s][conn[s].id] = r /\ access'[s][conn[s].id] = a
  BY DEF Turn, Moves, Writes
<1>12. \A p, r, a : Turn(s, p, r, a) /\ (Cut(s) \/ UNCHANGED cut) => Shape(s)
  BY <1>1, TurnFacts
<1>13. CASE Check(s)
  <2>1. \/ covered[s] /\ conn'[s].full = f0 /\ Turn(s, "begin", r0, a0)
        \/ ~conn'[s].full /\ Turn(s, "send", r0, a0)
    BY <1>13, <1>3, <1>4, <1>7, <1>8, <1>9 DEF Check, Turn, database
  <2>2. conn[s].pc = "check" /\ UNCHANGED cut
    BY <1>13 DEF Check, At
  <2>. QED
    BY <2>1, <2>2, <1>10, <1>11, <1>12 DEF Onward, FrameAt, Frames
<1>14. CASE Begin(s)
  <2>1. \/ /\ UNCHANGED cut
           /\ \/ log[conn[s].id].stamped /\ conn'[s].full = f0 /\ Turn(s, "access", "attempted", a0)
              \/ ~log[conn[s].id].stamped /\ conn'[s].full = f0 /\ Turn(s, "commit", "attempted", a0)
        \/ Cut(s) /\ \E r \in Releases : ~conn'[s].full /\ Turn(s, "send", r, a0)
    <3>1. CASE release' = Record(release, s, "attempted") /\ UNCHANGED <<cut, faults>>
               /\ Goto(s, IF log[conn[s].id].stamped THEN "access" ELSE "commit")
      BY <3>1, <1>14, <1>3, <1>5, <1>8, <1>9 DEF Begin, Turn
    <3>2. CASE Fault /\ Cut(s) /\ release' \in {release, Record(release, s, "attempted")}
               /\ Hold(s, "send", FALSE)
      BY <3>2, <1>14, <1>4, <1>5, <1>7, <1>8, <1>9 DEF Begin, Turn
    <3>. QED
      BY <3>1, <3>2, <1>14 DEF Begin
  <2>2. conn[s].pc = "begin"
    BY <1>14 DEF Begin, At
  <2>4. \/ /\ conn[s].id \in cut'[s] /\ conn'[s].pc = "send" /\ ~conn'[s].full
           /\ a1 = a0
        \/ /\ cut'[s] = cut[s] /\ conn'[s].full = f0 /\ a1 = a0 /\ r1 = "attempted"
           /\ \/ log[conn[s].id].stamped /\ conn'[s].pc = "access"
              \/ ~log[conn[s].id].stamped /\ conn'[s].pc = "commit"
    BY <2>1, <1>10, <1>11
  <2>5. Shape(s)
    BY <2>1, <1>12
  <2>6. Onward(s)
    BY <2>2, <2>4 DEF Onward
  <2>7. conn'[s].id = conn[s].id /\ log' = log
    BY <2>1, <1>11
  <2>8. FrameAt(s) => FrameAt(s)'
    BY <2>2, <1>2, <2>4, <2>7, <1>2 DEF FrameAt, Frames
  <2>. QED
    BY <2>5, <2>6, <2>8
<1>15. CASE Access(s)
  <2>1. \/ /\ UNCHANGED cut
           /\ \/ ~conn'[s].full /\ Turn(s, "commit", r0, a0)
              \/ conn'[s].full = f0 /\ Turn(s, "fetch", r0, "attempted")
        \/ Cut(s) /\ \E a \in Accesses : ~conn'[s].full /\ Turn(s, "commit", r0, a)
    <3>1. CASE Hold(s, "commit", FALSE) /\ UNCHANGED <<access, cut, faults>>
      BY <3>1, <1>15, <1>4, <1>7, <1>8, <1>9 DEF Access, Turn
    <3>2. CASE access' = Record(access, s, "attempted") /\ Goto(s, "fetch") /\ UNCHANGED <<cut, faults>>
      BY <3>2, <1>15, <1>3, <1>6, <1>8, <1>9 DEF Access, Turn
    <3>3. CASE Fault /\ Cut(s) /\ access' \in {access, Record(access, s, "attempted")}
               /\ Hold(s, "commit", FALSE)
      BY <3>3, <1>15, <1>4, <1>6, <1>7, <1>8, <1>9 DEF Access, Turn
    <3>. QED
      BY <3>1, <3>2, <3>3, <1>15 DEF Access
  <2>2. conn[s].pc = "access"
    BY <1>15 DEF Access, At
  <2>4. \/ /\ conn[s].id \in cut'[s] /\ conn'[s].pc = "commit" /\ ~conn'[s].full /\ r1 = r0
        \/ /\ cut'[s] = cut[s] /\ r1 = r0
           /\ \/ conn'[s].pc = "commit" /\ ~conn'[s].full /\ a1 = a0
              \/ conn'[s].pc = "fetch" /\ a1 = "attempted"
    BY <2>1, <1>10, <1>11
  <2>5. Shape(s)
    BY <2>1, <1>12
  <2>6. Onward(s)
    BY <2>2, <2>4 DEF Onward
  <2>7. conn'[s].id = conn[s].id /\ log' = log
    BY <2>1, <1>11
  <2>8. FrameAt(s) => FrameAt(s)'
    BY <2>2, <2>4, <2>7, <1>2 DEF FrameAt, Frames
  <2>. QED
    BY <2>5, <2>6, <2>8
<1>16. CASE Fetch(s)
  <2>1. UNCHANGED cut /\ Turn(s, "complete", r0, a0)
    BY <1>16, <1>4, <1>7, <1>8, <1>9 DEF Fetch, Turn, database
  <2>2. conn[s].pc = "fetch"
    BY <1>16 DEF Fetch, At
  <2>4. cut'[s] = cut[s] /\ conn'[s].pc = "complete" /\ r1 = r0 /\ a1 = a0
    BY <2>1, <1>10, <1>11
  <2>5. Shape(s)
    BY <2>1, <1>12
  <2>6. Onward(s)
    BY <2>2, <2>4 DEF Onward
  <2>7. conn'[s].id = conn[s].id /\ log' = log
    BY <2>1, <1>11
  <2>8. FrameAt(s) => FrameAt(s)'
    BY <2>2, <2>4, <2>7, <1>2 DEF FrameAt, Frames
  <2>. QED
    BY <2>5, <2>6, <2>8
<1>17. CASE Complete(s)
  <2>1. \/ UNCHANGED cut /\ conn'[s].full = f0 /\ Turn(s, "commit", r0, IF f0 THEN "succeeded" ELSE "failed")
        \/ Cut(s) /\ conn'[s].full = f0 /\ Turn(s, "commit", r0, a0)
    BY <1>17, <1>3, <1>6, <1>7, <1>8, <1>9 DEF Complete, Turn
  <2>2. conn[s].pc = "complete"
    BY <1>17 DEF Complete, At
  <2>. QED
    BY <2>1, <2>2, <1>10, <1>11, <1>12 DEF Onward, FrameAt, Frames
<1>18. CASE Commit(s)
  <2>1. \/ UNCHANGED cut /\ conn'[s].full = f0 /\ Turn(s, "send", Outcome(s), a0)
        \/ Cut(s) /\ \E r \in Releases : ~conn'[s].full /\ Turn(s, "send", r, a0)
    <3>1. Outcome(s) \in Releases
      BY <1>9 DEF Outcome
    <3>2. CASE release' = Record(release, s, Outcome(s)) /\ Goto(s, "send") /\ UNCHANGED <<cut, faults>>
      BY <3>1, <3>2, <1>18, <1>3, <1>5, <1>8, <1>9 DEF Commit, Turn
    <3>3. CASE Fault /\ Cut(s) /\ release' \in {release, Record(release, s, Outcome(s))}
               /\ Hold(s, "send", FALSE)
      BY <3>1, <3>3, <1>18, <1>4, <1>5, <1>7, <1>8, <1>9 DEF Commit, Turn
    <3>. QED
      BY <3>2, <3>3, <1>18 DEF Commit
  <2>2. conn[s].pc = "commit"
    BY <1>18 DEF Commit, At
  <2>3. Outcome(s) = IF f0 THEN "released" ELSE "retrieval_failed"
    BY DEF Outcome
  <2>4. \/ /\ conn[s].id \in cut'[s] /\ conn'[s].pc = "send" /\ ~conn'[s].full
        \/ /\ cut'[s] = cut[s] /\ conn'[s].pc = "send" /\ conn'[s].full = f0
           /\ r1 = Outcome(s) /\ a1 = a0
    BY <2>1, <1>10, <1>11
  <2>5. Shape(s)
    BY <2>1, <1>12
  <2>6. Onward(s)
    BY <2>2, <2>4 DEF Onward
  <2>7. conn'[s].id = conn[s].id /\ log' = log
    BY <2>1, <1>11
  <2>8. FrameAt(s) => FrameAt(s)'
    BY <2>2, <2>3, <1>2, <2>4, <2>7, <1>2 DEF FrameAt, Frames
  <2>. QED
    BY <2>5, <2>6, <2>8
<1>. QED
  BY <1>13, <1>14, <1>15, <1>16, <1>17, <1>18 DEF Mid

-----------------------------------------------------------------------------
(* Type correctness.                                                       *)

LocalType == [pc: {"vault", "append", "publish"}, id: Entries, org: Orgs \cup {NoOrg}, raw: BOOLEAN]

\* A call of append() that is under way has an entry to write.
LEMMA WriterFacts ==
  ASSUME TypeOK, NEW w \in Writers
  PROVE  /\ writer[w] # Idle <=> writer[w].pc # "idle"
         /\ writer[w] # Idle => writer[w] \in LocalType
         /\ writer[w].pc \in {"vault", "append", "publish"} <=> writer[w] # Idle
BY DEF TypeOK, WriterType, LocalType, Idle

\* The next frame is made of the first event of the queue.
LEMMA TakeFacts ==
  ASSUME TypeOK, NEW s \in Sockets, Take(s)
  PROVE  /\ Len(queue[s]) > 0 /\ queue[s][1] \in Event
         /\ queue' \in [Sockets -> Seq(Event)] /\ \A t \in Sockets \ {s} : queue'[t] = queue[t]
         /\ Len(queue'[s]) = Len(queue[s]) - 1
         /\ \A i \in 1 .. Len(queue'[s]) : queue'[s][i] = queue[s][i + 1]
         /\ conn' \in [Sockets -> ConnType] /\ \A t \in Sockets \ {s} : conn'[t] = conn[t]
         /\ conn[s].pc = "wait"
         /\ \/ conn'[s] = Waiting
            \/ /\ conn'[s] \in FrameType /\ conn'[s].id = queue[s][1].id
               /\ conn'[s].pc \in {"check", "send"}
               /\ conn'[s].pc = "check" <=> log[conn'[s].id].raw
               /\ conn'[s].full <=> log[conn'[s].id].raw /\ ~log[conn'[s].id].stamped
               /\ conn'[s].fresh <=> covered[s]
<1> DEFINE event == Head(queue[s])
           next == Frame(s, event, IF log[event.id].raw THEN "check" ELSE "send")
<1>1. queue \in [Sockets -> Seq(Event)] /\ conn \in [Sockets -> ConnType] /\ queue[s] \in Seq(Event)
      /\ covered \in [Sockets -> BOOLEAN]
  BY DEF TypeOK
<1>2. queue[s] # << >> /\ conn[s].pc = "wait"
  BY DEF Take, At
<1>3. /\ Len(queue[s]) > 0 /\ event = queue[s][1] /\ event \in Event
      /\ Tail(queue[s]) \in Seq(Event) /\ Len(Tail(queue[s])) = Len(queue[s]) - 1
      /\ \A i \in 1 .. Len(Tail(queue[s])) : Tail(queue[s])[i] = queue[s][i + 1]
  BY <1>1, <1>2
<1>4. queue' = [queue EXCEPT ![s] = Tail(queue[s])]
  BY DEF Take
<1>5. /\ next \in FrameType /\ next.id = event.id /\ next.pc \in {"check", "send"}
      /\ next.pc = "check" <=> log[event.id].raw
      /\ next.full <=> log[event.id].raw /\ ~log[event.id].stamped
      /\ next.fresh <=> covered[s]
  BY <1>1, <1>3 DEF Frame, FrameType, FramePlaces, Event
<1>6. conn' = [conn EXCEPT ![s] = IF ~Deliverable(s, event) THEN Waiting ELSE next]
  BY DEF Take
<1>7. Waiting \in ConnType /\ next \in ConnType
  BY <1>5 DEF ConnType, FrameType
<1> HIDE DEF event, next
<1>8. queue' \in [Sockets -> Seq(Event)] /\ queue'[s] = Tail(queue[s])
      /\ \A t \in Sockets \ {s} : queue'[t] = queue[t]
  BY <1>1, <1>3, <1>4
<1>9. /\ conn' \in [Sockets -> ConnType] /\ \A t \in Sockets \ {s} : conn'[t] = conn[t]
      /\ conn'[s] = Waiting \/ conn'[s] = next
  BY <1>1, <1>6, <1>7
<1>. QED
  BY <1>2, <1>3, <1>5, <1>8, <1>9

\* What is published goes last, where there is room.
LEMMA PublishFacts ==
  ASSUME TypeOK, NEW w \in Writers, Publish(w)
  PROVE  /\ queue' \in [Sockets -> Seq(Event)] /\ writer[w] \in LocalType /\ writer[w].pc = "publish"
         /\ \A s \in Sockets :
              \/ queue'[s] = queue[s]
              \/ /\ Len(queue'[s]) = Len(queue[s]) + 1 /\ Len(queue[s]) < QueueSize
                 /\ queue'[s][Len(queue[s]) + 1].id = writer[w].id
                 /\ \A i \in 1 .. Len(queue[s]) : queue'[s][i] = queue[s][i]
<1>1. writer[w] \in LocalType /\ writer[w].pc = "publish"
  BY WriterFacts DEF Publish
<1>2. PICK org \in {writer[w].org, NoOrg} :
        queue' = [s \in Sockets |->
          IF conn[s] # Closed /\ Len(queue[s]) < QueueSize
          THEN Append(queue[s], [id |-> writer[w].id, org |-> org]) ELSE queue[s]]
  BY DEF Publish
<1> DEFINE event == [id |-> writer[w].id, org |-> org]
<1>3. event \in Event /\ event.id = writer[w].id
  BY <1>1 DEF LocalType, Event
<1> HIDE DEF event
<1>4. ASSUME NEW s \in Sockets
      PROVE  /\ queue[s] \in Seq(Event) /\ Append(queue[s], event) \in Seq(Event)
             /\ Len(Append(queue[s], event)) = Len(queue[s]) + 1
             /\ Append(queue[s], event)[Len(queue[s]) + 1] = event
             /\ \A i \in 1 .. Len(queue[s]) : Append(queue[s], event)[i] = queue[s][i]
  BY <1>3 DEF TypeOK
<1>5. queue' = [s \in Sockets |->
        IF conn[s] # Closed /\ Len(queue[s]) < QueueSize THEN Append(queue[s], event) ELSE queue[s]]
  BY <1>2 DEF event
<1>. QED
  BY <1>1, <1>3, <1>4, <1>5

\* Every step keeps the types.
LEMMA TypeStep ==
  ASSUME TypeOK, [Next]_vars
  PROVE  TypeOK'
<1> USE DEF database
<1>1. CASE UNCHANGED vars
  BY <1>1 DEF vars, TypeOK
<1>2. ASSUME NEW w \in Writers, NEW e \in Entries, Write(w, e)
      PROVE  TypeOK'
  <2>1. PICK org \in Orgs \cup {NoOrg}, raw \in BOOLEAN :
          Become(w, [pc |-> IF safeOnly /\ raw THEN "vault" ELSE "append",
                     id |-> e, org |-> org, raw |-> raw])
    BY <1>2 DEF Write
  <2>2. [pc |-> IF safeOnly /\ raw THEN "vault" ELSE "append",
         id |-> e, org |-> org, raw |-> raw] \in WriterType
    BY DEF WriterType
  <2>3. writer' \in [Writers -> WriterType]
    BY <2>1, <2>2 DEF Become, TypeOK
  <2>. QED
    BY <1>2, <2>3 DEF Write, TypeOK
<1>3. ASSUME NEW w \in Writers, Vault(w)
      PROVE  TypeOK'
  <2>1. writer[w] \in LocalType
    BY <1>3, WriterFacts DEF Vault
  <2>2. [writer[w] EXCEPT !.pc = "append"] \in WriterType
    BY <2>1 DEF LocalType, WriterType
  <2>3. writer' \in [Writers -> WriterType]
    BY <1>3, <2>2 DEF Vault, Become, TypeOK
  <2>4. vault' \subseteq Entries
    BY <1>3, <2>1 DEF Vault, LocalType, TypeOK
  <2>. QED
    BY <1>3, <2>3, <2>4 DEF Vault, TypeOK
<1>4. ASSUME NEW w \in Writers, AppendEntry(w)
      PROVE  TypeOK'
  <2>1. writer[w] \in LocalType /\ safeOnly \in BOOLEAN
    BY <1>4, WriterFacts DEF AppendEntry, TypeOK
  <2>2. [writer[w] EXCEPT !.pc = "publish"] \in WriterType /\ Row(w) \in Entry /\ writer[w].id \in Entries
    BY <2>1 DEF LocalType, WriterType, Row, Entry
  <2>3. writer' \in [Writers -> WriterType] /\ log' \in [Entries -> Entry \cup {Absent}]
    BY <1>4, <2>2 DEF AppendEntry, Become, TypeOK
  <2>. QED
    BY <1>4, <2>3 DEF AppendEntry, TypeOK
<1>5. ASSUME NEW w \in Writers, WriteFails(w)
      PROVE  TypeOK'
  <2>1. writer[w] \in LocalType /\ safeOnly \in BOOLEAN
    BY <1>5, WriterFacts DEF WriteFails, TypeOK
  <2>2. Row(w) \in Entry /\ writer[w].id \in Entries
    BY <2>1 DEF LocalType, Row, Entry
  <2>3. vault' \subseteq Entries /\ log' \in [Entries -> Entry \cup {Absent}]
    BY <1>5, <2>2 DEF WriteFails, TypeOK
  <2>4. writer' \in [Writers -> WriterType]
    BY <1>5 DEF WriteFails, Become, WriterType, TypeOK
  <2>5. faults' \in 0 .. MaxFaults
    BY <1>5, FaultFacts DEF WriteFails
  <2>. QED
    BY <1>5, <2>3, <2>4, <2>5 DEF WriteFails, TypeOK
<1>6. ASSUME NEW w \in Writers, Publish(w)
      PROVE  TypeOK'
  <2>1. writer' \in [Writers -> WriterType]
    BY <1>6 DEF Publish, Become, WriterType, TypeOK
  <2>2. faults' \in 0 .. MaxFaults
    BY <1>6, FaultFacts DEF Publish
  <2>3. queue' \in [Sockets -> Seq(Event)]
    BY <1>6, PublishFacts
  <2>4. ASSUME NEW s \in Sockets
        PROVE  Len(queue'[s]) <= QueueSize
    <3>1. Len(queue[s]) \in Nat /\ Len(queue[s]) <= QueueSize
      BY DEF TypeOK
    <3>. QED
      BY <1>6, <3>1, PublishFacts, FeedAssumption
  <2>. QED
    BY <1>6, <2>1, <2>2, <2>3, <2>4 DEF Publish, TypeOK
<1>7. ASSUME NEW s \in Sockets, Connect(s)
      PROVE  TypeOK'
  <2>1. scope' \in [Sockets -> Orgs \cup {All}]
    BY <1>7 DEF Connect, TypeOK
  <2>2. conn' \in [Sockets -> ConnType]
    BY <1>7 DEF Connect, ConnType, TypeOK
  <2>. QED
    BY <1>7, <2>1, <2>2 DEF Connect, TypeOK
<1>8. ASSUME NEW s \in Sockets, Take(s)
      PROVE  TypeOK'
  <2>1. queue' \in [Sockets -> Seq(Event)] /\ conn' \in [Sockets -> ConnType]
    BY <1>8, TakeFacts
  <2>2. ASSUME NEW t \in Sockets
        PROVE  Len(queue'[t]) <= QueueSize
    <3>1. Len(queue[t]) \in Nat /\ Len(queue[t]) <= QueueSize
      BY DEF TypeOK
    <3>2. Len(queue'[t]) = Len(queue[t]) \/ Len(queue'[t]) = Len(queue[t]) - 1
      BY <1>8, TakeFacts
    <3>. QED
      BY <3>1, <3>2, FeedAssumption
  <2>. QED
    BY <1>8, <2>1, <2>2 DEF Take, TypeOK
<1>9. ASSUME NEW s \in Sockets, Mid(s)
      PROVE  TypeOK'
  BY <1>9, MidFacts DEF Shape, Releases, Accesses, TypeOK
<1>10. ASSUME NEW s \in Sockets, Send(s)
       PROVE  TypeOK'
  <2>1. conn[s] \in FrameType
    BY <1>10, ConnFacts DEF Send, At
  <2>2. [to |-> s, id |-> conn[s].id, full |-> conn[s].full, fresh |-> conn[s].fresh]
          \in [to: Sockets, id: Entries, full: BOOLEAN, fresh: BOOLEAN]
    BY <2>1 DEF FrameType
  <2>3. conn' \in [Sockets -> ConnType]
    BY <1>10 DEF Send, ConnType, TypeOK
  <2>. QED
    BY <1>10, <2>2, <2>3 DEF Send, TypeOK
<1>11. ASSUME NEW s \in Sockets, Close(s)
       PROVE  TypeOK'
  <2>1. conn' \in [Sockets -> ConnType] /\ queue' \in [Sockets -> Seq(Event)]
        /\ \A t \in Sockets : queue'[t] = << >> \/ queue'[t] = queue[t]
    BY <1>11 DEF Close, ConnType, TypeOK
  <2>2. \A t \in Sockets : Len(queue'[t]) <= QueueSize
    BY <2>1, FeedAssumption DEF TypeOK
  <2>3. cut' \in [Sockets -> SUBSET Entries]
    <3>1. CASE conn[s].pc = "wait"
      BY <1>11, <3>1 DEF Close, At, TypeOK
    <3>2. CASE conn[s].pc # "wait"
      <4>1. conn[s].pc \in FramePlaces /\ Cut(s)
        BY <1>11, <3>2, ConnFacts DEF Close, At
      <4>. QED
        BY <4>1, CutFacts
    <3>. QED
      BY <3>1, <3>2
  <2>4. faults' \in 0 .. MaxFaults
    BY <1>11, FaultFacts DEF Close
  <2>. QED
    BY <1>11, <2>1, <2>2, <2>3, <2>4 DEF Close, TypeOK
<1>12. ASSUME NEW s \in Sockets, Grant(s)
       PROVE  TypeOK'
  <2>1. ASSUME conn[s].pc \in FramePlaces
        PROVE  [conn[s] EXCEPT !.fresh = TRUE] \in ConnType
    BY <2>1, ConnFacts DEF FrameType, ConnType
  <2>2. conn' \in [Sockets -> ConnType]
    BY <1>12, <2>1, ConnFacts DEF Grant, TypeOK
  <2>. QED
    BY <1>12, <2>2 DEF Grant, TypeOK
<1>13. ASSUME NEW s \in Sockets, Lapse(s)
       PROVE  TypeOK'
  BY <1>13 DEF Lapse, TypeOK
<1>14. ASSUME NEW e \in Entries, Delete(e)
       PROVE  TypeOK'
  BY <1>14 DEF Delete, TypeOK
<1>15. CASE Crash
  <2>1. writer' \in [Writers -> WriterType] /\ conn' \in [Sockets -> ConnType]
    BY <1>15 DEF Crash, WriterType, ConnType
  <2>2. queue' \in [Sockets -> Seq(Event)] /\ \A s \in Sockets : Len(queue'[s]) <= QueueSize
    BY <1>15, FeedAssumption DEF Crash
  <2>3. cut' \in [Sockets -> SUBSET Entries]
    BY <1>15 DEF Crash, TypeOK
  <2>4. faults' \in 0 .. MaxFaults
    BY <1>15, FaultFacts DEF Crash
  <2>. QED
    BY <1>15, <2>1, <2>2, <2>3, <2>4 DEF Crash, TypeOK
<1>. QED
  BY <1>1, <1>2, <1>3, <1>4, <1>5, <1>6, <1>7, <1>8, <1>9, <1>10, <1>11, <1>12, <1>13, <1>14, <1>15
  DEF Next, WriterStep, SocketStep, Mid

\* The types hold at first.
LEMMA InitTypeOK == Init => TypeOK
<1> SUFFICES ASSUME Init PROVE TypeOK
  OBVIOUS
<1>1. queue \in [Sockets -> Seq(Event)] /\ \A s \in Sockets : Len(queue[s]) <= QueueSize
  BY FeedAssumption DEF Init
<1>. QED
  BY <1>1, FeedAssumption DEF Init, TypeOK, WriterType, ConnType

\* Every variable keeps the values its comment gives.
THEOREM TypeCorrect == Spec => []TypeOK
  BY InitTypeOK, TypeStep, PTL DEF Spec

-----------------------------------------------------------------------------
(* Safety.                                                                 *)

\* What the steps of each actor leave alone.
WriterMove(w) == Vault(w) \/ AppendEntry(w) \/ WriteFails(w) \/ Publish(w) \/ \E e \in Entries : Write(w, e)
SocketMove(s) == Connect(s) \/ Take(s) \/ Mid(s) \/ Send(s) \/ Close(s) \/ Grant(s) \/ Lapse(s)

\* Whose step it is.
LEMMA StepKinds ==
  ASSUME [Next]_vars
  PROVE  \/ UNCHANGED vars
         \/ \E w \in Writers : WriterMove(w)
         \/ \E s \in Sockets : SocketMove(s)
         \/ \E e \in Entries : Delete(e)
         \/ Crash
BY DEF Next, WriterStep, SocketStep, Mid, WriterMove, SocketMove

\* What a step of a writer leaves alone.
LEMMA WriterLeaves ==
  ASSUME NEW w \in Writers, WriterMove(w)
  PROVE  UNCHANGED <<release, access, covered, deleted, safeOnly, conn, scope, sent, cut>>
BY DEF WriterMove, Write, Vault, AppendEntry, WriteFails, Publish, database

\* What a step of a socket leaves alone.
LEMMA SocketLeaves ==
  ASSUME NEW s \in Sockets, SocketMove(s)
  PROVE  UNCHANGED <<vault, log, deleted, safeOnly, writer>>
BY DEF SocketMove, Mid, Connect, Take, Check, Begin, Access, Fetch, Complete, Commit, Send, Close,
       Grant, Lapse, database

\* The row a writer appends.
LEMMA RowFacts ==
  ASSUME TypeOK, NEW w \in Writers
  PROVE  Row(w) # Absent /\ Row(w).stamped = (safeOnly /\ writer[w].raw)
BY DEF Row, Absent

\* The places of a writer and of a socket at rest.
LEMMA IdleFacts == Idle.pc = "idle" /\ Closed.pc = "closed" /\ Waiting.pc = "wait"
BY DEF Idle, Closed, Waiting

\* Every step keeps WriterInv.
LEMMA WriterStepInv ==
  ASSUME IInv, [Next]_vars
  PROVE  WriterInv'
<1> USE DEF database
<1>0. TypeOK /\ WriterInv
  BY DEF IInv
<1>1. CASE UNCHANGED vars
  BY <1>0, <1>1 DEF vars, WriterInv
<1>2. ASSUME NEW w \in Writers, NEW e \in Entries, Write(w, e)
      PROVE  WriterInv'
  <2>1. PICK org \in Orgs \cup {NoOrg}, raw \in BOOLEAN :
          writer' = [writer EXCEPT ![w] = [pc |-> IF safeOnly /\ raw THEN "vault" ELSE "append",
                                           id |-> e, org |-> org, raw |-> raw]]
    BY <1>2 DEF Write, Become
  <2>2. /\ \A v \in Writers \ {w} : writer'[v] = writer[v]
        /\ writer'[w].id = e /\ writer'[w].pc \in {"vault", "append"}
        /\ ~(writer'[w].pc = "append" /\ safeOnly /\ writer'[w].raw)
    BY <1>0, <2>1 DEF TypeOK
  <2>3. log[e] = Absent /\ \A v \in Writers : writer[v] # Idle => writer[v].id # e
    BY <1>2 DEF Write, Unused
  <2>4. UNCHANGED <<vault, log, deleted, safeOnly>>
    BY <1>2 DEF Write
  <2>. QED
    BY <1>0, <2>2, <2>3, <2>4 DEF WriterInv
<1>3. ASSUME NEW w \in Writers, Vault(w)
      PROVE  WriterInv'
  <2>1. writer[w] \in LocalType /\ writer[w] # Idle
    BY <1>3, <1>0, WriterFacts DEF Vault
  <2>2. writer' = [writer EXCEPT ![w] = [writer[w] EXCEPT !.pc = "append"]]
    BY <1>3 DEF Vault, Become
  <2>3. /\ \A v \in Writers \ {w} : writer'[v] = writer[v]
        /\ writer'[w].id = writer[w].id /\ writer'[w].pc = "append"
    BY <1>0, <2>1, <2>2 DEF TypeOK, LocalType
  <2>4. vault' = vault \cup {writer[w].id} /\ UNCHANGED <<log, deleted, safeOnly>> /\ writer[w].pc = "vault"
    BY <1>3 DEF Vault
  <2>. QED
    BY <1>0, <2>1, <2>3, <2>4 DEF WriterInv
<1>4. ASSUME NEW w \in Writers, AppendEntry(w)
      PROVE  WriterInv'
  <2>1. writer[w] \in LocalType /\ writer[w] # Idle /\ writer[w].id \in Entries
    BY <1>4, <1>0, WriterFacts DEF AppendEntry, LocalType
  <2>2. writer' = [writer EXCEPT ![w] = [writer[w] EXCEPT !.pc = "publish"]]
    BY <1>4 DEF AppendEntry, Become
  <2>3. /\ \A v \in Writers \ {w} : writer'[v] = writer[v]
        /\ writer'[w].id = writer[w].id /\ writer'[w].pc = "publish"
    BY <1>0, <2>1, <2>2 DEF TypeOK, LocalType
  <2>4. /\ log'[writer[w].id] = Row(w) /\ \A e : e # writer[w].id /\ e \in Entries => log'[e] = log[e]
        /\ UNCHANGED <<vault, deleted, safeOnly>>
    BY <1>4, <1>0, <2>1 DEF AppendEntry, TypeOK
  <2>5. \A v \in Writers : writer[v] # Idle => writer[v].id \in Entries
    BY <1>0, WriterFacts DEF LocalType
  <2>. QED
    BY <1>0, <2>1, <2>3, <2>4, <2>5, RowFacts, WriterFacts DEF WriterInv
<1>5. ASSUME NEW w \in Writers, WriteFails(w) \/ Publish(w)
      PROVE  WriterInv'
  <2>1. writer[w] # Idle /\ writer[w].id \in Entries
    BY <1>5, <1>0, WriterFacts DEF WriteFails, Publish, LocalType
  <2>2. \A v \in Writers \ {w} : writer'[v] = writer[v]
    BY <1>5, <1>0 DEF WriteFails, Publish, Become, TypeOK
  <2>3. writer'[w] = Idle
    BY <1>5, <1>0 DEF WriteFails, Publish, Become, TypeOK
  <2>4. /\ \A e \in Entries : e # writer[w].id => log'[e] = log[e]
        /\ vault \subseteq vault' /\ UNCHANGED <<deleted, safeOnly>>
    BY <1>5, <1>0, <2>1 DEF WriteFails, Publish, TypeOK
  <2>5. \A v \in Writers : writer[v] # Idle => writer[v].id \in Entries
    BY <1>0, WriterFacts DEF LocalType
  <2>. QED
    BY <1>0, <2>1, <2>2, <2>3, <2>4, <2>5, IdleFacts, WriterFacts DEF WriterInv
<1>6. ASSUME NEW s \in Sockets, SocketMove(s)
      PROVE  WriterInv'
  BY <1>0, <1>6, SocketLeaves DEF WriterInv
<1>7. ASSUME NEW e \in Entries, Delete(e)
      PROVE  WriterInv'
  BY <1>0, <1>7 DEF Delete, WriterInv
<1>8. CASE Crash
  BY <1>8, IdleFacts DEF Crash, WriterInv
<1>. QED
  BY <1>1, <1>2, <1>3, <1>4, <1>5, <1>6, <1>7, <1>8, StepKinds DEF WriterMove

\* An entry that is logged stays as it is.
LEMMA LogStays ==
  ASSUME IInv, [Next]_vars, NEW e \in Entries, log[e] # Absent
  PROVE  log'[e] = log[e]
<1> USE DEF database
<1>0. TypeOK /\ WriterInv
  BY DEF IInv
<1>1. ASSUME NEW w \in Writers, WriterMove(w)
      PROVE  log'[e] = log[e]
  BY <1>0, <1>1 DEF WriterMove, Write, Vault, AppendEntry, WriteFails, Publish, WriterInv, TypeOK
<1>2. ASSUME NEW s \in Sockets, SocketMove(s)
      PROVE  log'[e] = log[e]
  BY <1>2, SocketLeaves
<1>. QED
  BY <1>1, <1>2, StepKinds DEF Delete, Crash, vars

\* Every step keeps NothingLostAtRest.
LEMMA AtRestStep ==
  ASSUME IInv, [Next]_vars
  PROVE  NothingLostAtRest'
<1> USE DEF database
<1>0. TypeOK /\ WriterInv /\ NothingLostAtRest
  BY DEF IInv
<1>1. ASSUME NEW w \in Writers, AppendEntry(w)
      PROVE  NothingLostAtRest'
  <2>1. writer[w].id \in Entries
    BY <1>0, <1>1, WriterFacts DEF AppendEntry, LocalType
  <2>2. /\ vault \subseteq vault' /\ UNCHANGED <<deleted, safeOnly>>
        /\ \A e \in Entries : e # writer[w].id => log'[e] = log[e]
        /\ log'[writer[w].id] = log[writer[w].id] \/ log'[writer[w].id] = Row(w)
    BY <1>0, <1>1, <2>1 DEF AppendEntry, TypeOK
  <2>3. log'[writer[w].id] = Row(w) => writer[w].pc = "append" \/ log[writer[w].id] = Row(w)
    BY <1>0, <1>1, <2>1 DEF AppendEntry, TypeOK
  <2>4. writer[w].pc = "append" /\ safeOnly /\ writer[w].raw => writer[w].id \in vault \cup deleted
    BY <1>0 DEF WriterInv
  <2>5. Row(w).stamped => safeOnly /\ writer[w].raw
    BY <1>0, RowFacts
  <2>6. ASSUME NEW e \in Entries, log'[e] # Absent, log'[e].stamped
        PROVE  e \in vault \cup deleted
    <3>1. CASE log'[e] = log[e]
      BY <1>0, <2>6, <3>1 DEF NothingLostAtRest
    <3>2. CASE e = writer[w].id /\ log'[e] = Row(w) /\ log[e] # Row(w)
      BY <2>3, <2>4, <2>5, <2>6, <3>2
    <3>. QED
      BY <2>2, <3>1, <3>2
  <2>. QED
    BY <2>2, <2>6 DEF NothingLostAtRest
<1>2. ASSUME NEW w \in Writers, WriteFails(w)
      PROVE  NothingLostAtRest'
  <2>1. writer[w].id \in Entries
    BY <1>0, <1>2, WriterFacts DEF WriteFails, LocalType
  <2>2. /\ vault \subseteq vault' /\ UNCHANGED <<deleted, safeOnly>>
        /\ \A e \in Entries : e # writer[w].id => log'[e] = log[e]
        /\ log'[writer[w].id] = log[writer[w].id] \/ log'[writer[w].id] = Row(w)
    BY <1>0, <1>2, <2>1 DEF WriteFails, TypeOK
  <2>3. log'[writer[w].id] = Row(w) => writer[w].pc = "append" \/ log[writer[w].id] = Row(w)
    BY <1>0, <1>2, <2>1 DEF WriteFails, TypeOK
  <2>4. writer[w].pc = "append" /\ safeOnly /\ writer[w].raw => writer[w].id \in vault \cup deleted
    BY <1>0 DEF WriterInv
  <2>5. Row(w).stamped => safeOnly /\ writer[w].raw
    BY <1>0, RowFacts
  <2>6. ASSUME NEW e \in Entries, log'[e] # Absent, log'[e].stamped
        PROVE  e \in vault \cup deleted
    <3>1. CASE log'[e] = log[e]
      BY <1>0, <2>6, <3>1 DEF NothingLostAtRest
    <3>2. CASE e = writer[w].id /\ log'[e] = Row(w) /\ log[e] # Row(w)
      BY <2>3, <2>4, <2>5, <2>6, <3>2
    <3>. QED
      BY <2>2, <3>1, <3>2
  <2>. QED
    BY <2>2, <2>6 DEF NothingLostAtRest
<1>3. ASSUME NEW w \in Writers, Vault(w) \/ Publish(w) \/ \E e \in Entries : Write(w, e)
      PROVE  NothingLostAtRest'
  BY <1>0, <1>3 DEF Vault, Publish, Write, NothingLostAtRest
<1>4. ASSUME NEW s \in Sockets, SocketMove(s)
      PROVE  NothingLostAtRest'
  BY <1>0, <1>4, SocketLeaves DEF NothingLostAtRest
<1>5. ASSUME NEW e \in Entries, Delete(e)
      PROVE  NothingLostAtRest'
  BY <1>0, <1>5 DEF Delete, NothingLostAtRest
<1>6. CASE Crash \/ UNCHANGED vars
  BY <1>0, <1>6 DEF Crash, vars, NothingLostAtRest
<1>. QED
  BY <1>1, <1>2, <1>3, <1>4, <1>5, <1>6, StepKinds DEF WriterMove

\* A step of a writer puts nothing back in flight that is already logged.
LEMMA PendingFacts ==
  ASSUME IInv, NEW w \in Writers, WriterMove(w), NEW e \in Entries, log[e] # Absent
  PROVE  /\ Pending(e)' => Pending(e)
         /\ Publish(w) /\ e = writer[w].id => ~Pending(e)'
<1>0. TypeOK /\ WriterInv /\ writer \in [Writers -> WriterType]
  BY DEF IInv, TypeOK
<1>1. ASSUME NEW f \in Entries, Write(w, f)
      PROVE  Pending(e)' => Pending(e)
  <2>1. PICK org \in Orgs \cup {NoOrg}, raw \in BOOLEAN :
          writer' = [writer EXCEPT ![w] = [pc |-> IF safeOnly /\ raw THEN "vault" ELSE "append",
                                           id |-> f, org |-> org, raw |-> raw]]
    BY <1>1 DEF Write, Become
  <2>3. writer'[w].id = f /\ \A v \in Writers : v # w => writer'[v] = writer[v]
    BY <1>0, <2>1
  <2>2. f # e
    BY <1>1 DEF Write, Unused
  <2>. QED
    BY <2>2, <2>3 DEF Pending
<1>2. ASSUME Vault(w) \/ AppendEntry(w)
      PROVE  Pending(e)' => Pending(e)
  <2>1. writer[w] \in LocalType /\ writer[w] # Idle
    BY <1>0, <1>2, WriterFacts DEF Vault, AppendEntry
  <2>2. PICK p : writer' = [writer EXCEPT ![w] = [writer[w] EXCEPT !.pc = p]]
    BY <1>2 DEF Vault, AppendEntry, Become
  <2>3. \A v \in Writers : writer'[v] = writer[v] \/ (v = w /\ writer'[v].id = writer[v].id)
    BY <1>0, <2>1, <2>2 DEF LocalType
  <2>. QED
    BY <2>1, <2>3 DEF Pending
<1>3. ASSUME WriteFails(w) \/ Publish(w)
      PROVE  (Pending(e)' => Pending(e)) /\ (e = writer[w].id => ~Pending(e)')
  <2>1. writer' = [writer EXCEPT ![w] = Idle]
    BY <1>3 DEF WriteFails, Publish, Become
  <2>2. writer[w] # Idle
    BY <1>0, <1>3, WriterFacts DEF WriteFails, Publish
  <2>3. \A v \in Writers : v # w => writer'[v] = writer[v]
    BY <1>0, <2>1
  <2>4. writer'[w] = Idle
    BY <1>0, <2>1
  <2>. QED
    BY <1>0, <2>2, <2>3, <2>4 DEF Pending, WriterInv
<1>. QED
  BY <1>1, <1>2, <1>3 DEF WriterMove

\* Every step keeps OnceInv.
LEMMA OnceStep ==
  ASSUME IInv, [Next]_vars
  PROVE  OnceInv'
<1> USE DEF database
<1>0. TypeOK /\ WriterInv /\ OnceInv
  BY DEF IInv
<1> SUFFICES ASSUME NEW t \in Sockets
             PROVE  Once(t)'
  BY DEF OnceInv
<1>1. /\ \A e \in Entries :
           /\ InQueue(t, e) \/ InHand(t, e) \/ Touched(t, e) => log[e] # Absent /\ ~Pending(e)
           /\ InQueue(t, e) => ~InHand(t, e) /\ ~Touched(t, e)
           /\ InHand(t, e) => ~Sent(t, e)
      /\ \A i, j \in 1 .. Len(queue[t]) : i # j => queue[t][i].id # queue[t][j].id
  BY <1>0 DEF OnceInv, Once
<1>2. \A e \in Entries : log[e] # Absent => log'[e] # Absent
  BY LogStays
<1>3. CASE UNCHANGED vars
  BY <1>1, <1>3 DEF Once, vars, InQueue, InHand, Touched, Sent, Pending
<1>4. ASSUME NEW w \in Writers, WriterMove(w)
      PROVE  /\ \A e \in Entries : (InHand(t, e)' <=> InHand(t, e)) /\ (Touched(t, e)' <=> Touched(t, e))
                                   /\ (Sent(t, e)' <=> Sent(t, e))
             /\ \A e \in Entries : log[e] # Absent => (Pending(e)' => Pending(e))
  BY <1>4, WriterLeaves, PendingFacts DEF InHand, Touched, Sent
<1>5. ASSUME NEW w \in Writers, WriterMove(w), UNCHANGED queue
      PROVE  Once(t)'
  <2>1. \A e \in Entries : InQueue(t, e)' <=> InQueue(t, e)
    BY <1>5 DEF InQueue
  <2>2. \A e \in Entries : /\ InHand(t, e)' <=> InHand(t, e)
                           /\ Touched(t, e)' <=> Touched(t, e)
                           /\ Sent(t, e)' <=> Sent(t, e)
                           /\ log[e] # Absent => (Pending(e)' => Pending(e))
    BY <1>4, <1>5
  <2>3. \A i, j \in 1 .. Len(queue'[t]) : i # j => queue'[t][i].id # queue'[t][j].id
    BY <1>1, <1>5
  <2>. QED
    BY <1>1, <1>2, <2>1, <2>2, <2>3 DEF Once
<1>6. ASSUME NEW w \in Writers, Publish(w)
      PROVE  Once(t)'
  <2> DEFINE id == writer[w].id
             n  == Len(queue[t])
  <2>1. WriterMove(w) /\ writer[w] \in LocalType /\ writer[w].pc = "publish" /\ id \in Entries /\ n \in Nat
    BY <1>6, <1>0, PublishFacts DEF WriterMove, LocalType, TypeOK
  <2>2. log[id] # Absent /\ Pending(id)
    BY <1>0, <2>1, WriterFacts DEF WriterInv, Pending
  <2>3. \A e \in Entries : /\ InHand(t, e)' <=> InHand(t, e)
                           /\ Touched(t, e)' <=> Touched(t, e)
                           /\ Sent(t, e)' <=> Sent(t, e)
                           /\ log[e] # Absent => (Pending(e)' => Pending(e))
    BY <1>4, <2>1
  <2>4. \A e \in Entries : e = id => ~Pending(e)'
    BY <1>6, <2>1, <2>2, PendingFacts
  <2>5. ~InQueue(t, id) /\ ~InHand(t, id) /\ ~Touched(t, id)
    BY <1>1, <2>1, <2>2 DEF Once
  <2>6. \/ queue'[t] = queue[t]
        \/ /\ Len(queue'[t]) = n + 1 /\ queue'[t][n + 1].id = id
           /\ \A i \in 1 .. n : queue'[t][i] = queue[t][i]
    BY <1>0, <1>6, PublishFacts
  <2>7. \A e \in Entries : InQueue(t, e)' => InQueue(t, e) \/ e = id
    BY <2>1, <2>6 DEF InQueue
  <2>8. \A i, j \in 1 .. Len(queue'[t]) : i # j => queue'[t][i].id # queue'[t][j].id
    <3>1. \A i \in 1 .. n : queue[t][i].id # id
      BY <2>5 DEF InQueue
    <3>4. \A i, j \in 1 .. n : i # j => queue[t][i].id # queue[t][j].id
      BY <1>1
    <3>2. CASE queue'[t] = queue[t]
      BY <1>1, <3>2
    <3>3. CASE /\ Len(queue'[t]) = n + 1 /\ queue'[t][n + 1].id = id
               /\ \A i \in 1 .. n : queue'[t][i] = queue[t][i]
      <4>1. ASSUME NEW i \in 1 .. n + 1, NEW j \in 1 .. n + 1, i # j
            PROVE  queue'[t][i].id # queue'[t][j].id
        <5> HIDE DEF id, n
        <5>1. CASE i = n + 1
          <6>1. j \in 1 .. n
            BY <2>1, <4>1, <5>1
          <6>. QED
            BY <3>1, <3>3, <5>1, <6>1
        <5>2. CASE j = n + 1
          BY <2>1, <3>1, <3>3, <4>1, <5>2
        <5>3. CASE i # n + 1 /\ j # n + 1
          <6>1. i \in 1 .. n /\ j \in 1 .. n
            BY <2>1, <4>1, <5>3
          <6>. QED
            BY <3>3, <3>4, <4>1, <6>1
        <5>. QED
          BY <5>1, <5>2, <5>3
      <4>. QED
        BY <3>3, <4>1
    <3>. QED
      BY <2>6, <3>2, <3>3
  <2>. QED
    BY <1>1, <1>2, <2>1, <2>2, <2>3, <2>4, <2>5, <2>7, <2>8 DEF Once
<1>7. ASSUME NEW s \in Sockets, SocketMove(s)
      PROVE  \A e \in Entries : (Pending(e)' <=> Pending(e)) /\ log'[e] = log[e]
  BY <1>7, SocketLeaves DEF Pending
<1>8. ASSUME NEW s \in Sockets, Take(s)
      PROVE  Once(t)'
  <2>1. \A e \in Entries : /\ Touched(t, e)' <=> Touched(t, e)
                           /\ Sent(t, e)' <=> Sent(t, e)
                           /\ (Pending(e)' <=> Pending(e)) /\ log'[e] = log[e]
    BY <1>7, <1>8 DEF Take, Touched, Sent, SocketMove
  <2>2. CASE t # s
    <3>1. queue'[t] = queue[t] /\ conn'[t] = conn[t]
      BY <1>0, <1>8, <2>2, TakeFacts
    <3>2. \A e \in Entries : (InQueue(t, e)' <=> InQueue(t, e)) /\ (InHand(t, e)' <=> InHand(t, e))
      BY <3>1 DEF InQueue, InHand
    <3>. QED
      BY <1>1, <2>1, <3>1, <3>2 DEF Once
  <2>3. CASE t = s
    <3> DEFINE id == queue[t][1].id
               n  == Len(queue[t])
    <3>1. /\ n \in Nat /\ n > 0 /\ Len(queue'[t]) = n - 1
          /\ \A i \in 1 .. Len(queue'[t]) : queue'[t][i] = queue[t][i + 1]
          /\ conn'[t] = Waiting \/ conn'[t].id = id
      BY <1>0, <1>8, <2>3, TakeFacts DEF TypeOK
    <3>2. \A e \in Entries : InQueue(t, e)' => InQueue(t, e) /\ e # id
      <4>1. ASSUME NEW i \in 1 .. Len(queue'[t])
            PROVE  /\ i + 1 \in 1 .. n /\ 1 \in 1 .. n /\ i + 1 # 1
                   /\ queue'[t][i].id = queue[t][i + 1].id
        BY <3>1, <4>1
      <4>2. \A i \in 1 .. Len(queue'[t]) : queue[t][i + 1].id # id
        BY <1>1, <4>1
      <4>. QED
        BY <4>1, <4>2 DEF InQueue
    <3>3. \A e \in Entries : InHand(t, e)' => e = id
      BY <3>1, IdleFacts DEF InHand
    <3>4. \A e \in Entries : e = id => InQueue(t, e)
      BY <3>1 DEF InQueue
    <3>5. \A i, j \in 1 .. Len(queue'[t]) : i # j => queue'[t][i].id # queue'[t][j].id
      BY <1>1, <3>1
    <3>. QED
      BY <1>1, <2>1, <3>2, <3>3, <3>4, <3>5 DEF Touched, Once
  <2>. QED
    BY <2>2, <2>3
<1>9. ASSUME NEW s \in Sockets, Mid(s)
      PROVE  Once(t)'
  <2>1. Shape(s)
    BY <1>0, <1>9, MidFacts
  <2>2. \A e \in Entries : /\ InQueue(t, e)' <=> InQueue(t, e)
                           /\ Sent(t, e)' <=> Sent(t, e)
                           /\ (Pending(e)' <=> Pending(e)) /\ log'[e] = log[e]
    BY <1>7, <1>9, <2>1 DEF Shape, Sent, InQueue, SocketMove
  <2>3. \A e \in Entries : InHand(t, e)' <=> InHand(t, e)
    BY <2>1 DEF Shape, InHand, FrameType, FramePlaces
  <2>4. \A e \in Entries : Touched(t, e)' => Touched(t, e) \/ InHand(t, e)
    BY <2>1 DEF Shape, InHand, FrameType, FramePlaces, Touched, Sent
  <2>5. queue'[t] = queue[t]
    BY <2>1 DEF Shape
  <2>. QED
    BY <1>1, <2>2, <2>3, <2>4, <2>5 DEF Once
<1>10. ASSUME NEW s \in Sockets, Send(s)
       PROVE  Once(t)'
  <2>1. conn'[s] = Waiting /\ \A u \in Sockets \ {s} : conn'[u] = conn[u]
    BY <1>0, <1>10 DEF Send, TypeOK
  <2>2. UNCHANGED <<queue, release, access>> /\ conn[s].pc = "send"
    BY <1>10 DEF Send, At
  <2>3. \A e \in Entries : /\ InQueue(t, e)' <=> InQueue(t, e)
                           /\ (Pending(e)' <=> Pending(e)) /\ log'[e] = log[e]
    BY <1>7, <1>10, <2>2 DEF InQueue, SocketMove
  <2>4. \A e \in Entries : Sent(t, e)' => Sent(t, e) \/ (t = s /\ e = conn[s].id)
    BY <1>10 DEF Send, Sent
  <2>5. \A e \in Entries : InHand(t, e)' => InHand(t, e) /\ t # s
    BY <2>1, IdleFacts DEF InHand
  <2>6. \A e \in Entries : Touched(t, e)' => Touched(t, e) \/ InHand(t, e)
    BY <2>2, <2>4 DEF Touched, InHand
  <2>. QED
    BY <1>1, <2>2, <2>3, <2>4, <2>5, <2>6 DEF Once
<1>11. ASSUME NEW s \in Sockets, Connect(s) \/ Close(s) \/ Grant(s) \/ Lapse(s)
       PROVE  Once(t)'
  <2>1. /\ queue'[t] = queue[t] \/ queue'[t] = << >>
        /\ UNCHANGED <<release, access, sent>>
    BY <1>0, <1>11 DEF Connect, Close, Grant, Lapse, TypeOK
  <2>2. \A e \in Entries : /\ InQueue(t, e)' => InQueue(t, e)
                           /\ Touched(t, e)' <=> Touched(t, e)
                           /\ Sent(t, e)' <=> Sent(t, e)
                           /\ (Pending(e)' <=> Pending(e)) /\ log'[e] = log[e]
    BY <1>7, <1>11, <2>1 DEF InQueue, Touched, Sent, SocketMove
  <2>3. \A e \in Entries : InHand(t, e)' => InHand(t, e)
    <3>1. CASE t # s \/ Lapse(s)
      BY <1>0, <1>11, <3>1 DEF Connect, Close, Grant, Lapse, TypeOK, InHand
    <3>2. CASE t = s /\ (Connect(s) \/ Close(s))
      BY <1>0, <3>2, IdleFacts DEF Connect, Close, TypeOK, InHand
    <3>3. CASE t = s /\ Grant(s)
      <4>1. conn[t].pc \in {"closed", "wait"} => conn'[t] = conn[t]
        BY <1>0, <3>3 DEF Grant, TypeOK
      <4>2. ASSUME conn[t].pc \notin {"closed", "wait"}
            PROVE  conn'[t].pc = conn[t].pc /\ conn'[t].id = conn[t].id
        <5>1. conn[t] \in FrameType
          BY <1>0, <4>2, ConnFacts
        <5>2. conn'[t] = [conn[t] EXCEPT !.fresh = TRUE]
          BY <1>0, <3>3, <4>2 DEF Grant, TypeOK
        <5>. QED
          BY <5>1, <5>2 DEF FrameType
      <4>. QED
        BY <4>1, <4>2 DEF InHand
    <3>. QED
      BY <1>11, <3>1, <3>2, <3>3
  <2>4. \A i, j \in 1 .. Len(queue'[t]) : i # j => queue'[t][i].id # queue'[t][j].id
    BY <1>1, <2>1
  <2>. QED
    BY <1>1, <2>2, <2>3, <2>4 DEF Once
<1>12. ASSUME NEW e \in Entries, Delete(e)
       PROVE  UNCHANGED <<log, writer, queue, conn, release, access, sent>>
  BY <1>12 DEF Delete
<1>13. CASE Crash
  <2>1. queue'[t] = << >> /\ conn'[t] = Closed /\ UNCHANGED <<log, release, access, sent>>
        /\ \A w \in Writers : writer'[w] = Idle
    BY <1>13 DEF Crash
  <2>2. \A e \in Entries : /\ ~InQueue(t, e)' /\ ~InHand(t, e)' /\ ~Pending(e)'
                           /\ Touched(t, e)' <=> Touched(t, e)
    BY <2>1, IdleFacts DEF InQueue, InHand, Pending, Touched, Sent
  <2>. QED
    BY <1>1, <2>1, <2>2 DEF Once
<1>14. ASSUME NEW w \in Writers, WriterMove(w)
       PROVE  Publish(w) \/ UNCHANGED queue
  BY <1>14 DEF WriterMove, Write, Vault, AppendEntry, WriteFails
<1>15. ASSUME UNCHANGED <<log, writer, queue, conn, release, access, sent>>
       PROVE  Once(t)'
  BY <1>1, <1>15 DEF Once, InQueue, InHand, Touched, Sent, Pending
<1>. QED
  BY <1>3, <1>5, <1>6, <1>8, <1>9, <1>10, <1>11, <1>12, <1>13, <1>14, <1>15, StepKinds
  DEF SocketMove

\* A frame in hand is one of an entry that is logged, and not yet sent.
LEMMA HandFacts ==
  ASSUME IInv, NEW s \in Sockets, conn[s].pc \in FramePlaces
  PROVE  /\ conn[s] \in FrameType /\ conn[s].id \in Entries
         /\ log[conn[s].id] # Absent /\ ~Sent(s, conn[s].id)
         /\ FrameAt(s) /\ Covering(s)
<1>1. conn[s] \in FrameType /\ conn[s].id \in Entries /\ InHand(s, conn[s].id)
  BY ConnFacts DEF IInv, FrameType
<1>. QED
  BY <1>1 DEF IInv, OnceInv, Once, FrameInv

\* Every step keeps FrameInv.
LEMMA FrameStep ==
  ASSUME IInv, [Next]_vars
  PROVE  FrameInv'
<1> USE DEF database
<1>0. TypeOK /\ OnceInv
  BY DEF IInv
<1> SUFFICES ASSUME NEW t \in Sockets, conn'[t].pc \in FramePlaces
             PROVE  FrameAt(t)' /\ Covering(t)'
  BY DEF FrameInv
<1>1. ASSUME conn'[t] = conn[t], UNCHANGED <<release, access>>, cut'[t] = cut[t],
             covered'[t] => covered[t]
      PROVE  FrameAt(t)' /\ Covering(t)'
  <2>1. FrameAt(t) /\ Covering(t) /\ log[conn[t].id] # Absent /\ conn[t].id \in Entries
    BY <1>1, HandFacts
  <2>2. log'[conn[t].id] = log[conn[t].id]
    BY <2>1, LogStays
  <2>. QED
    BY <1>1, <2>1, <2>2 DEF FrameAt, Covering
<1>2. CASE UNCHANGED vars
  BY <1>1, <1>2 DEF vars
<1>3. ASSUME NEW w \in Writers, WriterMove(w)
      PROVE  FrameAt(t)' /\ Covering(t)'
  BY <1>1, <1>3, WriterLeaves
<1>4. ASSUME NEW s \in Sockets, Mid(s)
      PROVE  FrameAt(t)' /\ Covering(t)'
  <2>1. Shape(s) /\ Onward(s) /\ (FrameAt(s) => FrameAt(s)') /\ conn[s].pc \in FramePlaces
    BY <1>0, <1>4, MidFacts DEF Shape, FrameType
  <2>2. FrameAt(s) /\ Covering(s)
    BY <2>1, HandFacts
  <2>3. CASE t = s
    BY <2>1, <2>2, <2>3 DEF Shape, Onward, Covering, FramePlaces
  <2>4. CASE t # s
    <3>1. conn'[t] = conn[t] /\ cut'[t] = cut[t] /\ UNCHANGED <<log, covered>>
      BY <2>1, <2>4 DEF Shape
    <3>2. FrameAt(t) /\ Covering(t) /\ conn[t].id \in Entries
      BY <3>1, HandFacts
    <3>3. release'[t][conn[t].id] = release[t][conn[t].id] /\ access'[t][conn[t].id] = access[t][conn[t].id]
      BY <2>1, <2>4, <3>2 DEF Shape
    <3>. QED
      BY <3>1, <3>2, <3>3 DEF FrameAt, Covering
  <2>. QED
    BY <2>3, <2>4
<1>5. ASSUME NEW s \in Sockets, Take(s)
      PROVE  FrameAt(t)' /\ Covering(t)'
  <2>1. UNCHANGED <<release, access, cut, covered, log>>
    BY <1>5 DEF Take
  <2>2. CASE t # s
    BY <1>0, <1>1, <1>5, <2>1, <2>2, TakeFacts
  <2>3. CASE t = s
    <3>1. /\ conn'[t] \in FrameType /\ conn'[t].id = queue[t][1].id /\ Len(queue[t]) > 0
          /\ conn'[t].pc \in {"check", "send"}
          /\ conn'[t].pc = "check" <=> log[conn'[t].id].raw
          /\ conn'[t].full <=> log[conn'[t].id].raw /\ ~log[conn'[t].id].stamped
          /\ conn'[t].fresh <=> covered[t]
      BY <1>0, <1>5, <2>3, TakeFacts, IdleFacts DEF FramePlaces
    <3>2. InQueue(t, conn'[t].id) /\ conn'[t].id \in Entries
      BY <1>0, <3>1 DEF InQueue, TypeOK, FrameType
    <3>3. release[t][conn'[t].id] = "none" /\ access[t][conn'[t].id] = "none"
      BY <1>0, <3>2 DEF OnceInv, Once, Touched
    <3>. QED
      BY <2>1, <3>1, <3>3 DEF FrameAt, Frames, Covering
  <2>. QED
    BY <2>2, <2>3
<1>6. ASSUME NEW s \in Sockets, Connect(s) \/ Send(s) \/ Close(s)
      PROVE  FrameAt(t)' /\ Covering(t)'
  <2>1. UNCHANGED <<release, access, covered>>
    BY <1>6 DEF Connect, Send, Close
  <2>2. t # s
    BY <1>0, <1>6, IdleFacts DEF Connect, Send, Close, FramePlaces, TypeOK
  <2>3. conn'[t] = conn[t]
    BY <1>0, <1>6, <2>2 DEF Connect, Send, Close, TypeOK
  <2>4. cut'[t] = cut[t]
    BY <1>0, <1>6, <2>2 DEF Connect, Send, Close, Cut, TypeOK
  <2>. QED
    BY <1>1, <2>1, <2>3, <2>4
<1>7. ASSUME NEW s \in Sockets, Grant(s)
      PROVE  FrameAt(t)' /\ Covering(t)'
  <2>1. UNCHANGED <<release, access, cut, log>>
    BY <1>7 DEF Grant
  <2>2. CASE t # s
    <3>1. conn'[t] = conn[t] /\ covered'[t] = covered[t]
      BY <1>0, <1>7, <2>2 DEF Grant, TypeOK
    <3>. QED
      BY <1>1, <2>1, <3>1
  <2>3. CASE t = s
    <3>1. conn'[t] = IF conn[t].pc \in {"closed", "wait"} THEN conn[t] ELSE [conn[t] EXCEPT !.fresh = TRUE]
      BY <1>0, <1>7, <2>3 DEF Grant, TypeOK
    <3>2. conn[t].pc \in FramePlaces
      BY <1>0, <3>1, ConnFacts DEF FramePlaces
    <3>3. conn'[t] = [conn[t] EXCEPT !.fresh = TRUE] /\ conn[t] \in FrameType
      BY <1>0, <3>1, <3>2, ConnFacts
    <3>4. /\ conn'[t].pc = conn[t].pc /\ conn'[t].id = conn[t].id
          /\ conn'[t].full = conn[t].full /\ conn'[t].fresh
      BY <3>3 DEF FrameType
    <3>5. FrameAt(t)
      BY <3>2, HandFacts
    <3>. QED
      BY <2>1, <3>4, <3>5 DEF FrameAt, Frames, Covering
  <2>. QED
    BY <2>2, <2>3
<1>8. ASSUME NEW s \in Sockets, Lapse(s)
      PROVE  FrameAt(t)' /\ Covering(t)'
  <2>1. covered'[t] => covered[t]
    BY <1>0, <1>8 DEF Lapse, TypeOK
  <2>. QED
    BY <1>1, <1>8, <2>1 DEF Lapse
<1>9. ASSUME NEW e \in Entries, Delete(e)
      PROVE  FrameAt(t)' /\ Covering(t)'
  BY <1>1, <1>9 DEF Delete
<1>10. ~Crash
  BY IdleFacts DEF Crash, FramePlaces
<1>. QED
  BY <1>2, <1>3, <1>4, <1>5, <1>6, <1>7, <1>8, <1>9, <1>10, StepKinds DEF SocketMove

\* What a socket does to the frames of others, and to frames already sent.
LEMMA SentFacts ==
  ASSUME IInv, [Next]_vars, NEW f \in sent
  PROVE  /\ f.to \in Sockets /\ f.id \in Entries /\ log'[f.id] = log[f.id]
         /\ release'[f.to][f.id] = release[f.to][f.id] /\ access'[f.to][f.id] = access[f.to][f.id]
<1> USE DEF database
<1>0. TypeOK /\ OnceInv
  BY DEF IInv
<1>1. f.to \in Sockets /\ f.id \in Entries
  BY <1>0 DEF TypeOK
<1>2. Sent(f.to, f.id) /\ ~InHand(f.to, f.id) /\ log[f.id] # Absent
  BY <1>0, <1>1 DEF Sent, OnceInv, Once, Touched
<1>3. log'[f.id] = log[f.id]
  BY <1>1, <1>2, LogStays
<1>4. ASSUME NEW s \in Sockets, Mid(s)
      PROVE  release'[f.to][f.id] = release[f.to][f.id] /\ access'[f.to][f.id] = access[f.to][f.id]
  <2>1. Shape(s) /\ conn[s].pc \in FramePlaces
    BY <1>0, <1>4, MidFacts DEF Shape, FrameType
  <2>2. f.to # s \/ f.id # conn[s].id
    BY <1>0, <1>2, <2>1, ConnFacts
  <2>. QED
    BY <1>1, <2>1, <2>2 DEF Shape
<1>5. ASSUME NEW s \in Sockets, Connect(s) \/ Take(s) \/ Send(s) \/ Close(s) \/ Grant(s) \/ Lapse(s)
      PROVE  UNCHANGED <<release, access>>
  BY <1>5 DEF Connect, Take, Send, Close, Grant, Lapse
<1>6. (\E w \in Writers : WriterMove(w)) \/ (\E e \in Entries : Delete(e)) \/ Crash \/ UNCHANGED vars
        => UNCHANGED <<release, access>>
  BY WriterLeaves DEF Delete, Crash, vars
<1>. QED
  BY <1>1, <1>3, <1>4, <1>5, <1>6, StepKinds DEF SocketMove

\* Only sending adds to what was sent, and it adds the frame in hand.
LEMMA SendFacts ==
  ASSUME IInv, [Next]_vars, NEW f \in sent', f \notin sent
  PROVE  \E s \in Sockets :
           /\ Send(s) /\ conn[s].pc \in FramePlaces
           /\ f = [to |-> s, id |-> conn[s].id, full |-> conn[s].full, fresh |-> conn[s].fresh]
<1> USE DEF database
<1>1. ASSUME NEW s \in Sockets, SocketMove(s), ~Send(s)
      PROVE  sent' = sent
  <2>1. TypeOK
    BY DEF IInv
  <2>2. Mid(s) => sent' = sent
    BY <2>1, MidFacts DEF Shape
  <2>. QED
    BY <1>1, <2>2 DEF SocketMove, Connect, Take, Close, Grant, Lapse
<1>2. ASSUME NEW s \in Sockets, Send(s)
      PROVE  /\ conn[s].pc \in FramePlaces
             /\ f = [to |-> s, id |-> conn[s].id, full |-> conn[s].full, fresh |-> conn[s].fresh]
  BY <1>2 DEF Send, At, FramePlaces
<1>3. (\E w \in Writers : WriterMove(w)) \/ (\E e \in Entries : Delete(e)) \/ Crash \/ UNCHANGED vars
        => sent' = sent
  BY WriterLeaves DEF Delete, Crash, vars
<1>. QED
  BY <1>1, <1>2, <1>3, StepKinds

\* Every step keeps RawLeavesOnRecord and RevocationStopsRaw.
LEMMA RecordStep ==
  ASSUME IInv, [Next]_vars
  PROVE  RawLeavesOnRecord' /\ RevocationStopsRaw'
<1> USE DEF database
<1>1. ASSUME NEW f \in sent', f.full
      PROVE  /\ release'[f.to][f.id] = "released"
             /\ log'[f.id].stamped => access'[f.to][f.id] # "none"
             /\ f.fresh
  <2>1. CASE f \in sent
    BY <1>1, <2>1, SentFacts DEF IInv, RawLeavesOnRecord, RevocationStopsRaw
  <2>2. CASE f \notin sent
    <3>1. PICK s \in Sockets :
            /\ Send(s) /\ conn[s].pc \in FramePlaces
            /\ f = [to |-> s, id |-> conn[s].id, full |-> conn[s].full, fresh |-> conn[s].fresh]
      BY <2>2, SendFacts
    <3>2. /\ f.to = s /\ f.id = conn[s].id /\ conn[s].full /\ f.fresh = conn[s].fresh
          /\ conn[s].pc = "send" /\ UNCHANGED <<log, release, access>>
      BY <1>1, <3>1 DEF Send, At
    <3>3. FrameAt(s) /\ Covering(s)
      BY <3>1, HandFacts
    <3>. QED
      BY <3>2, <3>3 DEF FrameAt, Frames, Covering
  <2>. QED
    BY <2>1, <2>2
<1>. QED
  BY <1>1 DEF RawLeavesOnRecord, RevocationStopsRaw

\* The clause of RecordsAreTrue for one connection and one entry.
Truthful(s, e) ==
  e \notin cut[s] /\ ~InHand(s, e) =>
    /\ release[s][e] # "attempted" /\ access[s][e] # "attempted"
    /\ release[s][e] = "released" <=> \E f \in sent : f.to = s /\ f.id = e /\ f.full
    /\ access[s][e] = "failed" => release[s][e] = "retrieval_failed"

\* Every step keeps RecordsAreTrue.
LEMMA TruthStep ==
  ASSUME IInv, [Next]_vars
  PROVE  RecordsAreTrue'
<1> USE DEF database
<1>0. TypeOK /\ OnceInv
  BY DEF IInv
<1> SUFFICES ASSUME NEW t \in Sockets, NEW e \in Entries
             PROVE  Truthful(t, e)'
  BY DEF RecordsAreTrue, Truthful
<1>1. Truthful(t, e)
  BY DEF IInv, RecordsAreTrue, Truthful
<1>2. ASSUME release'[t][e] = release[t][e], access'[t][e] = access[t][e], sent' = sent,
             e \in cut[t] => e \in cut'[t], InHand(t, e) => InHand(t, e)' \/ e \in cut'[t]
      PROVE  Truthful(t, e)'
  BY <1>1, <1>2 DEF Truthful
<1>3. CASE UNCHANGED vars
  BY <1>2, <1>3 DEF vars, InHand
<1>4. ASSUME NEW w \in Writers, WriterMove(w)
      PROVE  Truthful(t, e)'
  BY <1>2, <1>4, WriterLeaves DEF InHand
<1>5. ASSUME NEW s \in Sockets, Mid(s)
      PROVE  Truthful(t, e)'
  <2>1. Shape(s)
    BY <1>0, <1>5, MidFacts
  <2>2. InHand(t, e)' <=> InHand(t, e)
    BY <2>1 DEF Shape, InHand, FrameType, FramePlaces
  <2>3. CASE InHand(t, e)
    BY <2>2, <2>3 DEF Truthful
  <2>4. CASE ~InHand(t, e)
    <3>1. t # s \/ e # conn[s].id
      BY <2>1, <2>4 DEF Shape, InHand, FrameType, FramePlaces
    <3>2. release'[t][e] = release[t][e] /\ access'[t][e] = access[t][e] /\ sent' = sent
      BY <2>1, <3>1 DEF Shape
    <3>3. e \in cut[t] => e \in cut'[t]
      BY <2>1 DEF Shape
    <3>. QED
      BY <1>2, <2>4, <3>2, <3>3
  <2>. QED
    BY <2>3, <2>4
<1>6. ASSUME NEW s \in Sockets, Send(s)
      PROVE  Truthful(t, e)'
  <2>1. /\ conn[s].pc = "send" /\ conn'[s] = Waiting /\ \A u \in Sockets \ {s} : conn'[u] = conn[u]
        /\ UNCHANGED <<release, access, cut, log>>
        /\ sent' = sent \cup {[to |-> s, id |-> conn[s].id, full |-> conn[s].full, fresh |-> conn[s].fresh]}
    BY <1>0, <1>6 DEF Send, At, TypeOK
  <2>2. CASE t = s /\ e = conn[s].id
    <3>1. FrameAt(t) /\ ~Sent(t, e)
      BY <2>1, <2>2, HandFacts DEF FramePlaces
    <3>2. (\E f \in sent' : f.to = t /\ f.id = e /\ f.full) <=> conn[s].full
      <4> DEFINE g == [to |-> s, id |-> conn[s].id, full |-> conn[s].full, fresh |-> conn[s].fresh]
      <4>1. g.to = s /\ g.id = conn[s].id /\ g.full = conn[s].full
        OBVIOUS
      <4> HIDE DEF g
      <4>2. \A f \in sent : ~(f.to = t /\ f.id = e)
        BY <3>1 DEF Sent
      <4>3. sent' = sent \cup {g}
        BY <2>1 DEF g
      <4>. QED
        BY <2>2, <4>1, <4>2, <4>3
    <3>. QED
      BY <2>1, <2>2, <3>1, <3>2 DEF FrameAt, Frames, Truthful
  <2>3. CASE ~(t = s /\ e = conn[s].id)
    <3>1. InHand(t, e) => InHand(t, e)'
      BY <2>1, <2>3 DEF InHand
    <3>2. (\E f \in sent' : f.to = t /\ f.id = e /\ f.full) <=> (\E f \in sent : f.to = t /\ f.id = e /\ f.full)
      BY <2>1, <2>3
    <3>. QED
      BY <1>1, <2>1, <3>1, <3>2 DEF Truthful
  <2>. QED
    BY <2>2, <2>3
<1>7. ASSUME NEW s \in Sockets, Take(s)
      PROVE  Truthful(t, e)'
  <2>1. UNCHANGED <<release, access, sent, cut>>
    BY <1>7 DEF Take
  <2>2. conn[s].pc = "wait" /\ \A u \in Sockets \ {s} : conn'[u] = conn[u]
    BY <1>0, <1>7, TakeFacts
  <2>3. InHand(t, e) => InHand(t, e)'
    BY <2>2 DEF InHand
  <2>. QED
    BY <1>2, <2>1, <2>3
<1>8. ASSUME NEW s \in Sockets, Close(s)
      PROVE  Truthful(t, e)'
  <2>1. UNCHANGED <<release, access, sent>>
        /\ (IF conn[s].pc = "wait" THEN UNCHANGED cut ELSE Cut(s))
        /\ \A u \in Sockets \ {s} : conn'[u] = conn[u]
    BY <1>0, <1>8 DEF Close, At, TypeOK
  <2>2. e \in cut[t] => e \in cut'[t]
    BY <1>0, <2>1 DEF Cut, TypeOK
  <2>3. InHand(t, e) => InHand(t, e)' \/ e \in cut'[t]
    <3>1. CASE t # s
      BY <2>1, <3>1 DEF InHand
    <3>2. CASE t = s /\ InHand(t, e)
      <4>1. Cut(s) /\ conn[s].id = e /\ conn[s].pc \in FramePlaces
        BY <1>0, <2>1, <3>2, ConnFacts DEF InHand
      <4>. QED
        BY <1>0, <3>2, <4>1, CutFacts
    <3>. QED
      BY <3>1, <3>2
  <2>. QED
    BY <1>2, <2>1, <2>2, <2>3
<1>9. ASSUME NEW s \in Sockets, Connect(s)
      PROVE  Truthful(t, e)'
  BY <1>0, <1>2, <1>9, IdleFacts DEF Connect, InHand, TypeOK
<1>10. ASSUME NEW s \in Sockets, Grant(s)
       PROVE  Truthful(t, e)'
  <2>1. ASSUME InHand(t, e)
        PROVE  InHand(t, e)'
    <3>1. conn[t] \in FrameType
      BY <1>0, <2>1, ConnFacts
    <3>2. conn'[t] = conn[t] \/ conn'[t] = [conn[t] EXCEPT !.fresh = TRUE]
      BY <1>0, <1>10 DEF Grant, TypeOK
    <3>3. conn'[t].pc = conn[t].pc /\ conn'[t].id = conn[t].id
      BY <3>1, <3>2 DEF FrameType
    <3>. QED
      BY <2>1, <3>3 DEF InHand
  <2>. QED
    BY <1>2, <1>10, <2>1 DEF Grant
<1>11. ASSUME NEW s \in Sockets, Lapse(s)
       PROVE  Truthful(t, e)'
  BY <1>2, <1>11 DEF Lapse, InHand
<1>12. ASSUME NEW x \in Entries, Delete(x)
       PROVE  Truthful(t, e)'
  BY <1>2, <1>12 DEF Delete, InHand
<1>13. CASE Crash
  BY <1>0, <1>2, <1>13 DEF Crash, TypeOK
<1>. QED
  BY <1>3, <1>4, <1>5, <1>6, <1>7, <1>8, <1>9, <1>10, <1>11, <1>12, <1>13, StepKinds DEF SocketMove

\* The invariant is inductive.
LEMMA Inductive == Spec => []IInv
<1>1. Init => IInv
  <2> SUFFICES ASSUME Init PROVE IInv
    OBVIOUS
  <2>1. TypeOK
    BY InitTypeOK
  <2>2. WriterInv /\ NothingLostAtRest
    BY IdleFacts DEF Init, WriterInv, NothingLostAtRest
  <2>3. FrameInv
    BY IdleFacts DEF Init, FrameInv, FramePlaces
  <2>4. ASSUME NEW s \in Sockets
        PROVE  Once(s)
    BY IdleFacts DEF Init, Once, InQueue, InHand, Touched, Sent
  <2>5. RawLeavesOnRecord /\ RevocationStopsRaw /\ RecordsAreTrue
    BY DEF Init, RawLeavesOnRecord, RevocationStopsRaw, RecordsAreTrue
  <2>. QED
    BY <2>1, <2>2, <2>3, <2>4, <2>5 DEF IInv, OnceInv
<1>2. IInv /\ [Next]_vars => IInv'
  <2> SUFFICES ASSUME IInv, [Next]_vars PROVE IInv'
    OBVIOUS
  <2>1. TypeOK'
    BY TypeStep DEF IInv
  <2>. QED
    BY <2>1, WriterStepInv, OnceStep, FrameStep, AtRestStep, RecordStep, TruthStep DEF IInv
<1>. QED
  BY <1>1, <1>2, PTL DEF Spec

\* The raw that projection at rest cut out of an entry is in the vault for as
\* long as the instance is there: append() vaults before it logs.
THEOREM VaultedBeforeLogged == Spec => []NothingLostAtRest
<1>1. IInv => NothingLostAtRest
  BY DEF IInv
<1>. QED
  BY <1>1, Inductive, PTL

\* No frame carries raw unless the decision to release it was recorded, and,
\* for raw from the vault, the access to it: begin_raw_release, the fetch and
\* commit_raw_release come in this order, each closing the way when it fails.
THEOREM ReleasesAreRecorded == Spec => []RawLeavesOnRecord
<1>1. IInv => RawLeavesOnRecord
  BY DEF IInv
<1>. QED
  BY <1>1, Inductive, PTL

\* No frame carries raw to a subscriber whose grant was not active at any
\* moment since the frame was taken: events_socket asks for each frame.
THEOREM GrantsAreCurrent == Spec => []RevocationStopsRaw
<1>1. IInv => RevocationStopsRaw
  BY DEF IInv
<1>. QED
  BY <1>1, Inductive, PTL

\* A frame that is done, and met no failing record, left records that agree
\* with what was sent: phase 2 of the release follows the fetch.
THEOREM RecordsTellTheTruth == Spec => []RecordsAreTrue
<1>1. IInv => RecordsAreTrue
  BY DEF IInv
<1>. QED
  BY <1>1, Inductive, PTL
=============================================================================
