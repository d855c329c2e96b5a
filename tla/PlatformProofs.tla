---------------------------- MODULE PlatformProofs ----------------------------
(***************************************************************************)
(* Theorems about the services of Platform (triggers, requests for raw and *)
(* the projection of what others see, monitoring, administration), the     *)
(* browser of a run's steps and what its functions make of an agent's text, *)
(* each for any number of its users, calls, documents, faults and whatever *)
(* else bounds it.                                                         *)
(* A part's variables have the names its module gives them.                *)
(***************************************************************************)
EXTENDS Platform, Integers, FiniteSetTheorems, WellFoundedInduction, TLAPS

\* What appending makes of a sequence.
LEMMA Appended ==
  ASSUME NEW S, NEW s \in Seq(S), NEW x \in S
  PROVE  /\ Append(s, x) \in Seq(S) /\ Len(Append(s, x)) = Len(s) + 1
         /\ DOMAIN Append(s, x) = DOMAIN s \cup {Len(s) + 1} /\ Len(s) + 1 \notin DOMAIN s
         /\ \A i \in DOMAIN s : Append(s, x)[i] = s[i]
         /\ Append(s, x)[Len(s) + 1] = x
OBVIOUS

\* What changing elements in place makes of a sequence.
LEMMA Replaced ==
  ASSUME NEW S, NEW s \in Seq(S), NEW f \in [DOMAIN s -> S]
  PROVE  f \in Seq(S) /\ Len(f) = Len(s) /\ DOMAIN f = DOMAIN s
OBVIOUS


-----------------------------------------------------------------------------
(* Induction over an interval, and recursive functions on one.             *)

\* What holds at 0 and passes from each number to the next holds up to n: were
\* m the exception, the successor would map the good numbers below m one to one
\* into those that are not 0, which are fewer.
LEMMA IntervalInduction ==
  ASSUME NEW n \in Nat, NEW S, 0 \in S, \A i \in 0 .. n - 1 : i \in S => i + 1 \in S
  PROVE  0 .. n \subseteq S
<1>. SUFFICES ASSUME NEW m \in 0 .. n, m \notin S PROVE FALSE
  OBVIOUS
<1>. DEFINE A == {i \in S : i \in 0 .. m - 1}
            after == [i \in A |-> i + 1]
<1>0. A \subseteq 0 .. m - 1 /\ m \in Nat /\ m - 1 \in Int
  OBVIOUS
<1>1. IsFiniteSet(A)
  <2>1. IsFiniteSet(0 .. m - 1)
    BY <1>0, FS_Interval
  <2>. HIDE DEF A
  <2>. QED  BY Zenon, <1>0, <2>1, FS_Subset
<1>2. m # 0 /\ 0 \in A
  OBVIOUS
<1>3. \A i \in A : i + 1 \in A \ {0}
  OBVIOUS
<1>4. after \in [A -> A \ {0}]
  BY <1>3
<1>5. IsFiniteSet(A \ {0}) /\ Cardinality(A) > Cardinality(A \ {0})
  <2>. HIDE DEF A
  <2>1. Cardinality(A) \in Nat
    BY <1>1, FS_CardinalityType
  <2>2. IsFiniteSet(A \ {0}) /\ Cardinality(A \ {0}) = Cardinality(A) - 1
    BY <1>1, <1>2, FS_RemoveElement
  <2>. QED  BY <2>1, <2>2
<1>6. PICK x \in A, y \in A : x # y /\ after[x] = after[y]
  <2>. HIDE DEF A, after
  <2>. QED  BY <1>1, <1>4, <1>5, FS_PigeonHole
<1>. QED
  BY <1>6

\* Functions from T to T, one for each number of 1 .. n; and the function that
\* begins with a and goes on with them.
Stepping(e, n, T) == e \in [1 .. n -> [T -> T]]
Iterates(F, n, T, a, e) == F \in [0 .. n -> T] /\ F[0] = a /\ \A i \in 1 .. n : F[i] = e[i][F[i - 1]]

\* A first value and a step for each number make a function on the interval.
LEMMA RecursionExists ==
  ASSUME NEW n \in Nat, NEW T, NEW a \in T, NEW e, Stepping(e, n, T)
  PROVE  \E F : Iterates(F, n, T, a, e)
<1>. DEFINE Good(m) == \E F \in [0 .. m -> T] : F[0] = a /\ \A i \in 1 .. m : F[i] = e[i][F[i - 1]]
            S == {m \in 0 .. n : Good(m)}
<1>. USE DEF Stepping
<1>1. 0 \in S
  <2>. DEFINE F == [i \in 0 .. 0 |-> a]
  <2>1. F \in [0 .. 0 -> T] /\ F[0] = a /\ \A i \in 1 .. 0 : F[i] = e[i][F[i - 1]]
    OBVIOUS
  <2>. HIDE DEF F
  <2>2. Good(0)
    BY <2>1
  <2>. HIDE DEF Good
  <2>. QED  BY <2>2
<1>2. ASSUME NEW m \in 0 .. n - 1, m \in S PROVE m + 1 \in S
  <2>1. PICK F \in [0 .. m -> T] : F[0] = a /\ \A i \in 1 .. m : F[i] = e[i][F[i - 1]]
    BY <1>2
  <2>. DEFINE G == [i \in 0 .. m + 1 |-> IF i = m + 1 THEN e[m + 1][F[m]] ELSE F[i]]
  <2>2. m + 1 \in 1 .. n /\ F[m] \in T /\ e[m + 1] \in [T -> T]
    OBVIOUS
  <2>3. G \in [0 .. m + 1 -> T]
    BY <2>2
  <2>4. G[0] = a
    BY <2>1
  <2>5. ASSUME NEW i \in 1 .. m + 1 PROVE G[i] = e[i][G[i - 1]]
    BY <2>1
  <2>. HIDE DEF G
  <2>. QED  BY <2>2, <2>3, <2>4, <2>5
<1>. HIDE DEF S
<1>3. 0 .. n \subseteq S
  BY Zenon, <1>1, <1>2, IntervalInduction
<1>. QED  BY <1>3 DEF S, Iterates

-----------------------------------------------------------------------------
(* TraceProjection: positions.                                             *)

\* Two sequences are the same that have the same elements.
LEMMA SameSequence ==
  ASSUME NEW S, NEW a \in Seq(S), NEW b \in Seq(S), Len(a) = Len(b), \A i \in 1 .. Len(a) : a[i] = b[i]
  PROVE  a = b
<1>1. Len(a) \in Nat /\ a = [i \in 1 .. Len(a) |-> a[i]] /\ b = [i \in 1 .. Len(b) |-> b[i]]
  OBVIOUS
<1>. QED  BY <1>1

\* A position that is not the root lies in the one above it.
LEMMA PositionIn ==
  ASSUME NEW p \in Seq(TraceKeys), p # <<>>
  PROVE  /\ Len(p) \in Nat /\ Len(p) > 0 /\ p[Len(p)] \in TraceKeys
         /\ TP!Above(p) \in Seq(TraceKeys) /\ Len(TP!Above(p)) = Len(p) - 1
         /\ p = Append(TP!Above(p), p[Len(p)])
         /\ \A i \in 1 .. Len(p) - 1 : TP!Above(p)[i] = p[i]
<1>1. Len(p) \in Nat /\ Len(p) > 0 /\ DOMAIN p = 1 .. Len(p) /\ p[Len(p)] \in TraceKeys
  OBVIOUS
<1>2. TP!Above(p) = [i \in 1 .. Len(p) - 1 |-> p[i]]
  BY DEF TP!Above, TP!Cut
<1>3. TP!Above(p) \in Seq(TraceKeys) /\ Len(TP!Above(p)) = Len(p) - 1 /\ \A i \in 1 .. Len(p) - 1 : TP!Above(p)[i] = p[i]
  BY <1>1, <1>2
<1>4. p = Append(TP!Above(p), p[Len(p)])
  <2>. DEFINE a == TP!Above(p)
              b == Append(a, p[Len(p)])
  <2>1. a \in Seq(TraceKeys) /\ Len(a) = Len(p) - 1 /\ p[Len(p)] \in TraceKeys /\ DOMAIN a = 1 .. Len(a)
        /\ \A i \in 1 .. Len(p) - 1 : a[i] = p[i]
    BY <1>1, <1>3
  <2>. HIDE DEF a
  <2>2. b \in Seq(TraceKeys) /\ Len(b) = Len(a) + 1 /\ b[Len(a) + 1] = p[Len(p)] /\ \A i \in DOMAIN a : b[i] = a[i]
    BY <2>1, Appended
  <2>. HIDE DEF b
  <2>3. Len(p) = Len(b) /\ \A i \in 1 .. Len(p) : p[i] = b[i]
    BY <1>1, <2>1, <2>2
  <2>4. p = b
    BY <2>2, <2>3, SameSequence
  <2>. QED  BY <2>4 DEF a, b
<1>. QED  BY Zenon, <1>1, <1>3, <1>4

\* The position under a key.
LEMMA PositionUnder ==
  ASSUME NEW q \in Seq(TraceKeys), NEW k \in TraceKeys
  PROVE  /\ Append(q, k) \in Seq(TraceKeys) /\ Append(q, k) # <<>> /\ Len(Append(q, k)) = Len(q) + 1
         /\ TP!Above(Append(q, k)) = q /\ Append(q, k)[Len(q) + 1] = k
         /\ \A i \in 1 .. Len(q) : Append(q, k)[i] = q[i]
<1>1. /\ Append(q, k) \in Seq(TraceKeys) /\ Append(q, k) # <<>> /\ Len(Append(q, k)) = Len(q) + 1
      /\ Append(q, k)[Len(q) + 1] = k /\ \A i \in 1 .. Len(q) : Append(q, k)[i] = q[i]
  <2>1. DOMAIN q = 1 .. Len(q) /\ Len(q) \in Nat
    OBVIOUS
  <2>2. /\ Append(q, k) \in Seq(TraceKeys) /\ Len(Append(q, k)) = Len(q) + 1
        /\ \A i \in DOMAIN q : Append(q, k)[i] = q[i]
        /\ Append(q, k)[Len(q) + 1] = k
    BY Appended
  <2>3. Len(<<>>) = 0 /\ Len(q) + 1 # 0
    BY <2>1
  <2>4. Append(q, k) # <<>>
    BY <2>2, <2>3
  <2>. QED  BY <2>1, <2>2, <2>4
<1>2. [i \in 1 .. Len(Append(q, k)) - 1 |-> Append(q, k)[i]] = q
  <2>1. Len(q) \in Nat /\ q = [i \in 1 .. Len(q) |-> q[i]]
    OBVIOUS
  <2>2. Len(Append(q, k)) - 1 = Len(q)
    BY <1>1
  <2>3. [i \in 1 .. Len(q) |-> Append(q, k)[i]] = [i \in 1 .. Len(q) |-> q[i]]
    BY <1>1
  <2>. QED  BY <2>1, <2>2, <2>3
<1>. QED  BY <1>1, <1>2 DEF TP!Above, TP!Cut

\* Two positions under keys are the same where both are.
LEMMA SamePosition ==
  ASSUME NEW q \in Seq(TraceKeys), NEW r \in Seq(TraceKeys), NEW k \in TraceKeys, NEW l \in TraceKeys,
         Append(q, k) = Append(r, l)
  PROVE  q = r /\ k = l
<1>1. TP!Above(Append(q, k)) = q /\ TP!Above(Append(r, l)) = r /\ Len(Append(q, k)) = Len(q) + 1
      /\ Append(q, k)[Len(q) + 1] = k /\ Append(r, l)[Len(r) + 1] = l
  BY PositionUnder
<1>2. q = r
  BY <1>1
<1>. QED  BY <1>1, <1>2

\* The nodes above the end of a position do not see its end.
LEMMA PrefixUnder ==
  ASSUME NEW q \in Seq(TraceKeys), NEW k \in TraceKeys, NEW i \in 1 .. Len(q) + 1
  PROVE  /\ TP!Cut(Append(q, k), i - 1) = TP!Cut(q, i - 1)
         /\ i = Len(q) + 1 => TP!Cut(q, i - 1) = q
         /\ TP!Cut(q, i - 1) \in Seq(TraceKeys)
<1>1. /\ Len(q) \in Nat /\ q = [j \in 1 .. Len(q) |-> q[j]] /\ \A j \in 1 .. Len(q) : q[j] \in TraceKeys
      /\ \A j \in 1 .. Len(q) : Append(q, k)[j] = q[j]
  OBVIOUS
<1>2. TP!Cut(Append(q, k), i - 1) = TP!Cut(q, i - 1)
  BY <1>1 DEF TP!Cut
<1>3. i = Len(q) + 1 => TP!Cut(q, i - 1) = q
  BY <1>1 DEF TP!Cut
<1>5. [j \in 1 .. i - 1 |-> q[j]] \in Seq(TraceKeys)
  BY <1>1
<1>. QED  BY <1>2, <1>3, <1>5 DEF TP!Cut

-----------------------------------------------------------------------------
(* TraceProjection: the node at a position.                                *)

\* The schemas' nodes, and what they are made of.
LEMMA NodesAre ==
  /\ \A node \in TP!Nodes : TP!IsNode(node) /\ TP!Parts(node) \subseteq TP!Nodes
  /\ TP!Undeclared \in TP!Nodes /\ TP!ToolCall \in TP!Nodes
  /\ \A kind : TP!Schema(kind) \in TP!Nodes
<1>1. TP!Roots \subseteq TP!Nodes /\ \A node \in TP!Nodes : TP!IsNode(node) /\ TP!Parts(node) \subseteq TP!Nodes
  BY ProjectionAssumption
<1>2. TP!Undeclared \in TP!Roots /\ TP!ToolCall \in TP!Roots
  BY DEF TP!Roots
<1>3. ASSUME NEW kind PROVE TP!Schema(kind) \in TP!Roots
  BY DEF TP!Schema, TP!Roots
<1>. QED  BY <1>1, <1>2, <1>3

\* What is under a node is a node.
LEMMA UnderIsNode ==
  ASSUME NEW node \in TP!Nodes, NEW k
  PROVE  TP!Under(node, k) \in TP!Nodes
BY NodesAre DEF TP!Under, TP!Parts

\* The function behind NodeAt: the node after the first i keys.
Along(F, root, p) ==
  F = [i \in 0 .. Len(p) |-> IF i = 0 THEN root ELSE TP!Under(F[i - 1], p[i])]

\* What it is at each place.
LEMMA AlongAt ==
  ASSUME NEW F, NEW root, NEW p, Len(p) \in Nat, Along(F, root, p)
  PROVE  /\ F[0] = root /\ F = [i \in 0 .. Len(p) |-> F[i]]
         /\ \A i \in 0 .. Len(p) - 1 : F[i + 1] = TP!Under(F[i], p[i + 1])
<1>. DEFINE e(i) == IF i = 0 THEN root ELSE TP!Under(F[i - 1], p[i])
<1>1. F = [i \in 0 .. Len(p) |-> e(i)]
  BY DEF Along
<1>2. \A i \in 0 .. Len(p) : F[i] = e(i)
  <2>. HIDE DEF e
  <2>. QED  BY <1>1
<1>3. F = [i \in 0 .. Len(p) |-> F[i]]
  <2>. HIDE DEF e
  <2>. QED  BY <1>1
<1>4. F[0] = root
  BY <1>2
<1>5. ASSUME NEW i \in 0 .. Len(p) - 1 PROVE F[i + 1] = TP!Under(F[i], p[i + 1])
  <2>1. i + 1 \in 0 .. Len(p) /\ i + 1 # 0 /\ (i + 1) - 1 = i
    OBVIOUS
  <2>2. F[i + 1] = e(i + 1)
    BY <1>2, <2>1
  <2>. QED  BY <2>1, <2>2
<1>. QED  BY Zenon, <1>3, <1>4, <1>5

\* There is such a function, and what NodeAt takes is its last value.
LEMMA NodeAtBy ==
  ASSUME NEW root \in TP!Nodes, NEW p \in Seq(TraceKeys)
  PROVE  \E F \in [0 .. Len(p) -> TP!Nodes] : Along(F, root, p) /\ TP!NodeAt(root, p) = F[Len(p)]
<1>. DEFINE n == Len(p)
            T == TP!Nodes
            e == [i \in 1 .. n |-> [x \in T |-> TP!Under(x, p[i])]]
<1>1. n \in Nat
  OBVIOUS
<1>2. e \in [1 .. n -> [T -> T]]
  BY <1>1, UnderIsNode
<1>3. PICK F : Iterates(F, n, T, root, e)
  <2>1. Stepping(e, n, T)
    BY <1>2 DEF Stepping
  <2>. HIDE DEF n, e, T
  <2>2. root \in T
    BY DEF T
  <2>. QED  BY <1>1, <2>1, <2>2, RecursionExists
<1>. USE DEF Iterates
<1>4. Along(F, root, p)
  <2>1. ASSUME NEW i \in 0 .. n PROVE F[i] = IF i = 0 THEN root ELSE TP!Under(F[i - 1], p[i])
    <3>1. CASE i = 0
      BY <1>3, <3>1
    <3>2. CASE i # 0
      <4>1. i \in 1 .. n /\ i - 1 \in 0 .. n
        BY <3>2
      <4>2. F[i - 1] \in T /\ F[i] = e[i][F[i - 1]]
        BY <1>3, <4>1
      <4>. QED  BY <3>2, <4>1, <4>2
    <3>. QED  BY <3>1, <3>2
  <2>. HIDE DEF n
  <2>2. F = [i \in 0 .. n |-> IF i = 0 THEN root ELSE TP!Under(F[i - 1], p[i])]
    BY <1>3, <2>1
  <2>. QED  BY <2>2 DEF Along, n
<1>5. PICK G : G = (CHOOSE H : Along(H, root, p)) /\ Along(G, root, p)
  BY <1>4
<1>6. Along(G, root, p)
  BY <1>5
<1>7. TP!NodeAt(root, p) = G[Len(p)]
  BY <1>5 DEF TP!NodeAt, Along
<1>8. G \in [0 .. n -> T]
  <2>. DEFINE Good == {i \in 0 .. n : G[i] \in T}
  <2>1. G[0] = root /\ G = [i \in 0 .. n |-> G[i]] /\ \A i \in 0 .. n - 1 : G[i + 1] = TP!Under(G[i], p[i + 1])
    BY <1>1, <1>6, AlongAt
  <2>. HIDE DEF n
  <2>2. 0 \in Good
    BY <1>1, <2>1
  <2>3. ASSUME NEW i \in 0 .. n - 1, i \in Good PROVE i + 1 \in Good
    <3>1. G[i] \in TP!Nodes /\ i + 1 \in 0 .. n
      BY <1>1, <2>3
    <3>. QED  BY Zenon, <2>1, <3>1, UnderIsNode
  <2>4. 0 .. n \subseteq Good
    <3>. HIDE DEF Good
    <3>. QED  BY <1>1, <2>2, <2>3, IntervalInduction
  <2>. QED  BY <2>1, <2>4
<1>. QED  BY <1>6, <1>7, <1>8

\* At the root is the root's node; a key leads to what is under it.
LEMMA NodeAtStep ==
  ASSUME NEW root \in TP!Nodes
  PROVE  /\ TP!NodeAt(root, <<>>) = root
         /\ \A p \in Seq(TraceKeys) : TP!NodeAt(root, p) \in TP!Nodes
         /\ \A q \in Seq(TraceKeys), k \in TraceKeys :
              TP!NodeAt(root, Append(q, k)) = TP!Under(TP!NodeAt(root, q), k)
<1>1. TP!NodeAt(root, <<>>) = root
  <2>1. <<>> \in Seq(TraceKeys) /\ Len(<<>>) = 0
    OBVIOUS
  <2>2. PICK F \in [0 .. Len(<<>>) -> TP!Nodes] : Along(F, root, <<>>) /\ TP!NodeAt(root, <<>>) = F[Len(<<>>)]
    BY Zenon, <2>1, NodeAtBy
  <2>3. F[0] = root
    BY <2>1, <2>2, AlongAt
  <2>. QED  BY <2>1, <2>2, <2>3
<1>2. ASSUME NEW p \in Seq(TraceKeys) PROVE TP!NodeAt(root, p) \in TP!Nodes
  <2>1. PICK F \in [0 .. Len(p) -> TP!Nodes] : TP!NodeAt(root, p) = F[Len(p)]
    BY NodeAtBy
  <2>2. Len(p) \in Nat
    OBVIOUS
  <2>. QED  BY <2>1, <2>2
<1>3. ASSUME NEW q \in Seq(TraceKeys), NEW k \in TraceKeys
      PROVE  TP!NodeAt(root, Append(q, k)) = TP!Under(TP!NodeAt(root, q), k)
  <2>. DEFINE n == Len(q)
              p == Append(q, k)
  <2>1. n \in Nat /\ p \in Seq(TraceKeys) /\ Len(p) = n + 1 /\ p[n + 1] = k /\ \A i \in 1 .. n : p[i] = q[i]
    BY PositionUnder
  <2>2. PICK F \in [0 .. Len(q) -> TP!Nodes] : Along(F, root, q) /\ TP!NodeAt(root, q) = F[Len(q)]
    BY NodeAtBy
  <2>3. PICK G \in [0 .. Len(p) -> TP!Nodes] : Along(G, root, p) /\ TP!NodeAt(root, p) = G[Len(p)]
    BY <2>1, NodeAtBy
  <2>4. F[0] = root /\ \A i \in 0 .. n - 1 : F[i + 1] = TP!Under(F[i], q[i + 1])
    BY <2>1, <2>2, AlongAt
  <2>5. G[0] = root /\ \A i \in 0 .. Len(p) - 1 : G[i + 1] = TP!Under(G[i], p[i + 1])
    <3>. HIDE DEF n, p
    <3>1. Len(p) \in Nat
      BY <2>1
    <3>2. Along(G, root, p)
      BY <2>3
    <3>. QED  BY <3>1, <3>2, AlongAt
  <2>. DEFINE Same == {i \in 0 .. n : F[i] = G[i]}
  <2>. HIDE DEF n, p
  <2>6. 0 \in Same
    BY <2>1, <2>4, <2>5
  <2>7. ASSUME NEW i \in 0 .. n - 1, i \in Same PROVE i + 1 \in Same
    <3>1. F[i] = G[i] /\ i + 1 \in 0 .. n /\ i + 1 \in 1 .. n /\ i \in 0 .. Len(p) - 1
      BY <2>1, <2>7
    <3>. QED  BY <2>1, <2>4, <2>5, <3>1
  <2>8. 0 .. n \subseteq Same
    <3>. HIDE DEF Same
    <3>. QED  BY Zenon, <2>1, <2>6, <2>7, IntervalInduction
  <2>9. F[n] = G[n] /\ G[n + 1] = TP!Under(G[n], p[n + 1])
    BY <2>1, <2>5, <2>8
  <2>10. TP!NodeAt(root, p) = TP!Under(F[n], k)
    BY <2>1, <2>3, <2>9
  <2>11. TP!NodeAt(root, q) = F[n]
    BY <2>2 DEF n
  <2>. QED  BY <2>10, <2>11 DEF p
<1>. QED  BY <1>1, <1>2, <1>3

-----------------------------------------------------------------------------
(* TraceProjection: what the projector comes to, and what it makes.        *)

\* Every position of a document lies in one of its positions.
Closed(d) ==
  /\ <<>> \in DOMAIN d /\ d = [p \in DOMAIN d |-> d[p]]
  /\ \A p \in DOMAIN d : p \in Seq(TraceKeys) /\ (p # <<>> => TP!Above(p) \in DOMAIN d)

\* The projector comes to an entry where it comes to the dict or the list,
\* goes on below it and keeps the key.
LEMMA ReachedStep ==
  ASSUME NEW root, NEW d, Closed(d)
  PROVE  /\ <<>> \in TP!Reached(root, d) /\ TP!Reached(root, d) \subseteq DOMAIN d
         /\ \A q \in Seq(TraceKeys), k \in TraceKeys :
              Append(q, k) \in TP!Reached(root, d) <=>
                /\ Append(q, k) \in DOMAIN d /\ q \in TP!Reached(root, d)
                /\ TP!Opens(TP!NodeAt(root, q), d[q]) /\ TP!Kept(TP!NodeAt(root, q), k)
<1>. DEFINE Fine(p, i) == /\ TP!Opens(TP!NodeAt(root, TP!Cut(p, i - 1)), d[TP!Cut(p, i - 1)])
                          /\ TP!Kept(TP!NodeAt(root, TP!Cut(p, i - 1)), p[i])
<1>1. \A p : p \in TP!Reached(root, d) <=> p \in DOMAIN d /\ \A i \in 1 .. Len(p) : Fine(p, i)
  BY DEF TP!Reached
<1>2. <<>> \in TP!Reached(root, d)
  <2>1. Len(<<>>) = 0 /\ <<>> \in DOMAIN d
    BY DEF Closed
  <2>. HIDE DEF Fine
  <2>. QED  BY <1>1, <2>1
<1>3. ASSUME NEW q \in Seq(TraceKeys), NEW k \in TraceKeys
      PROVE  Append(q, k) \in TP!Reached(root, d) <=>
               /\ Append(q, k) \in DOMAIN d /\ q \in TP!Reached(root, d)
               /\ TP!Opens(TP!NodeAt(root, q), d[q]) /\ TP!Kept(TP!NodeAt(root, q), k)
  <2>. DEFINE p == Append(q, k)
              n == Len(q)
  <2>1. /\ n \in Nat /\ Len(p) = n + 1 /\ p[n + 1] = k /\ p # <<>> /\ TP!Above(p) = q
        /\ \A i \in 1 .. n : p[i] = q[i]
    BY PositionUnder
  <2>2. ASSUME NEW i \in 1 .. n PROVE Fine(p, i) = Fine(q, i)
    <3>1. p[i] = q[i] /\ i \in 1 .. Len(q) + 1
      BY <2>1
    <3>2. TP!Cut(p, i - 1) = TP!Cut(q, i - 1)
      BY <3>1, PrefixUnder
    <3>. HIDE DEF p
    <3>. QED  BY <3>1, <3>2
  <2>3. Fine(p, n + 1) <=> TP!Opens(TP!NodeAt(root, q), d[q]) /\ TP!Kept(TP!NodeAt(root, q), k)
    <3>1. TP!Cut(p, (n + 1) - 1) = q
      <4>1. n + 1 \in 1 .. Len(q) + 1
        BY <2>1
      <4>. QED  BY <4>1, PrefixUnder
    <3>. HIDE DEF p
    <3>. QED  BY <2>1, <3>1
  <2>4. p \in DOMAIN d => q \in DOMAIN d
    <3>. HIDE DEF p
    <3>. QED  BY <2>1 DEF Closed
  <2>5. (\A i \in 1 .. n + 1 : Fine(p, i)) <=> (\A i \in 1 .. n : Fine(q, i)) /\ Fine(p, n + 1)
    <3>. HIDE DEF p, Fine, n
    <3>1. 1 .. n + 1 = (1 .. n) \cup {n + 1}
      BY <2>1
    <3>. QED  BY <2>2, <3>1
  <2>. HIDE DEF Fine
  <2>6. p \in TP!Reached(root, d) <=> p \in DOMAIN d /\ \A i \in 1 .. n + 1 : Fine(p, i)
    BY Zenon, <1>1, <2>1
  <2>7. q \in TP!Reached(root, d) <=> q \in DOMAIN d /\ \A i \in 1 .. n : Fine(q, i)
    BY <1>1
  <2>. QED  BY <2>3, <2>4, <2>5, <2>6, <2>7
<1>4. TP!Reached(root, d) \subseteq DOMAIN d
  BY DEF TP!Reached
<1>. QED  BY <1>2, <1>3, <1>4

\* The keys of the entries at a position.
LEMMA KeysAre ==
  ASSUME NEW d, Closed(d), NEW q \in Seq(TraceKeys), NEW k
  PROVE  k \in TP!Keys(d, q) <=> k \in TraceKeys /\ Append(q, k) \in DOMAIN d
<1>1. ASSUME k \in TP!Keys(d, q) PROVE k \in TraceKeys /\ Append(q, k) \in DOMAIN d
  <2>1. PICK p \in DOMAIN d : p # <<>> /\ TP!Above(p) = q /\ k = p[Len(p)]
    BY <1>1 DEF TP!Keys
  <2>2. p \in Seq(TraceKeys)
    BY DEF Closed
  <2>. QED  BY Zenon, <2>1, <2>2, PositionIn
<1>2. ASSUME k \in TraceKeys, Append(q, k) \in DOMAIN d PROVE k \in TP!Keys(d, q)
  <2>1. Append(q, k) # <<>> /\ TP!Above(Append(q, k)) = q /\ Append(q, k)[Len(Append(q, k))] = k
    BY <1>2, PositionUnder
  <2>. QED  BY Zenon, <1>2, <2>1 DEF TP!Keys
<1>. QED  BY <1>1, <1>2

\* The fields of a tool call as it is kept.
CallFields == {"name", "_redacted", "pinned_present", "pin_overrides_present", "input_key_count",
               "result_ok", "error_present"}

\* It has these fields, and one for its size; each value is what the part it
\* comes from says.
LEMMA CallNames ==
  ASSUME NEW d, NEW q
  PROVE  LET call == TP!SafeToolCall(d, q)
         IN /\ CallFields \subseteq DOMAIN call /\ DOMAIN call \subseteq CallFields \cup {"content_bytes"}
            /\ DOMAIN call \subseteq TraceKeys
<1>. DEFINE again == {"input", "result"} \cap TP!Keys(d, q) = {} /\ "input_key_count" \in TP!Keys(d, q)
            own == [name |-> TP!Redacted, _redacted |-> TP!Redacted,
                    pinned_present        |-> TP!Present(d, q, "pinned", "pinned_present"),
                    pin_overrides_present |-> TP!Present(d, q, "pin_overrides", "pin_overrides_present")]
            rest == IF again THEN TP!ReadAgain(d, q) ELSE TP!Measured(d, q)
<1>1. TP!SafeToolCall(d, q) = TP!Both(own, rest)
  BY DEF TP!SafeToolCall, TP!\oplus
<1>2. DOMAIN own = {"name", "_redacted", "pinned_present", "pin_overrides_present"}
  OBVIOUS
<1>3. /\ {"input_key_count", "result_ok", "error_present"} \subseteq DOMAIN TP!Measured(d, q)
      /\ DOMAIN TP!Measured(d, q) \subseteq {"input_key_count", "result_ok", "error_present", "content_bytes"}
  BY DEF TP!Measured, TP!\oplus, TP!Both
<1>4. /\ {"input_key_count", "result_ok", "error_present"} \subseteq DOMAIN TP!ReadAgain(d, q)
      /\ DOMAIN TP!ReadAgain(d, q) \subseteq {"input_key_count", "result_ok", "error_present", "content_bytes"}
  BY DEF TP!ReadAgain, TP!\oplus, TP!Both
<1>5. /\ {"input_key_count", "result_ok", "error_present"} \subseteq DOMAIN rest
      /\ DOMAIN rest \subseteq {"input_key_count", "result_ok", "error_present", "content_bytes"}
  <2>. HIDE DEF again
  <2>. QED  BY <1>3, <1>4
<1>. HIDE DEF own, rest
<1>6. DOMAIN TP!Both(own, rest) = DOMAIN own \cup DOMAIN rest
  BY DEF TP!Both
<1>7. CallFields \cup {"content_bytes"} \subseteq TraceKeys
  BY ProjectionAssumption DEF CallFields, TP!OwnNames
<1>8. CallFields \subseteq DOMAIN own \cup DOMAIN rest
  BY <1>2, <1>5 DEF CallFields
<1>9. DOMAIN own \cup DOMAIN rest \subseteq CallFields \cup {"content_bytes"}
  BY <1>2, <1>5 DEF CallFields
<1>. QED  BY <1>1, <1>6, <1>7, <1>8, <1>9

\* What the projector places has a name; it places nothing at a key it keeps,
\* and nothing but in a dict.
LEMMA PlacedNames ==
  ASSUME NEW node, NEW d, NEW q, NEW k, k \in DOMAIN TP!Placed(node, d, q)
  PROVE  /\ k \in TraceKeys /\ d[q].t = "dict" /\ node.n \in {"obj", "rules", "trigger", "call"}
         /\ node.n \in {"obj", "rules"} =>
              /\ k = TP!WithheldKey /\ TP!Withheld(node, d, q)
              /\ TP!Placed(node, d, q)[k] = TP!Bool(TRUE)
         /\ ~(TP!Opens(node, d[q]) /\ TP!Kept(node, k))
<1>1. CASE d[q].t = "dict" /\ node.n \in {"obj", "rules"}
  <2>1. k = TP!WithheldKey /\ TP!Withheld(node, d, q) /\ TP!Placed(node, d, q)[k] = TP!Bool(TRUE)
    BY Zenon, <1>1 DEF TP!Placed, TP!Flag
  <2>2. TP!WithheldKey \in TraceKeys
    BY ProjectionAssumption DEF TP!OwnNames
  <2>3. ~TP!Kept(node, k)
    BY <1>1, <2>1 DEF TP!Kept
  <2>. QED  BY <1>1, <2>1, <2>2, <2>3
<1>2. CASE d[q].t = "dict" /\ node.n = "trigger"
  <2>1. k \in {"_redacted", "message_id", "thread_id", "id"}
    BY <1>2 DEF TP!Placed, TP!SafeTriggerPayload
  <2>2. {"_redacted", "message_id", "thread_id", "id"} \subseteq TraceKeys
    BY ProjectionAssumption DEF TP!OwnNames
  <2>3. k \in TraceKeys
    BY <2>1, <2>2
  <2>4. ~TP!Opens(node, d[q]) /\ node.n \notin {"obj", "rules"}
    BY <1>2 DEF TP!Opens
  <2>. QED  BY <1>2, <2>3, <2>4
<1>3. CASE d[q].t = "dict" /\ node.n = "call"
  <2>1. TP!Placed(node, d, q) = TP!SafeToolCall(d, q)
    BY <1>3 DEF TP!Placed
  <2>2. k \in TraceKeys
    BY <2>1, CallNames
  <2>3. ~TP!Opens(node, d[q]) /\ node.n \notin {"obj", "rules"}
    BY <1>3 DEF TP!Opens
  <2>. QED  BY <1>3, <2>2, <2>3
<1>4. CASE ~(d[q].t = "dict" /\ node.n \in {"obj", "rules", "trigger", "call"})
  BY <1>4 DEF TP!Placed, TP!None
<1>. QED  BY Zenon, <1>1, <1>2, <1>3, <1>4

-----------------------------------------------------------------------------
(* TraceProjection: what is projected.                                     *)

\* A set that holds the root and, with a position, those under it, holds all.
LEMMA PositionInduction ==
  ASSUME NEW S, <<>> \in S, \A q \in Seq(TraceKeys), k \in TraceKeys : q \in S => Append(q, k) \in S
  PROVE  Seq(TraceKeys) \subseteq S
<1>. SUFFICES ASSUME NEW p \in Seq(TraceKeys) PROVE p \in S
  OBVIOUS
<1>. DEFINE n == Len(p)
            cut(i) == TP!Cut(p, i)
            Good == {i \in 0 .. n : cut(i) \in S}
<1>1. /\ n \in Nat /\ p = [i \in 1 .. n |-> p[i]] /\ \A i \in 1 .. n : p[i] \in TraceKeys
      /\ \A i \in 0 .. n : [j \in 1 .. i |-> p[j]] \in Seq(TraceKeys) /\ Len([j \in 1 .. i |-> p[j]]) = i
  OBVIOUS
<1>2. \A i \in 0 .. n : cut(i) \in Seq(TraceKeys) /\ Len(cut(i)) = i /\ \A j \in 1 .. i : cut(i)[j] = p[j]
  BY <1>1 DEF TP!Cut
<1>3. cut(n) = p
  BY <1>1 DEF TP!Cut
<1>4. cut(0) = <<>>
  BY <1>2
<1>5. ASSUME NEW i \in 0 .. n - 1 PROVE cut(i + 1) = Append(cut(i), p[i + 1])
  <2>. DEFINE a == cut(i)
              b == cut(i + 1)
              c == Append(a, p[i + 1])
  <2>1. /\ i \in 0 .. n /\ i + 1 \in 0 .. n /\ i + 1 \in 1 .. n /\ p[i + 1] \in TraceKeys
        /\ a \in Seq(TraceKeys) /\ Len(a) = i /\ b \in Seq(TraceKeys) /\ Len(b) = i + 1
        /\ (\A j \in 1 .. i : a[j] = p[j]) /\ \A j \in 1 .. i + 1 : b[j] = p[j]
    BY <1>1, <1>2
  <2>. HIDE DEF a, b
  <2>2. /\ c \in Seq(TraceKeys) /\ Len(c) = i + 1 /\ c[i + 1] = p[i + 1]
        /\ \A j \in 1 .. i : c[j] = a[j]
    BY <2>1, PositionUnder
  <2>. HIDE DEF c
  <2>3. \A j \in 1 .. Len(b) : b[j] = c[j]
    BY <2>1, <2>2
  <2>4. b = c
    BY <2>1, <2>2, <2>3, SameSequence
  <2>. QED  BY <2>4 DEF a, b, c
<1>. HIDE DEF n, cut
<1>6. 0 \in Good
  BY <1>1, <1>4
<1>7. ASSUME NEW i \in 0 .. n - 1, i \in Good PROVE i + 1 \in Good
  <2>1. i \in 0 .. n /\ i + 1 \in 0 .. n /\ i + 1 \in 1 .. n
    BY <1>1
  <2>2. Append(cut(i), p[i + 1]) \in S
    BY <1>1, <1>2, <1>7, <2>1
  <2>. QED  BY Zenon, <1>5, <2>1, <2>2
<1>8. 0 .. n \subseteq Good
  <2>. HIDE DEF Good
  <2>. QED  BY <1>1, <1>6, <1>7, IntervalInduction
<1>9. n \in Good
  BY <1>1, <1>8
<1>. QED  BY <1>3, <1>9

\* What the projector places at a position.
Own(root, d, q) == TP!Placed(TP!NodeAt(root, q), d, q)

\* A projected document: what the projector comes to, as it shows it, and what
\* it places there, which it does not come to.
LEMMA ProjectedAt ==
  ASSUME NEW root, NEW d, Closed(d), NEW s, s = TP!Project(root, d)
  PROVE  /\ \A p \in TP!Reached(root, d) : p \in DOMAIN s /\ s[p] = TP!Shown(TP!NodeAt(root, p), d[p])
         /\ \A q \in TP!Reached(root, d) : \A k \in DOMAIN Own(root, d, q) :
              /\ Append(q, k) \in DOMAIN s /\ Append(q, k) \notin TP!Reached(root, d)
              /\ s[Append(q, k)] = Own(root, d, q)[k]
         /\ \A p \in DOMAIN s : p \notin TP!Reached(root, d) =>
              \E q \in TP!Reached(root, d) : \E k \in DOMAIN Own(root, d, q) : p = Append(q, k)
<1>. DEFINE R == TP!Reached(root, d)
            own(q) == Own(root, d, q)
            placed == UNION {{Append(q, k) : k \in DOMAIN own(q)} : q \in R}
            shown(p) == TP!Shown(TP!NodeAt(root, p), d[p])
            last(p) == own(TP!Above(p))[p[Len(p)]]
<1>1. s = [p \in R \cup placed |-> IF p \in R THEN shown(p) ELSE last(p)]
  BY DEF TP!Project, Own
<1>2. R \subseteq Seq(TraceKeys)
  BY ReachedStep DEF Closed
<1>3. ASSUME NEW q \in R, NEW k \in DOMAIN own(q)
      PROVE  /\ k \in TraceKeys /\ Append(q, k) \notin R
             /\ TP!Above(Append(q, k)) = q /\ Append(q, k)[Len(Append(q, k))] = k
  <2>1. q \in Seq(TraceKeys)
    BY <1>2
  <2>2. k \in TraceKeys /\ ~(TP!Opens(TP!NodeAt(root, q), d[q]) /\ TP!Kept(TP!NodeAt(root, q), k))
    BY Zenon, <1>3, PlacedNames DEF Own
  <2>3. Append(q, k) \notin R
    <3>. HIDE DEF own
    <3>. QED  BY <2>1, <2>2, ReachedStep
  <2>4. TP!Above(Append(q, k)) = q /\ Append(q, k)[Len(Append(q, k))] = k
    <3>. HIDE DEF own, R
    <3>. QED  BY <2>1, <2>2, PositionUnder
  <2>. QED  BY <2>2, <2>3, <2>4
<1>. HIDE DEF R, own, shown
<1>4. DOMAIN s = R \cup placed /\ \A p \in R \cup placed : s[p] = IF p \in R THEN shown(p) ELSE last(p)
  <2>. HIDE DEF placed, last
  <2>. QED  BY <1>1
<1>5. \A p \in R : p \in DOMAIN s /\ s[p] = shown(p)
  BY <1>4
<1>6. ASSUME NEW q \in R, NEW k \in DOMAIN own(q)
      PROVE  Append(q, k) \in DOMAIN s /\ Append(q, k) \notin R /\ s[Append(q, k)] = own(q)[k]
  <2>1. Append(q, k) \in placed
    OBVIOUS
  <2>2. s[Append(q, k)] = last(Append(q, k))
    <3>. HIDE DEF placed, last
    <3>. QED  BY <1>3, <1>4, <2>1
  <2>3. last(Append(q, k)) = own(q)[k]
    BY <1>3
  <2>. QED  BY <1>3, <1>4, <2>1, <2>2, <2>3
<1>7. ASSUME NEW p \in DOMAIN s, p \notin R PROVE \E q \in R : \E k \in DOMAIN own(q) : p = Append(q, k)
  BY <1>4, <1>7
<1>. QED  BY <1>5, <1>6, <1>7 DEF R, own, shown

\* It is closed.
LEMMA ProjectedIsClosed ==
  ASSUME NEW root, NEW d, Closed(d), NEW s, s = TP!Project(root, d)
  PROVE  Closed(s)
<1>. DEFINE R == TP!Reached(root, d)
<1>1. <<>> \in R /\ R \subseteq DOMAIN d
  BY ReachedStep
<1>2. /\ \A p \in R : p \in DOMAIN s
      /\ \A p \in DOMAIN s : p \notin R => \E q \in R : \E k \in DOMAIN Own(root, d, q) : p = Append(q, k)
  BY ProjectedAt
<1>3. s = [p \in DOMAIN s |-> s[p]]
  BY DEF TP!Project
<1>4. ASSUME NEW p \in DOMAIN s PROVE p \in Seq(TraceKeys) /\ (p # <<>> => TP!Above(p) \in DOMAIN s)
  <2>1. CASE p \in R
    <3>1. p \in Seq(TraceKeys)
      BY <1>1, <2>1 DEF Closed
    <3>2. ASSUME p # <<>> PROVE TP!Above(p) \in R
      <4>1. TP!Above(p) \in Seq(TraceKeys) /\ p[Len(p)] \in TraceKeys /\ p = Append(TP!Above(p), p[Len(p)])
        BY <3>1, <3>2, PositionIn
      <4>. QED  BY Zenon, <2>1, <4>1, ReachedStep
    <3>. QED  BY <1>2, <3>1, <3>2
  <2>2. CASE p \notin R
    <3>0. PICK q \in R : \E k \in DOMAIN Own(root, d, q) : p = Append(q, k)
      BY <1>2, <2>2
    <3>1. PICK k \in DOMAIN Own(root, d, q) : p = Append(q, k)
      BY <3>0
    <3>2. q \in Seq(TraceKeys) /\ k \in TraceKeys
      BY Zenon, <1>1, PlacedNames DEF Own, Closed
    <3>. HIDE DEF R
    <3>3. Append(q, k) \in Seq(TraceKeys) /\ TP!Above(Append(q, k)) = q
      BY <3>2, PositionUnder
    <3>. QED  BY <1>2, <3>1, <3>3
  <2>. QED  BY <2>1, <2>2
<1>. QED  BY <1>1, <1>2, <1>3, <1>4 DEF Closed

\* The keys at a position the projector came to but builds anew are those of
\* what it places; where it goes on, they are its own and those it keeps.
LEMMA ProjectedKeys ==
  ASSUME NEW root, NEW d, Closed(d), NEW s, s = TP!Project(root, d),
         NEW q \in TP!Reached(root, d), NEW k
  PROVE  k \in TP!Keys(s, q) <=>
           \/ k \in DOMAIN Own(root, d, q)
           \/ k \in TraceKeys /\ Append(q, k) \in TP!Reached(root, d)
<1>. DEFINE R == TP!Reached(root, d)
<1>1. Closed(s) /\ q \in Seq(TraceKeys) /\ R \subseteq Seq(TraceKeys)
  BY ProjectedIsClosed, ReachedStep DEF Closed
<1>2. k \in TP!Keys(s, q) <=> k \in TraceKeys /\ Append(q, k) \in DOMAIN s
  BY <1>1, KeysAre
<1>3. /\ \A p \in R : p \in DOMAIN s
      /\ \A l \in DOMAIN Own(root, d, q) : Append(q, l) \in DOMAIN s /\ l \in TraceKeys
  BY Zenon, ProjectedAt, PlacedNames DEF Own
<1>4. ASSUME k \in TraceKeys, Append(q, k) \in DOMAIN s, Append(q, k) \notin R
      PROVE  k \in DOMAIN Own(root, d, q)
  <2>5. \A p \in DOMAIN s : p \notin R => \E r \in R : \E l \in DOMAIN Own(root, d, r) : p = Append(r, l)
    BY ProjectedAt
  <2>0. PICK r \in R : \E l \in DOMAIN Own(root, d, r) : Append(q, k) = Append(r, l)
    <3>. HIDE DEF R
    <3>. QED  BY Zenon, <1>4, <2>5
  <2>1. PICK l \in DOMAIN Own(root, d, r) : Append(q, k) = Append(r, l)
    BY <2>0
  <2>2. l \in TraceKeys
    BY Zenon, <2>1, PlacedNames DEF Own
  <2>4. r \in Seq(TraceKeys)
    BY <1>1
  <2>. HIDE DEF R
  <2>3. q = r /\ k = l
    BY <1>1, <1>4, <2>1, <2>2, <2>4, SamePosition
  <2>. QED  BY <2>1, <2>3
<1>. QED  BY <1>2, <1>3, <1>4

-----------------------------------------------------------------------------
(* TraceProjection: the projection is a fixed point.                       *)

\* What is shown is shown again.
LEMMA ShownAgain ==
  ASSUME NEW node, NEW v
  PROVE  /\ TP!Shown(node, TP!Shown(node, v)) = TP!Shown(node, v)
         /\ TP!Shown(node, v) \in {v, TP!Redacted}
         /\ TP!Opens(node, TP!Shown(node, v)) <=> TP!Opens(node, v)
         /\ node.n \in {"trigger", "call"} => (TP!Shown(node, v).t = "dict" <=> v.t = "dict")
<1>. DEFINE fine(w) == \/ w = TP!Null \/ TP!Opens(node, w)
                       \/ node.n = "leaf" /\ TP!Class(w) \in node.classes
                       \/ node.n \in {"trigger", "call"} /\ w.t = "dict"
<1>1. \A w : TP!Shown(node, w) = IF fine(w) THEN w ELSE TP!Redacted
  BY DEF TP!Shown
<1>2. TP!Redacted.t = "str"
  BY DEF TP!Redacted, TP!Str
<1>3. ~TP!Opens(node, TP!Redacted)
  BY <1>2 DEF TP!Opens
<1>4. CASE fine(v)
  <2>. HIDE DEF fine
  <2>. QED  BY <1>1, <1>4
<1>5. CASE ~fine(v)
  <2>1. TP!Shown(node, v) = TP!Redacted /\ ~TP!Opens(node, v)
    BY <1>1, <1>5
  <2>2. node.n \in {"trigger", "call"} => v.t # "dict"
    BY <1>5
  <2>. HIDE DEF fine
  <2>. QED  BY <1>1, <1>2, <1>3, <2>1, <2>2
<1>. QED  BY <1>4, <1>5

\* The projector comes to the same positions again, and to nothing it placed.
LEMMA ReachedAgain ==
  ASSUME NEW root, NEW d, Closed(d), NEW s, s = TP!Project(root, d)
  PROVE  TP!Reached(root, s) = TP!Reached(root, d)
<1>. DEFINE R == TP!Reached(root, d)
            Q == TP!Reached(root, s)
            Good == {p \in Seq(TraceKeys) : p \in Q <=> p \in R}
<1>1. Closed(s)
  BY ProjectedIsClosed
<1>2. /\ <<>> \in R /\ <<>> \in Q /\ R \subseteq Seq(TraceKeys) /\ Q \subseteq Seq(TraceKeys)
  BY <1>1, ReachedStep DEF Closed
<1>3. ASSUME NEW q \in Seq(TraceKeys), NEW k \in TraceKeys, q \in Q <=> q \in R
      PROVE  Append(q, k) \in Q <=> Append(q, k) \in R
  <2>. DEFINE goes(x) == TP!Opens(TP!NodeAt(root, q), x) /\ TP!Kept(TP!NodeAt(root, q), k)
  <2>1. Append(q, k) \in R <=> Append(q, k) \in DOMAIN d /\ q \in R /\ goes(d[q])
    BY ReachedStep
  <2>2. Append(q, k) \in Q <=> Append(q, k) \in DOMAIN s /\ q \in Q /\ goes(s[q])
    BY <1>1, ReachedStep
  <2>3. q \in R => (goes(s[q]) <=> goes(d[q]))
    <3>1. q \in R => s[q] = TP!Shown(TP!NodeAt(root, q), d[q])
      BY ProjectedAt
    <3>. QED  BY <3>1, ShownAgain
  <2>4. Append(q, k) \in R => Append(q, k) \in DOMAIN s
    BY ProjectedAt
  <2>5. ASSUME q \in R, goes(d[q]), Append(q, k) \in DOMAIN s PROVE Append(q, k) \in R
    <3>1. SUFFICES ASSUME Append(q, k) \notin R PROVE FALSE
      OBVIOUS
    <3>2. k \in TP!Keys(s, q)
      BY <1>1, <2>5, KeysAre
    <3>3. k \in DOMAIN Own(root, d, q)
      BY <2>5, <3>1, <3>2, ProjectedKeys
    <3>. QED  BY Zenon, <2>5, <3>3, PlacedNames DEF Own
  <2>. HIDE DEF goes, R, Q
  <2>. QED  BY <1>3, <2>1, <2>2, <2>3, <2>4, <2>5
<1>4. Seq(TraceKeys) \subseteq Good
  <2>1. <<>> \in Good
    BY <1>2
  <2>2. \A q \in Seq(TraceKeys), k \in TraceKeys : q \in Good => Append(q, k) \in Good
    <3>. HIDE DEF R, Q
    <3>1. \A q \in Seq(TraceKeys), k \in TraceKeys : Append(q, k) \in Seq(TraceKeys)
      BY PositionUnder
    <3>. QED  BY <1>3, <3>1
  <2>. HIDE DEF Good
  <2>. QED  BY <2>1, <2>2, PositionInduction
<1>. HIDE DEF R, Q
<1>5. \A p : p \in Q <=> p \in R
  BY <1>2, <1>4
<1>6. Q = R
  BY <1>5
<1>. QED  BY <1>6 DEF R, Q

\* A number that is not above n is at most one of them, the largest.
LEMMA FloorIs ==
  ASSUME NEW n \in Nat, n # 0
  PROVE  /\ TP!Floor(n) \in SizePowers /\ TP!Floor(n) <= n
         /\ \A p \in SizePowers : p <= n => p <= TP!Floor(n)
<1>. DEFINE top(m, x) == x \in SizePowers /\ x <= m /\ \A p \in SizePowers : p <= m => p <= x
            S == {m \in 0 .. n : m > 0 => \E x : top(m, x)}
<1>1. SizePowers \subseteq Nat \ {0} /\ 1 \in SizePowers
  BY ProjectionAssumption
<1>2. 0 \in S
  OBVIOUS
<1>3. ASSUME NEW m \in 0 .. n - 1, m \in S PROVE m + 1 \in S
  <2>1. CASE m + 1 \in SizePowers
    <3>1. top(m + 1, m + 1)
      BY <2>1
    <3>. QED  BY <3>1
  <2>2. CASE m + 1 \notin SizePowers
    <3>1. m > 0
      BY <1>1, <2>2
    <3>2. PICK x : top(m, x)
      BY <1>3, <3>1
    <3>3. ASSUME NEW p \in SizePowers, p <= m + 1 PROVE p <= m
      BY <1>1, <2>2, <3>3
    <3>4. top(m + 1, x)
      BY <1>1, <3>2, <3>3
    <3>. QED  BY <3>4
  <2>. QED  BY <2>1, <2>2
<1>4. 0 .. n \subseteq S
  <2>. HIDE DEF S
  <2>. QED  BY <1>2, <1>3, IntervalInduction
<1>5. \E x : top(n, x)
  BY <1>4
<1>6. \E x \in SizePowers : x <= n /\ \A p \in SizePowers : p <= n => p <= x
  BY <1>5
<1>. QED  BY <1>6 DEF TP!Floor

\* A size that was bounded stays.
LEMMA BoundedAgain ==
  ASSUME NEW n \in Nat
  PROVE  \E m \in Nat : TP!BoundedSize(n) = TP!Num(m) /\ TP!BoundedSize(m) = TP!Num(m)
<1>1. CASE n = 0
  BY <1>1 DEF TP!BoundedSize
<1>2. CASE n # 0
  <2>. DEFINE m == TP!Floor(n)
  <2>1. m \in SizePowers /\ m <= n
    BY <1>2, FloorIs
  <2>2. SizePowers \subseteq Nat \ {0}
    BY ProjectionAssumption
  <2>3. m \in Nat /\ m # 0
    BY Zenon, <2>1, <2>2
  <2>4. TP!Floor(m) \in SizePowers /\ TP!Floor(m) <= m /\ m <= TP!Floor(m)
    BY <2>1, <2>3, FloorIs
  <2>. HIDE DEF m
  <2>5. TP!Floor(m) = m
    <3>1. TP!Floor(m) \in Nat
      BY Zenon, <2>2, <2>4
    <3>. QED  BY <2>3, <2>4, <3>1
  <2>. QED  BY <1>2, <2>3, <2>5 DEF m, TP!BoundedSize
<1>. QED  BY <1>1, <1>2

\* And so does a number of keys.
LEMMA ArityAgain ==
  ASSUME NEW v
  PROVE  TP!BoundedArity(TP!BoundedArity(v)) = TP!BoundedArity(v)
<1>1. MaxArity \in Nat
  BY ProjectionAssumption
<1>. QED  BY <1>1 DEF TP!BoundedArity, TP!Num

\* What two functions make together.
LEMMA BothAt ==
  ASSUME NEW m, NEW n
  PROVE  /\ TP!Both(m, n) = [k \in DOMAIN TP!Both(m, n) |-> TP!Both(m, n)[k]]
         /\ \A k : k \in DOMAIN TP!Both(m, n) <=> k \in DOMAIN m \/ k \in DOMAIN n
         /\ \A k \in DOMAIN m : TP!Both(m, n)[k] = m[k]
         /\ \A k \in DOMAIN n : k \notin DOMAIN m => TP!Both(m, n)[k] = n[k]
BY DEF TP!Both

\* Whether a record of a call is one that was projected.
Again(d, q) == {"input", "result"} \cap TP!Keys(d, q) = {} /\ "input_key_count" \in TP!Keys(d, q)

\* Whether its result failed, and has content.
Failed(d, q) == LET v == TP!Entry(d, q, "result") IN v.t = "result" /\ v.failed
Sized(d, q) == LET v == TP!Entry(d, q, "result") IN v.t = "result" /\ v.size > 0

\* The fields of a call that is measured.
LEMMA MeasuredAt ==
  ASSUME NEW d, NEW q, NEW call, call = TP!Measured(d, q)
  PROVE  /\ DOMAIN call = {"input_key_count", "result_ok", "error_present"}
                            \cup (IF Sized(d, q) THEN {"content_bytes"} ELSE {})
         /\ call["input_key_count"] =
              TP!BoundedArity(TP!Num(Cardinality(TP!Keys(d, Append(q, "input")))))
         /\ call["result_ok"] = TP!Bool(~Failed(d, q)) /\ call["error_present"] = TP!Bool(Failed(d, q))
         /\ Sized(d, q) => call["content_bytes"] = TP!BoundedSize(TP!Entry(d, q, "result").size)
<1>. DEFINE v == TP!Entry(d, q, "result")
            count == TP!BoundedArity(TP!Num(TP!Cardinality(TP!Keys(d, Append(q, "input")))))
            ok == TP!Bool(~(v.t = "result" /\ v.failed))
            bad == TP!Bool(v.t = "result" /\ v.failed)
            own == [input_key_count |-> count, result_ok |-> ok, error_present |-> bad]
            names == IF v.t = "result" /\ v.size > 0 THEN {"content_bytes"} ELSE {}
            size == TP!BoundedSize(v.size)
            more == [k \in names |-> size]
<1>1. call = TP!Both(own, more)
  BY DEF TP!Measured, TP!\oplus
<1>2. TP!Cardinality(TP!Keys(d, Append(q, "input"))) = Cardinality(TP!Keys(d, Append(q, "input")))
  BY DEF TP!Cardinality, Cardinality
<1>3. ok = TP!Bool(~Failed(d, q)) /\ bad = TP!Bool(Failed(d, q))
  BY DEF Failed
<1>4. names = IF Sized(d, q) THEN {"content_bytes"} ELSE {}
  BY DEF Sized
<1>. HIDE DEF count, ok, bad, names, size
<1>5. /\ DOMAIN own = {"input_key_count", "result_ok", "error_present"} /\ DOMAIN more = names
      /\ own["input_key_count"] = count /\ own["result_ok"] = ok /\ own["error_present"] = bad
      /\ \A k \in names : more[k] = size
  OBVIOUS
<1>. HIDE DEF own, more
<1>6. /\ \A k : k \in DOMAIN call <=> k \in DOMAIN own \/ k \in DOMAIN more
      /\ \A k \in DOMAIN own : call[k] = own[k]
      /\ \A k \in DOMAIN more : k \notin DOMAIN own => call[k] = more[k]
  BY <1>1, BothAt
<1>7. call["input_key_count"] = count /\ call["result_ok"] = ok /\ call["error_present"] = bad
  BY <1>5, <1>6
<1>8. DOMAIN call = {"input_key_count", "result_ok", "error_present"} \cup names
  BY <1>5, <1>6
<1>9. ASSUME Sized(d, q) PROVE call["content_bytes"] = size
  <2>1. "content_bytes" \in names
    BY <1>4, <1>9
  <2>2. "content_bytes" \notin DOMAIN own
    BY <1>5
  <2>. QED  BY <1>5, <1>6, <2>1, <2>2
<1>10. size = TP!BoundedSize(TP!Entry(d, q, "result").size)
  BY DEF size
<1>11. count = TP!BoundedArity(TP!Num(Cardinality(TP!Keys(d, Append(q, "input")))))
  BY <1>2 DEF count
<1>. QED  BY <1>3, <1>4, <1>7, <1>8, <1>9, <1>10, <1>11

\* The fields of one that is read back.
LEMMA ReadAgainAt ==
  ASSUME NEW d, NEW q, NEW call, call = TP!ReadAgain(d, q)
  PROVE  /\ DOMAIN call = {"input_key_count", "result_ok", "error_present"}
                            \cup (IF TP!Entry(d, q, "content_bytes").t = "num" THEN {"content_bytes"} ELSE {})
         /\ call["input_key_count"] = TP!BoundedArity(TP!Entry(d, q, "input_key_count"))
         /\ call["result_ok"] = TP!Bool(TP!Truthy(d, q, "result_ok"))
         /\ call["error_present"] = TP!Bool(TP!Truthy(d, q, "error_present"))
         /\ TP!Entry(d, q, "content_bytes").t = "num" =>
              call["content_bytes"] = TP!BoundedSize(TP!Entry(d, q, "content_bytes").n)
<1>. DEFINE v == TP!Entry(d, q, "content_bytes")
            count == TP!BoundedArity(TP!Entry(d, q, "input_key_count"))
            ok == TP!Bool(TP!Truthy(d, q, "result_ok"))
            bad == TP!Bool(TP!Truthy(d, q, "error_present"))
            own == [input_key_count |-> count, result_ok |-> ok, error_present |-> bad]
            names == IF v.t = "num" THEN {"content_bytes"} ELSE {}
            size == TP!BoundedSize(v.n)
            more == [k \in names |-> size]
<1>1. call = TP!Both(own, more)
  BY DEF TP!ReadAgain, TP!\oplus
<1>2. v.t = "num" => "content_bytes" \in names
  OBVIOUS
<1>3. names = IF v.t = "num" THEN {"content_bytes"} ELSE {}
  OBVIOUS
<1>. HIDE DEF count, ok, bad, names, size
<1>5. /\ DOMAIN own = {"input_key_count", "result_ok", "error_present"} /\ DOMAIN more = names
      /\ own["input_key_count"] = count /\ own["result_ok"] = ok /\ own["error_present"] = bad
      /\ \A k \in names : more[k] = size
  OBVIOUS
<1>. HIDE DEF own, more
<1>6. /\ \A k : k \in DOMAIN call <=> k \in DOMAIN own \/ k \in DOMAIN more
      /\ \A k \in DOMAIN own : call[k] = own[k]
      /\ \A k \in DOMAIN more : k \notin DOMAIN own => call[k] = more[k]
  BY <1>1, BothAt
<1>7. call["input_key_count"] = count /\ call["result_ok"] = ok /\ call["error_present"] = bad
  BY <1>5, <1>6
<1>8. DOMAIN call = {"input_key_count", "result_ok", "error_present"} \cup names
  BY <1>5, <1>6
<1>9. ASSUME v.t = "num" PROVE call["content_bytes"] = size
  <2>1. "content_bytes" \in names
    BY <1>2, <1>9
  <2>2. "content_bytes" \notin DOMAIN own
    BY <1>5
  <2>. QED  BY <1>5, <1>6, <2>1, <2>2
<1>. QED  BY <1>3, <1>7, <1>8, <1>9 DEF count, ok, bad, size

\* The fields of the record that is made of a call: its marks, and those of
\* the measured one or of the one read back.
LEMMA CallAt ==
  ASSUME NEW d, NEW q, NEW call, call = TP!SafeToolCall(d, q),
         NEW rest, rest = IF Again(d, q) THEN TP!ReadAgain(d, q) ELSE TP!Measured(d, q)
  PROVE  /\ call = [k \in DOMAIN call |-> call[k]]
         /\ \A k \in DOMAIN call : k \in CallFields \/ k = "content_bytes"
         /\ \A k \in CallFields : k \in DOMAIN call
         /\ "content_bytes" \in DOMAIN call <=> "content_bytes" \in DOMAIN rest
         /\ call["name"] = TP!Redacted /\ call["_redacted"] = TP!Redacted
         /\ call["pinned_present"] = TP!Present(d, q, "pinned", "pinned_present")
         /\ call["pin_overrides_present"] = TP!Present(d, q, "pin_overrides", "pin_overrides_present")
         /\ \A k \in {"input_key_count", "result_ok", "error_present"} : call[k] = rest[k]
         /\ "content_bytes" \in DOMAIN rest => call["content_bytes"] = rest["content_bytes"]
<1>. DEFINE pinned == TP!Present(d, q, "pinned", "pinned_present")
            overrides == TP!Present(d, q, "pin_overrides", "pin_overrides_present")
            own == [name |-> TP!Redacted, _redacted |-> TP!Redacted,
                    pinned_present |-> pinned, pin_overrides_present |-> overrides]
<1>1. call = TP!Both(own, rest)
  BY DEF TP!SafeToolCall, TP!\oplus, Again
<1>2. \A k \in {"input_key_count", "result_ok", "error_present"} : k \in DOMAIN rest
  <2>1. CASE Again(d, q)
    BY Zenon, <2>1, ReadAgainAt
  <2>2. CASE ~Again(d, q)
    BY Zenon, <2>2, MeasuredAt
  <2>. QED  BY <2>1, <2>2
<1>3. CallFields \subseteq DOMAIN call /\ DOMAIN call \subseteq CallFields \cup {"content_bytes"}
  BY CallNames
<1>. HIDE DEF pinned, overrides
<1>4. /\ DOMAIN own = {"name", "_redacted", "pinned_present", "pin_overrides_present"}
      /\ own["name"] = TP!Redacted /\ own["_redacted"] = TP!Redacted
      /\ own["pinned_present"] = pinned /\ own["pin_overrides_present"] = overrides
  OBVIOUS
<1>. HIDE DEF own
<1>5. /\ call = [k \in DOMAIN call |-> call[k]]
      /\ \A k : k \in DOMAIN call <=> k \in DOMAIN own \/ k \in DOMAIN rest
      /\ \A k \in DOMAIN own : call[k] = own[k]
      /\ \A k \in DOMAIN rest : k \notin DOMAIN own => call[k] = rest[k]
  BY <1>1, BothAt
<1>6. \A k \in {"input_key_count", "result_ok", "error_present"} : call[k] = rest[k]
  BY <1>2, <1>4, <1>5
<1>7. "content_bytes" \notin DOMAIN own
  BY <1>4
<1>8. /\ call["name"] = TP!Redacted /\ call["_redacted"] = TP!Redacted
      /\ call["pinned_present"] = pinned /\ call["pin_overrides_present"] = overrides
  BY <1>4, <1>5
<1>9. "content_bytes" \in DOMAIN rest => call["content_bytes"] = rest["content_bytes"]
  BY <1>5, <1>7
<1>. QED  BY <1>3, <1>5, <1>6, <1>7, <1>8, <1>9 DEF pinned, overrides

\* Two records of calls are the same whose fields are.
LEMMA SameCall ==
  ASSUME NEW d, NEW e, NEW q,
         \A k \in CallFields : TP!SafeToolCall(d, q)[k] = TP!SafeToolCall(e, q)[k],
         "content_bytes" \in DOMAIN TP!SafeToolCall(d, q) <=> "content_bytes" \in DOMAIN TP!SafeToolCall(e, q),
         "content_bytes" \in DOMAIN TP!SafeToolCall(d, q) =>
           TP!SafeToolCall(d, q)["content_bytes"] = TP!SafeToolCall(e, q)["content_bytes"]
  PROVE  TP!SafeToolCall(d, q) = TP!SafeToolCall(e, q)
<1>. DEFINE c == TP!SafeToolCall(d, q)
            b == TP!SafeToolCall(e, q)
<1>1. /\ c = [k \in DOMAIN c |-> c[k]] /\ \A k \in CallFields : k \in DOMAIN c
      /\ \A k \in DOMAIN c : k \in CallFields \/ k = "content_bytes"
  BY CallAt
<1>2. /\ b = [k \in DOMAIN b |-> b[k]] /\ \A k \in CallFields : k \in DOMAIN b
      /\ \A k \in DOMAIN b : k \in CallFields \/ k = "content_bytes"
  BY CallAt
<1>. HIDE DEF c, b
<1>3. \A k : k \in DOMAIN c <=> k \in DOMAIN b
  BY <1>1, <1>2 DEF c, b
<1>4. DOMAIN c = DOMAIN b
  BY <1>3
<1>5. \A k \in DOMAIN c : c[k] = b[k]
  BY <1>1 DEF c, b
<1>6. c = b
  BY <1>1, <1>2, <1>4, <1>5
<1>. QED  BY <1>6 DEF c, b

\* What is in a document are values.
Valued(d) == \A p \in DOMAIN d : TP!IsValue(d[p])

\* So are its entries, a missing one too.
LEMMA EntryIsValue ==
  ASSUME NEW d, Valued(d), NEW q, NEW k
  PROVE  TP!IsValue(TP!Entry(d, q, k))
BY DEF Valued, TP!Entry, TP!IsValue

\* What a value says as a condition is one or the other.
LEMMA TruthyIsBoolean ==
  ASSUME NEW d, Valued(d), NEW q, NEW k
  PROVE  TP!Truthy(d, q, k) \in BOOLEAN
<1>. DEFINE v == TP!Entry(d, q, k)
<1>1. TP!IsValue(v)
  BY EntryIsValue
<1>2. v.t = "bool" => v.b \in BOOLEAN
  <2>. HIDE DEF v
  <2>. QED  BY <1>1 DEF TP!IsValue, TP!Null, TP!Dict, TP!List, TP!Str, TP!Num, TP!Bool, TP!Result
<1>3. TP!Truthy(d, q, k) =
        CASE v.t = "null" -> FALSE [] v.t = "bool" -> v.b [] v.t = "num" -> v.n > 0
          [] v.t \in {"list", "dict"} -> TP!Keys(d, Append(q, k)) # {} [] OTHER -> TRUE
  BY DEF TP!Truthy
<1>. HIDE DEF v
<1>4. CASE v.t = "bool"
  BY <1>2, <1>3, <1>4
<1>5. CASE v.t = "null"
  BY <1>3, <1>5
<1>6. CASE v.t = "num"
  BY <1>3, <1>6
<1>7. CASE v.t \in {"list", "dict"}
  BY <1>3, <1>7
<1>8. CASE v.t \notin {"bool", "null", "num", "list", "dict"}
  BY Zenon, <1>3, <1>8
<1>. QED  BY <1>4, <1>5, <1>6, <1>7, <1>8

\* The values of the record of a call.
LEMMA CallValues ==
  ASSUME NEW d, Valued(d), NEW q, NEW call, call = TP!SafeToolCall(d, q)
  PROVE  /\ \A k \in {"pinned_present", "pin_overrides_present", "result_ok", "error_present"} :
              \E b \in BOOLEAN : call[k] = TP!Bool(b)
         /\ \E v : call["input_key_count"] = TP!BoundedArity(v)
         /\ "content_bytes" \in DOMAIN call => \E n \in Nat : call["content_bytes"] = TP!BoundedSize(n)
<1>. DEFINE rest == IF Again(d, q) THEN TP!ReadAgain(d, q) ELSE TP!Measured(d, q)
<1>0. rest = IF Again(d, q) THEN TP!ReadAgain(d, q) ELSE TP!Measured(d, q)
  OBVIOUS
<1>. HIDE DEF rest
<1>1. /\ call["pinned_present"] = TP!Present(d, q, "pinned", "pinned_present")
      /\ call["pin_overrides_present"] = TP!Present(d, q, "pin_overrides", "pin_overrides_present")
      /\ call["input_key_count"] = rest["input_key_count"]
      /\ call["result_ok"] = rest["result_ok"] /\ call["error_present"] = rest["error_present"]
      /\ "content_bytes" \in DOMAIN call <=> "content_bytes" \in DOMAIN rest
      /\ "content_bytes" \in DOMAIN rest => call["content_bytes"] = rest["content_bytes"]
  BY <1>0, CallAt
<1>2. ASSUME NEW names, NEW flag PROVE \E b \in BOOLEAN : TP!Present(d, q, names, flag) = TP!Bool(b)
  <2>. DEFINE has == TP!HasToken(d, q, names) \/ TP!Entry(d, q, flag) = TP!Bool(TRUE)
  <2>1. has \in BOOLEAN /\ TP!Present(d, q, names, flag) = TP!Bool(has)
    BY Zenon DEF TP!Present
  <2>. QED  BY Zenon, <2>1
<1>3. CASE Again(d, q)
  <2>1. rest = TP!ReadAgain(d, q)
    BY <1>0, <1>3
  <2>2. /\ DOMAIN rest = {"input_key_count", "result_ok", "error_present"}
                           \cup (IF TP!Entry(d, q, "content_bytes").t = "num" THEN {"content_bytes"} ELSE {})
        /\ rest["input_key_count"] = TP!BoundedArity(TP!Entry(d, q, "input_key_count"))
        /\ rest["result_ok"] = TP!Bool(TP!Truthy(d, q, "result_ok"))
        /\ rest["error_present"] = TP!Bool(TP!Truthy(d, q, "error_present"))
        /\ TP!Entry(d, q, "content_bytes").t = "num" =>
             rest["content_bytes"] = TP!BoundedSize(TP!Entry(d, q, "content_bytes").n)
    BY <2>1, ReadAgainAt
  <2>3. TP!Truthy(d, q, "result_ok") \in BOOLEAN /\ TP!Truthy(d, q, "error_present") \in BOOLEAN
    BY TruthyIsBoolean
  <2>4. ASSUME "content_bytes" \in DOMAIN rest PROVE \E n \in Nat : rest["content_bytes"] = TP!BoundedSize(n)
    <3>. DEFINE v == TP!Entry(d, q, "content_bytes")
    <3>1. TP!IsValue(v)
      BY EntryIsValue
    <3>2. v.t = "num"
      BY <2>2, <2>4
    <3>3. rest["content_bytes"] = TP!BoundedSize(v.n)
      BY <2>2, <3>2
    <3>. HIDE DEF v
    <3>4. v.n \in Nat
      BY <3>1, <3>2 DEF TP!IsValue, TP!Null, TP!Dict, TP!List, TP!Str, TP!Num, TP!Bool, TP!Result
    <3>. QED  BY <3>3, <3>4
  <2>5. (\E b \in BOOLEAN : rest["result_ok"] = TP!Bool(b)) /\ \E b \in BOOLEAN : rest["error_present"] = TP!Bool(b)
    BY <2>2, <2>3, Zenon
  <2>. QED  BY <1>1, <1>2, <2>2, <2>4, <2>5
<1>4. CASE ~Again(d, q)
  <2>1. rest = TP!Measured(d, q)
    BY <1>0, <1>4
  <2>2. /\ DOMAIN rest = {"input_key_count", "result_ok", "error_present"}
                           \cup (IF Sized(d, q) THEN {"content_bytes"} ELSE {})
        /\ \E v : rest["input_key_count"] = TP!BoundedArity(v)
        /\ rest["result_ok"] = TP!Bool(~Failed(d, q)) /\ rest["error_present"] = TP!Bool(Failed(d, q))
        /\ Sized(d, q) => rest["content_bytes"] = TP!BoundedSize(TP!Entry(d, q, "result").size)
    BY <2>1, MeasuredAt
  <2>. DEFINE w == TP!Entry(d, q, "result")
  <2>3. TP!IsValue(w)
    BY EntryIsValue
  <2>4. (w.t = "result" => w.failed \in BOOLEAN /\ w.size \in Nat)
    <3>. HIDE DEF w
    <3>. QED  BY <2>3 DEF TP!IsValue, TP!Null, TP!Dict, TP!List, TP!Str, TP!Num, TP!Bool, TP!Result
  <2>5. Failed(d, q) \in BOOLEAN /\ (~Failed(d, q)) \in BOOLEAN
    BY <2>4, Zenon DEF Failed
  <2>6. ASSUME "content_bytes" \in DOMAIN rest PROVE \E n \in Nat : rest["content_bytes"] = TP!BoundedSize(n)
    <3>1. Sized(d, q)
      BY <2>2, <2>6
    <3>2. w.size \in Nat
      BY <2>4, <3>1 DEF Sized
    <3>. QED  BY <2>2, <3>1, <3>2
  <2>7. (\E b \in BOOLEAN : rest["result_ok"] = TP!Bool(b)) /\ \E b \in BOOLEAN : rest["error_present"] = TP!Bool(b)
    BY <2>2, <2>5, Zenon
  <2>. QED  BY <1>1, <1>2, <2>2, <2>6, <2>7
<1>. QED  BY <1>3, <1>4

\* The record of a call is its own record.
LEMMA CallAgain ==
  ASSUME NEW d, Valued(d), NEW q \in Seq(TraceKeys), NEW call, call = TP!SafeToolCall(d, q),
         NEW s, Closed(s), \A k : k \in TP!Keys(s, q) <=> k \in DOMAIN call,
         \A k \in DOMAIN call : s[Append(q, k)] = call[k]
  PROVE  TP!SafeToolCall(s, q) = call
<1>. DEFINE again == TP!SafeToolCall(s, q)
            rest == TP!ReadAgain(s, q)
<1>1. \A k : k \in TP!Keys(s, q) <=> k \in TraceKeys /\ Append(q, k) \in DOMAIN s
  BY KeysAre
<1>2. /\ \A k \in CallFields : k \in DOMAIN call
      /\ \A k \in DOMAIN call : k \in CallFields \/ k = "content_bytes"
      /\ call["name"] = TP!Redacted /\ call["_redacted"] = TP!Redacted
  BY CallAt
<1>3. CallFields \cup {"content_bytes", "input", "result", "pinned", "pin_overrides"} \subseteq TraceKeys
  BY ProjectionAssumption DEF TP!OwnNames, CallFields
<1>4. \A k \in TraceKeys : TP!Entry(s, q, k) = IF k \in DOMAIN call THEN call[k] ELSE TP!Null
  <2>. SUFFICES ASSUME NEW k \in TraceKeys
                PROVE  TP!Entry(s, q, k) = IF k \in DOMAIN call THEN call[k] ELSE TP!Null
    OBVIOUS
  <2>1. Append(q, k) \in DOMAIN s <=> k \in DOMAIN call
    BY <1>1
  <2>. QED  BY <2>1 DEF TP!Entry
<1>5. Again(s, q)
  <2>1. "input_key_count" \in TP!Keys(s, q)
    BY <1>2 DEF CallFields
  <2>2. "input" \notin TP!Keys(s, q) /\ "result" \notin TP!Keys(s, q)
    BY <1>2 DEF CallFields
  <2>. QED  BY <2>1, <2>2 DEF Again
<1>6. /\ again["name"] = TP!Redacted /\ again["_redacted"] = TP!Redacted
      /\ again["pinned_present"] = TP!Present(s, q, "pinned", "pinned_present")
      /\ again["pin_overrides_present"] = TP!Present(s, q, "pin_overrides", "pin_overrides_present")
      /\ again["input_key_count"] = rest["input_key_count"]
      /\ again["result_ok"] = rest["result_ok"] /\ again["error_present"] = rest["error_present"]
      /\ "content_bytes" \in DOMAIN again <=> "content_bytes" \in DOMAIN rest
      /\ "content_bytes" \in DOMAIN rest => again["content_bytes"] = rest["content_bytes"]
  <2>1. rest = IF Again(s, q) THEN TP!ReadAgain(s, q) ELSE TP!Measured(s, q)
    BY <1>5
  <2>. HIDE DEF rest
  <2>. QED  BY <2>1, CallAt
<1>7. /\ DOMAIN rest = {"input_key_count", "result_ok", "error_present"}
                         \cup (IF TP!Entry(s, q, "content_bytes").t = "num" THEN {"content_bytes"} ELSE {})
      /\ rest["input_key_count"] = TP!BoundedArity(TP!Entry(s, q, "input_key_count"))
      /\ rest["result_ok"] = TP!Bool(TP!Truthy(s, q, "result_ok"))
      /\ rest["error_present"] = TP!Bool(TP!Truthy(s, q, "error_present"))
      /\ TP!Entry(s, q, "content_bytes").t = "num" =>
           rest["content_bytes"] = TP!BoundedSize(TP!Entry(s, q, "content_bytes").n)
  BY Zenon, ReadAgainAt
<1>8. /\ \A k \in {"pinned_present", "pin_overrides_present", "result_ok", "error_present"} :
           \E b \in BOOLEAN : call[k] = TP!Bool(b)
      /\ \E v : call["input_key_count"] = TP!BoundedArity(v)
      /\ "content_bytes" \in DOMAIN call => \E n \in Nat : call["content_bytes"] = TP!BoundedSize(n)
  BY CallValues
<1>. HIDE DEF again, rest
<1>9. ASSUME NEW names \in {"pinned", "pin_overrides"}, NEW flag \in {"pinned_present", "pin_overrides_present"}
      PROVE  TP!Present(s, q, names, flag) = call[flag]
  <2>1. names \in TraceKeys /\ names \notin DOMAIN call
    BY <1>2, <1>3 DEF CallFields
  <2>2. TP!Entry(s, q, names) = TP!Null
    BY <1>4, <2>1
  <2>3. ~TP!HasToken(s, q, names)
    BY <2>2 DEF TP!HasToken, TP!Null
  <2>4. flag \in TraceKeys /\ flag \in DOMAIN call
    BY <1>2, <1>3 DEF CallFields
  <2>5. TP!Entry(s, q, flag) = call[flag]
    BY <1>4, <2>4
  <2>6. PICK b \in BOOLEAN : call[flag] = TP!Bool(b)
    BY <1>8
  <2>7. TP!Present(s, q, names, flag) = TP!Bool(TP!Bool(b) = TP!Bool(TRUE))
    BY <2>3, <2>5, <2>6, Zenon DEF TP!Present
  <2>8. (TP!Bool(b) = TP!Bool(TRUE)) = b
    <3>1. TP!Bool(b).b = b /\ TP!Bool(TRUE).b = TRUE
      BY DEF TP!Bool
    <3>2. CASE b = TRUE
      BY Zenon, <3>2
    <3>3. CASE b = FALSE
      <4>1. TP!Bool(b) # TP!Bool(TRUE)
        BY Zenon, <3>1, <3>3
      <4>. QED  BY Zenon, <3>3, <4>1
    <3>. QED  BY Zenon, <3>2, <3>3
  <2>. QED  BY Zenon, <2>6, <2>7, <2>8
<1>10. ASSUME NEW k \in {"result_ok", "error_present"} PROVE TP!Bool(TP!Truthy(s, q, k)) = call[k]
  <2>1. k \in TraceKeys /\ k \in DOMAIN call
    BY <1>2, <1>3 DEF CallFields
  <2>2. PICK b \in BOOLEAN : call[k] = TP!Bool(b)
    BY <1>8
  <2>3. TP!Entry(s, q, k) = TP!Bool(b)
    BY <1>4, <2>1, <2>2
  <2>4. TP!Bool(b).t = "bool" /\ TP!Bool(b).b = b
    BY DEF TP!Bool
  <2>5. TP!Truthy(s, q, k) = b
    BY <2>3, <2>4 DEF TP!Truthy
  <2>. QED  BY <2>2, <2>5
<1>11. again["input_key_count"] = call["input_key_count"]
  <2>1. "input_key_count" \in TraceKeys /\ "input_key_count" \in DOMAIN call
    BY <1>2, <1>3 DEF CallFields
  <2>2. TP!Entry(s, q, "input_key_count") = call["input_key_count"]
    BY <1>4, <2>1
  <2>. QED  BY <1>6, <1>7, <1>8, <2>2, ArityAgain
<1>12. /\ "content_bytes" \in DOMAIN again <=> "content_bytes" \in DOMAIN call
       /\ "content_bytes" \in DOMAIN call => again["content_bytes"] = call["content_bytes"]
  <2>. DEFINE v == TP!Entry(s, q, "content_bytes")
  <2>1. v = IF "content_bytes" \in DOMAIN call THEN call["content_bytes"] ELSE TP!Null
    BY <1>3, <1>4
  <2>2. CASE "content_bytes" \in DOMAIN call
    <3>1. PICK n \in Nat : call["content_bytes"] = TP!BoundedSize(n)
      BY <1>8, <2>2
    <3>2. PICK m \in Nat : TP!BoundedSize(n) = TP!Num(m) /\ TP!BoundedSize(m) = TP!Num(m)
      BY BoundedAgain
    <3>3. v = TP!Num(m) /\ v.t = "num" /\ v.n = m
      <4>1. v = TP!Num(m)
        BY <2>1, <2>2, <3>1, <3>2
      <4>. HIDE DEF v
      <4>. QED  BY <4>1 DEF TP!Num
    <3>4. "content_bytes" \in DOMAIN rest /\ rest["content_bytes"] = TP!BoundedSize(v.n)
      BY <1>7, <3>3
    <3>. QED  BY <1>6, <2>2, <3>1, <3>2, <3>3, <3>4
  <2>3. CASE "content_bytes" \notin DOMAIN call
    <3>1. v.t # "num"
      BY <2>1, <2>3 DEF TP!Null
    <3>2. "content_bytes" \notin DOMAIN rest
      BY <1>7, <3>1
    <3>. QED  BY <1>6, <2>3, <3>2
  <2>. QED  BY <2>2, <2>3
<1>13. \A k \in CallFields : again[k] = call[k]
  <2>1. again["pinned_present"] = call["pinned_present"]
        /\ again["pin_overrides_present"] = call["pin_overrides_present"]
    BY <1>6, <1>9
  <2>2. again["result_ok"] = call["result_ok"] /\ again["error_present"] = call["error_present"]
    BY <1>6, <1>7, <1>10
  <2>. QED  BY <1>2, <1>6, <1>11, <2>1, <2>2 DEF CallFields
<1>14. TP!SafeToolCall(s, q) = TP!SafeToolCall(d, q)
  <2>1. \A k \in CallFields : TP!SafeToolCall(s, q)[k] = TP!SafeToolCall(d, q)[k]
    BY <1>13 DEF again
  <2>2. /\ "content_bytes" \in DOMAIN TP!SafeToolCall(s, q) <=> "content_bytes" \in DOMAIN TP!SafeToolCall(d, q)
        /\ "content_bytes" \in DOMAIN TP!SafeToolCall(s, q) =>
             TP!SafeToolCall(s, q)["content_bytes"] = TP!SafeToolCall(d, q)["content_bytes"]
    BY <1>12 DEF again
  <2>. QED  BY <2>1, <2>2, SameCall
<1>. QED  BY <1>14

\* What the projector places at a position it came to, it places again.
LEMMA OwnAgain ==
  ASSUME NEW root \in TP!Nodes, NEW d, Closed(d), Valued(d), NEW s, s = TP!Project(root, d),
         NEW q \in TP!Reached(root, d)
  PROVE  Own(root, s, q) = Own(root, d, q)
<1>. DEFINE node == TP!NodeAt(root, q)
            own == Own(root, d, q)
<1>1. q \in Seq(TraceKeys) /\ Closed(s)
  BY ProjectedIsClosed, ReachedStep DEF Closed
<1>2. TP!IsNode(node)
  BY <1>1, NodeAtStep, NodesAre
<1>3. s[q] = TP!Shown(node, d[q])
  BY ProjectedAt
<1>4. node.n \in {"obj", "rules", "trigger", "call"} => (s[q].t = "dict" <=> d[q].t = "dict")
  <2>1. node.n \in {"trigger", "call"} => (s[q].t = "dict" <=> d[q].t = "dict")
    BY <1>3, ShownAgain
  <2>2. node.n \in {"obj", "rules"} => (TP!Opens(node, s[q]) <=> TP!Opens(node, d[q]))
    BY <1>3, ShownAgain
  <2>. HIDE DEF node
  <2>. QED  BY <2>1, <2>2 DEF TP!Opens
<1>5. \A k \in DOMAIN own : Append(q, k) \in DOMAIN s /\ s[Append(q, k)] = own[k]
  BY ProjectedAt
<1>6. \A k : k \in TP!Keys(s, q) <=> k \in DOMAIN own \/ (k \in TraceKeys /\ Append(q, k) \in TP!Reached(root, d))
  BY ProjectedKeys
<1>7. CASE d[q].t = "dict" /\ node.n \in {"obj", "rules"}
  <2>1. own = TP!Flag(TP!Withheld(node, d, q)) /\ Own(root, s, q) = TP!Flag(TP!Withheld(node, s, q))
    BY <1>4, <1>7 DEF Own, TP!Placed
  <2>2. ASSUME TP!Withheld(node, d, q) PROVE TP!Withheld(node, s, q)
    <3>1. TP!WithheldKey \in DOMAIN own
      BY <2>1, <2>2 DEF TP!Flag
    <3>2. TP!WithheldKey \in TP!Keys(s, q)
      BY <1>6, <3>1
    <3>3. ~TP!Kept(node, TP!WithheldKey)
      BY <1>7 DEF TP!Kept
    <3>. QED  BY <3>2, <3>3 DEF TP!Withheld, TP!WithheldKey, TP!LegacyKey
  <2>3. ASSUME TP!Withheld(node, s, q) PROVE TP!Withheld(node, d, q)
    <3>1. PICK k \in TP!Keys(s, q) : ~TP!Kept(node, k)
      BY <2>3 DEF TP!Withheld
    <3>2. ~(k \in TraceKeys /\ Append(q, k) \in TP!Reached(root, d))
      BY <1>1, <3>1, ReachedStep
    <3>3. k \in DOMAIN own
      BY <1>6, <3>1, <3>2
    <3>. QED  BY <2>1, <3>3 DEF TP!Flag
  <2>4. TP!Flag(TP!Withheld(node, d, q)) = TP!Flag(TP!Withheld(node, s, q))
    <3>1. CASE TP!Withheld(node, d, q)
      BY <2>2, <3>1 DEF TP!Flag
    <3>2. CASE ~TP!Withheld(node, d, q)
      BY <2>3, <3>2 DEF TP!Flag
    <3>. QED  BY <3>1, <3>2
  <2>. QED  BY <2>1, <2>4
<1>8. ASSUME node.n \in {"trigger", "call"} PROVE \A k : k \in TP!Keys(s, q) <=> k \in DOMAIN own
  <2>1. ~TP!Opens(node, d[q])
    BY <1>8 DEF TP!Opens
  <2>2. \A k \in TraceKeys : Append(q, k) \notin TP!Reached(root, d)
    BY <1>1, <2>1, ReachedStep
  <2>. QED  BY <1>6, <2>2
<1>9. CASE d[q].t = "dict" /\ node.n = "trigger"
  <2>1. own = TP!SafeTriggerPayload(d, q) /\ Own(root, s, q) = TP!SafeTriggerPayload(s, q)
    BY <1>4, <1>9 DEF Own, TP!Placed
  <2>2. DOMAIN own = {"_redacted"} \cup (TP!Keys(d, q) \cap {"message_id", "thread_id", "id"})
    BY <2>1 DEF TP!SafeTriggerPayload
  <2>3. TP!Keys(s, q) \cap {"message_id", "thread_id", "id"} = TP!Keys(d, q) \cap {"message_id", "thread_id", "id"}
    BY <1>8, <1>9, <2>2
  <2>. QED  BY <2>1, <2>3 DEF TP!SafeTriggerPayload
<1>10. CASE d[q].t = "dict" /\ node.n = "call"
  <2>1. own = TP!SafeToolCall(d, q) /\ Own(root, s, q) = TP!SafeToolCall(s, q)
    BY <1>4, <1>10 DEF Own, TP!Placed
  <2>2. \A k : k \in TP!Keys(s, q) <=> k \in DOMAIN own
    BY <1>8, <1>10
  <2>. HIDE DEF own
  <2>3. TP!SafeToolCall(s, q) = own
    BY <1>1, <1>5, <2>1, <2>2, CallAgain
  <2>. QED  BY <2>1, <2>3 DEF own
<1>11. CASE ~(d[q].t = "dict" /\ node.n \in {"obj", "rules", "trigger", "call"})
  <2>1. ~(s[q].t = "dict" /\ node.n \in {"obj", "rules", "trigger", "call"})
    BY <1>4, <1>11
  <2>2. own = TP!None
    BY <1>11 DEF Own, TP!Placed
  <2>3. Own(root, s, q) = TP!None
    BY <2>1 DEF Own, TP!Placed
  <2>. QED  BY <2>2, <2>3
<1>. QED  BY <1>7, <1>9, <1>10, <1>11

\* Two documents with the same projection: the projector comes to the same
\* positions, shows the same there and places the same.
LEMMA SameProjection ==
  ASSUME NEW root, NEW d, Closed(d), NEW e, Closed(e),
         TP!Reached(root, e) = TP!Reached(root, d),
         \A p \in TP!Reached(root, d) :
           /\ TP!Shown(TP!NodeAt(root, p), e[p]) = TP!Shown(TP!NodeAt(root, p), d[p])
           /\ Own(root, e, p) = Own(root, d, p)
  PROVE  TP!Project(root, e) = TP!Project(root, d)
<1>. DEFINE R == TP!Reached(root, d)
            s == TP!Project(root, d)
            t == TP!Project(root, e)
<1>1. /\ \A p \in R : p \in DOMAIN s /\ s[p] = TP!Shown(TP!NodeAt(root, p), d[p])
      /\ \A q \in R : \A k \in DOMAIN Own(root, d, q) :
           Append(q, k) \in DOMAIN s /\ s[Append(q, k)] = Own(root, d, q)[k]
      /\ \A p \in DOMAIN s : p \notin R => \E q \in R : \E k \in DOMAIN Own(root, d, q) : p = Append(q, k)
  BY ProjectedAt
<1>2. /\ \A p \in R : p \in DOMAIN t /\ t[p] = TP!Shown(TP!NodeAt(root, p), e[p])
      /\ \A q \in R : \A k \in DOMAIN Own(root, e, q) :
           Append(q, k) \in DOMAIN t /\ t[Append(q, k)] = Own(root, e, q)[k]
      /\ \A p \in DOMAIN t : p \notin R => \E q \in R : \E k \in DOMAIN Own(root, e, q) : p = Append(q, k)
  BY ProjectedAt
<1>3. s = [p \in DOMAIN s |-> s[p]] /\ t = [p \in DOMAIN t |-> t[p]]
  BY DEF TP!Project
<1>. HIDE DEF R, s, t
<1>4. \A p \in R : /\ TP!Shown(TP!NodeAt(root, p), e[p]) = TP!Shown(TP!NodeAt(root, p), d[p])
                   /\ Own(root, e, p) = Own(root, d, p)
  BY DEF R
<1>5. ASSUME NEW p PROVE (p \in DOMAIN s <=> p \in DOMAIN t) /\ (p \in DOMAIN s => s[p] = t[p])
  <2>1. CASE p \in R
    BY <1>1, <1>2, <1>4, <2>1
  <2>2. ASSUME p \in DOMAIN s, p \notin R PROVE p \in DOMAIN t /\ s[p] = t[p]
    <3>1. PICK q \in R : \E k \in DOMAIN Own(root, d, q) : p = Append(q, k)
      BY <1>1, <2>2
    <3>2. PICK k \in DOMAIN Own(root, d, q) : p = Append(q, k)
      BY <3>1
    <3>3. Own(root, e, q) = Own(root, d, q)
      BY <1>4
    <3>. QED  BY <1>1, <1>2, <3>2, <3>3
  <2>3. ASSUME p \in DOMAIN t, p \notin R PROVE p \in DOMAIN s
    <3>1. PICK q \in R : \E k \in DOMAIN Own(root, e, q) : p = Append(q, k)
      BY <1>2, <2>3
    <3>2. PICK k \in DOMAIN Own(root, e, q) : p = Append(q, k)
      BY <3>1
    <3>3. Own(root, e, q) = Own(root, d, q)
      BY <1>4
    <3>. QED  BY <1>1, <3>2, <3>3
  <2>. QED  BY <2>1, <2>2, <2>3
<1>6. DOMAIN s = DOMAIN t
  BY <1>5
<1>7. t = s
  BY <1>3, <1>5, <1>6
<1>. QED  BY <1>7 DEF s, t

\* Projecting what was projected changes nothing.
LEMMA ProjectedAgain ==
  ASSUME NEW root \in TP!Nodes, NEW d, Closed(d), Valued(d), NEW s, s = TP!Project(root, d)
  PROVE  TP!Project(root, s) = s
<1>1. Closed(s) /\ TP!Reached(root, s) = TP!Reached(root, d)
  BY ProjectedIsClosed, ReachedAgain
<1>2. ASSUME NEW p \in TP!Reached(root, d)
      PROVE  /\ TP!Shown(TP!NodeAt(root, p), s[p]) = TP!Shown(TP!NodeAt(root, p), d[p])
             /\ Own(root, s, p) = Own(root, d, p)
  <2>1. s[p] = TP!Shown(TP!NodeAt(root, p), d[p])
    BY ProjectedAt
  <2>. QED  BY <2>1, OwnAgain, ShownAgain
<1>3. TP!Project(root, s) = TP!Project(root, d)
  BY <1>1, <1>2, SameProjection
<1>. QED  BY <1>3

-----------------------------------------------------------------------------
(* TraceProjection: what an outsider chose, exchanged.                     *)

\* The twin of a word is another only of a secret, and its twin is the word.
LEMMA TwinIs ==
  ASSUME NEW c
  PROVE  /\ TP!Twin(TP!Twin(c)) = c
         /\ c \notin TP!Secrets => TP!Twin(c) = c
         /\ TP!Twin(c) \in TP!Secrets <=> c \in TP!Secrets
         /\ c \in TraceKeys => TP!Twin(c) \in TraceKeys
<1>1. {"secret", "twin"} \subseteq TraceKeys
  BY ProjectionAssumption DEF TP!Secrets
<1>2. CASE c = "secret"
  <2>1. TP!Twin(c) = "twin"
    BY <1>2 DEF TP!Twin
  <2>2. TP!Twin("twin") = "secret"
    BY DEF TP!Twin
  <2>. QED  BY <1>1, <1>2, <2>1, <2>2 DEF TP!Secrets
<1>3. CASE c = "twin"
  <2>1. TP!Twin(c) = "secret"
    BY <1>3 DEF TP!Twin
  <2>2. TP!Twin("secret") = "twin"
    BY DEF TP!Twin
  <2>. QED  BY <1>1, <1>3, <2>1, <2>2 DEF TP!Secrets
<1>4. CASE c \notin {"secret", "twin"}
  <2>1. TP!Twin(c) = c
    BY <1>4 DEF TP!Twin
  <2>. QED  BY <1>4, <2>1 DEF TP!Secrets
<1>. QED  BY <1>2, <1>3, <1>4

\* The twin of a position.
LEMMA TwinsAre ==
  /\ TP!Twins(<<>>) = <<>>
  /\ \A p \in Seq(TraceKeys) : TP!Twins(p) \in Seq(TraceKeys) /\ TP!Twins(TP!Twins(p)) = p
  /\ \A q \in Seq(TraceKeys), k \in TraceKeys : TP!Twins(Append(q, k)) = Append(TP!Twins(q), TP!Twin(k))
<1>0. ASSUME NEW p \in Seq(TraceKeys)
      PROVE  /\ TP!Twins(p) \in Seq(TraceKeys) /\ Len(TP!Twins(p)) = Len(p)
             /\ \A i \in 1 .. Len(p) : TP!Twins(p)[i] = TP!Twin(p[i])
  <2>. DEFINE f(i) == TP!Twin(p[i])
  <2>1. Len(p) \in Nat /\ \A i \in 1 .. Len(p) : p[i] \in TraceKeys
    OBVIOUS
  <2>2. \A i \in 1 .. Len(p) : f(i) \in TraceKeys
    BY <2>1, TwinIs
  <2>3. TP!Twins(p) = [i \in 1 .. Len(p) |-> f(i)]
    BY DEF TP!Twins
  <2>. HIDE DEF f
  <2>4. TP!Twins(p) \in Seq(TraceKeys) /\ Len(TP!Twins(p)) = Len(p) /\ \A i \in 1 .. Len(p) : TP!Twins(p)[i] = f(i)
    BY <2>1, <2>2, <2>3
  <2>. QED  BY <2>4 DEF f
<1>1. TP!Twins(<<>>) = <<>>
  <2>1. <<>> \in Seq(TraceKeys) /\ Len(<<>>) = 0
    OBVIOUS
  <2>2. TP!Twins(<<>>) \in Seq(TraceKeys) /\ Len(TP!Twins(<<>>)) = 0
    BY Zenon, <1>0, <2>1
  <2>. QED  BY <2>2
<1>2. ASSUME NEW p \in Seq(TraceKeys) PROVE TP!Twins(p) \in Seq(TraceKeys) /\ TP!Twins(TP!Twins(p)) = p
  <2>. DEFINE t == TP!Twins(p)
              u == TP!Twins(t)
  <2>1. t \in Seq(TraceKeys) /\ Len(t) = Len(p) /\ \A i \in 1 .. Len(p) : t[i] = TP!Twin(p[i])
    BY <1>0
  <2>. HIDE DEF t
  <2>2. u \in Seq(TraceKeys) /\ Len(u) = Len(t) /\ \A i \in 1 .. Len(t) : u[i] = TP!Twin(t[i])
    BY <1>0, <2>1
  <2>. HIDE DEF u
  <2>3. \A i \in 1 .. Len(u) : u[i] = p[i]
    BY Zenon, <2>1, <2>2, TwinIs
  <2>4. u = p
    BY <2>1, <2>2, <2>3, SameSequence
  <2>. QED  BY <2>1, <2>4 DEF t, u
<1>3. ASSUME NEW q \in Seq(TraceKeys), NEW k \in TraceKeys
      PROVE  TP!Twins(Append(q, k)) = Append(TP!Twins(q), TP!Twin(k))
  <2>. DEFINE p == Append(q, k)
              t == TP!Twins(p)
              u == TP!Twins(q)
              l == TP!Twin(k)
              b == Append(u, l)
              n == Len(q)
  <2>1. p \in Seq(TraceKeys) /\ Len(p) = n + 1 /\ p[n + 1] = k /\ (\A i \in 1 .. n : p[i] = q[i]) /\ n \in Nat
    BY PositionUnder
  <2>2. u \in Seq(TraceKeys) /\ Len(u) = n /\ (\A i \in 1 .. n : u[i] = TP!Twin(q[i])) /\ l \in TraceKeys
    BY <1>0, TwinIs
  <2>. HIDE DEF p
  <2>3. t \in Seq(TraceKeys) /\ Len(t) = Len(p) /\ \A i \in 1 .. Len(p) : t[i] = TP!Twin(p[i])
    BY <1>0, <2>1
  <2>. HIDE DEF t, u, l, n
  <2>4. /\ b \in Seq(TraceKeys) /\ Len(b) = Len(u) + 1 /\ b[Len(u) + 1] = l
        /\ \A i \in 1 .. Len(u) : b[i] = u[i]
    BY <2>2, PositionUnder
  <2>. HIDE DEF b
  <2>5. l = TP!Twin(k)
    BY DEF l
  <2>6. \A i \in 1 .. Len(t) : t[i] = b[i]
    BY <2>1, <2>2, <2>3, <2>4, <2>5
  <2>7. t = b
    BY <2>1, <2>2, <2>3, <2>4, <2>6, SameSequence
  <2>. QED  BY <2>7 DEF t, b, p, u, l
<1>. QED  BY <1>1, <1>2, <1>3

\* What a document is.
LEMMA DocumentIs ==
  ASSUME NEW d, TP!IsDocument(d)
  PROVE  /\ Closed(d) /\ Valued(d) /\ d[<<>>] = TP!Dict /\ IsFiniteSet(DOMAIN d)
         /\ \A q \in Seq(TraceKeys), k \in TraceKeys :
              Append(q, k) \in DOMAIN d =>
                /\ q \in DOMAIN d /\ d[q] \in {TP!Dict, TP!List}
                /\ d[q].t = "list" => k \notin TP!Secrets /\ k # TP!WithheldKey /\ k # TP!LegacyKey
<1>1. /\ d = [p \in DOMAIN d |-> d[p]] /\ <<>> \in DOMAIN d /\ d[<<>>] = TP!Dict
      /\ \A p \in DOMAIN d :
           /\ p \in Seq(TraceKeys) /\ TP!IsValue(d[p])
           /\ p # <<>> =>
                /\ TP!Above(p) \in DOMAIN d /\ d[TP!Above(p)] \in {TP!Dict, TP!List}
                /\ d[TP!Above(p)] = TP!List => p[Len(p)] \notin TP!Secrets \cup {TP!WithheldKey, TP!LegacyKey}
  BY DEF TP!IsDocument
<1>2. IsFiniteSet(DOMAIN d)
  <2>1. TP!IsFiniteSet(DOMAIN d)
    BY DEF TP!IsDocument
  <2>. QED  BY <2>1 DEF TP!IsFiniteSet, IsFiniteSet
<1>3. Closed(d) /\ Valued(d)
  BY <1>1 DEF Closed, Valued
<1>4. ASSUME NEW q \in Seq(TraceKeys), NEW k \in TraceKeys, Append(q, k) \in DOMAIN d
      PROVE  /\ q \in DOMAIN d /\ d[q] \in {TP!Dict, TP!List}
             /\ d[q].t = "list" => k \notin TP!Secrets /\ k # TP!WithheldKey /\ k # TP!LegacyKey
  <2>1. Append(q, k) # <<>> /\ TP!Above(Append(q, k)) = q /\ Append(q, k)[Len(Append(q, k))] = k
    BY PositionUnder
  <2>2. /\ q \in DOMAIN d /\ d[q] \in {TP!Dict, TP!List}
        /\ d[q] = TP!List => k \notin TP!Secrets \cup {TP!WithheldKey, TP!LegacyKey}
    BY Zenon, <1>1, <1>4, <2>1
  <2>3. d[q].t = "list" => d[q] = TP!List
    BY <2>2 DEF TP!Dict, TP!List
  <2>. QED  BY <2>2, <2>3
<1>. QED  BY <1>1, <1>2, <1>3, <1>4

\* The document with its secrets exchanged.
LEMMA ExchangedIs ==
  ASSUME NEW d, TP!IsDocument(d), NEW e, e = TP!Exchanged(d)
  PROVE  /\ \A p \in Seq(TraceKeys) : p \in DOMAIN e <=> TP!Twins(p) \in DOMAIN d
         /\ \A p \in DOMAIN e : p \in Seq(TraceKeys) /\ e[p] = TP!TwinOf(d[TP!Twins(p)])
         /\ Closed(e)
<1>1. Closed(d)
  BY DocumentIs
<1>. DEFINE f(p) == TP!TwinOf(d[TP!Twins(p)])
            D == {TP!Twins(q) : q \in DOMAIN d}
<1>2. e = [p \in D |-> f(p)]
  BY DEF TP!Exchanged
<1>3. D \subseteq Seq(TraceKeys)
  BY <1>1, TwinsAre DEF Closed
<1>4. \A p \in Seq(TraceKeys) : p \in D <=> TP!Twins(p) \in DOMAIN d
  BY Zenon, <1>1, TwinsAre DEF Closed
<1>. HIDE DEF f, D
<1>5. DOMAIN e = D /\ e = [p \in DOMAIN e |-> e[p]] /\ \A p \in D : e[p] = f(p)
  BY <1>2
<1>6. <<>> \in DOMAIN e
  <2>1. <<>> \in Seq(TraceKeys) /\ TP!Twins(<<>>) \in DOMAIN d
    BY <1>1, TwinsAre DEF Closed
  <2>. QED  BY Zenon, <1>4, <1>5, <2>1
<1>7. ASSUME NEW p \in DOMAIN e, p # <<>> PROVE TP!Above(p) \in DOMAIN e
  <2>. DEFINE q == TP!Above(p)
              k == p[Len(p)]
  <2>1. p \in Seq(TraceKeys) /\ TP!Twins(p) \in DOMAIN d
    BY <1>3, <1>4, <1>5
  <2>2. q \in Seq(TraceKeys) /\ k \in TraceKeys /\ p = Append(q, k)
    BY <1>7, <2>1, PositionIn
  <2>. HIDE DEF q, k
  <2>3. TP!Twins(p) = Append(TP!Twins(q), TP!Twin(k)) /\ TP!Twins(q) \in Seq(TraceKeys) /\ TP!Twin(k) \in TraceKeys
    BY <2>2, TwinsAre, TwinIs
  <2>4. TP!Twins(q) \in DOMAIN d
    BY <2>1, <2>3, DocumentIs
  <2>5. q \in DOMAIN e
    BY <1>4, <1>5, <2>2, <2>4
  <2>. QED  BY <2>5 DEF q
<1>8. Closed(e)
  BY <1>3, <1>5, <1>6, <1>7 DEF Closed
<1>. QED  BY <1>3, <1>4, <1>5, <1>8 DEF f

\* A key the projector keeps, at a position it goes on below, is no outsider's.
LEMMA KeptIsOurs ==
  ASSUME NEW root \in TP!Nodes, NEW d, TP!IsDocument(d), TP!OutsidersAreOutside(root, d),
         NEW q \in Seq(TraceKeys), NEW k \in TraceKeys, NEW l \in TraceKeys,
         k \in TP!Secrets <=> l \in TP!Secrets, Append(q, l) \in DOMAIN d,
         TP!Opens(TP!NodeAt(root, q), d[q]), TP!Kept(TP!NodeAt(root, q), k)
  PROVE  k \notin TP!Secrets
<1>. DEFINE node == TP!NodeAt(root, q)
<1>. SUFFICES ASSUME k \in TP!Secrets PROVE FALSE
  OBVIOUS
<1>1. Append(q, l) # <<>> /\ TP!Above(Append(q, l)) = q /\ Append(q, l)[Len(Append(q, l))] = l
  BY PositionUnder
<1>2. TP!IsNode(node)
  BY NodeAtStep, NodesAre
<1>3. CASE node.n \in {"obj", "rules"}
  <2>1. node.wildcard = TP!Undeclared
    BY Zenon, <1>1, <1>3 DEF TP!OutsidersAreOutside
  <2>2. k \notin DOMAIN node.children
    BY <1>2, <1>3 DEF TP!IsNode
  <2>. HIDE DEF node
  <2>. QED  BY <1>3, <2>1, <2>2 DEF TP!Kept, node
<1>4. CASE node.n \notin {"obj", "rules"}
  <2>1. d[q].t = "list"
    BY <1>4 DEF TP!Opens
  <2>. QED  BY <2>1, DocumentIs
<1>. QED  BY <1>3, <1>4

\* A value's twin is another only of a string, and a string too; a validator
\* that lets no secret through says the same of both.
LEMMA TwinOfIs ==
  ASSUME NEW v, TP!IsValue(v)
  PROVE  /\ TP!TwinOf(v).t = v.t /\ (v.t # "str" => TP!TwinOf(v) = v)
         /\ \A C : C \cap TP!Secrets = {} => (TP!Class(TP!TwinOf(v)) \in C <=> TP!Class(v) \in C)
         /\ \A C : C \cap TP!Secrets = {} => (TP!Class(v) \in C => TP!TwinOf(v) = v)
<1>1. CASE v.t = "str"
  <2>1. v = TP!Str(v.c)
    BY <1>1 DEF TP!IsValue, TP!Null, TP!Dict, TP!List, TP!Str, TP!Num, TP!Bool, TP!Result
  <2>2. TP!TwinOf(v) = TP!Str(TP!Twin(v.c))
    BY <1>1 DEF TP!TwinOf
  <2>3. TP!TwinOf(v).t = "str" /\ TP!Class(TP!TwinOf(v)) = TP!Twin(v.c) /\ TP!Class(v) = v.c
    BY <1>1, <2>2 DEF TP!Str, TP!Class
  <2>4. CASE v.c \in TP!Secrets
    <3>1. TP!Twin(v.c) \in TP!Secrets
      BY <2>4, TwinIs
    <3>. QED  BY <1>1, <2>3, <2>4, <3>1
  <2>5. CASE v.c \notin TP!Secrets
    <3>1. TP!Twin(v.c) = v.c
      BY <2>5, TwinIs
    <3>2. TP!TwinOf(v) = v
      BY <2>1, <2>2, <3>1
    <3>. QED  BY <3>2
  <2>. QED  BY <2>4, <2>5
<1>2. CASE v.t # "str"
  <2>1. TP!TwinOf(v) = v
    BY <1>2 DEF TP!TwinOf
  <2>. QED  BY <2>1
<1>. QED  BY <1>1, <1>2

\* It is shown as its twin is.
LEMMA ShownOfTwins ==
  ASSUME NEW node \in TP!Nodes, NEW v, TP!IsValue(v)
  PROVE  /\ TP!Opens(node, TP!TwinOf(v)) <=> TP!Opens(node, v)
         /\ TP!Shown(node, TP!TwinOf(v)) = TP!Shown(node, v)
<1>1. TP!IsNode(node)
  BY NodesAre
<1>2. TP!TwinOf(v).t = v.t
  BY TwinOfIs
<1>3. TP!Opens(node, TP!TwinOf(v)) <=> TP!Opens(node, v)
  BY <1>2 DEF TP!Opens
<1>4. CASE v.t # "str"
  <2>1. TP!TwinOf(v) = v
    BY <1>4, TwinOfIs
  <2>. QED  BY <1>3, <2>1
<1>5. CASE v.t = "str"
  <2>. DEFINE fine(w) == node.n = "leaf" /\ TP!Class(w) \in node.classes
              w1 == TP!TwinOf(v)
  <2>1. ASSUME NEW w, w.t = "str" PROVE TP!Shown(node, w) = IF fine(w) THEN w ELSE TP!Redacted
    BY <2>1 DEF TP!Shown, TP!Opens, TP!Null
  <2>2. w1.t = "str"
    BY <1>2, <1>5
  <2>3. node.n = "leaf" => node.classes \cap TP!Secrets = {}
    BY <1>1 DEF TP!IsNode
  <2>4. fine(w1) <=> fine(v)
    BY <2>3, TwinOfIs
  <2>5. fine(v) => w1 = v
    BY <2>3, TwinOfIs
  <2>6. TP!Shown(node, w1) = IF fine(w1) THEN w1 ELSE TP!Redacted
    BY <2>1, <2>2
  <2>7. TP!Shown(node, v) = IF fine(v) THEN v ELSE TP!Redacted
    BY <1>5, <2>1
  <2>. HIDE DEF fine, w1
  <2>8. TP!Shown(node, w1) = TP!Shown(node, v)
    BY <2>4, <2>5, <2>6, <2>7
  <2>. QED  BY <1>3, <2>8 DEF w1
<1>. QED  BY <1>4, <1>5

\* The projector comes to the same positions, and no secret is on the way.
LEMMA ReachedOfTwins ==
  ASSUME NEW root \in TP!Nodes, NEW d, TP!IsDocument(d), TP!OutsidersAreOutside(root, d),
         NEW e, e = TP!Exchanged(d)
  PROVE  /\ TP!Reached(root, e) = TP!Reached(root, d)
         /\ \A p \in TP!Reached(root, d) : TP!Twins(p) = p
<1>. DEFINE R == TP!Reached(root, d)
            Q == TP!Reached(root, e)
            Good == {p \in Seq(TraceKeys) : (p \in Q <=> p \in R) /\ (p \in R => TP!Twins(p) = p)}
<1>1. Closed(d) /\ Valued(d) /\ Closed(e)
  BY DocumentIs, ExchangedIs
<1>2. /\ <<>> \in R /\ <<>> \in Q /\ R \subseteq Seq(TraceKeys) /\ Q \subseteq Seq(TraceKeys) /\ R \subseteq DOMAIN d
  BY <1>1, ReachedStep DEF Closed
<1>3. ASSUME NEW q \in Seq(TraceKeys), NEW k \in TraceKeys, q \in Good
      PROVE  Append(q, k) \in Good
  <2>. DEFINE goes(x) == TP!Opens(TP!NodeAt(root, q), x) /\ TP!Kept(TP!NodeAt(root, q), k)
              p == Append(q, k)
  <2>1. p \in R <=> p \in DOMAIN d /\ q \in R /\ goes(d[q])
    BY <1>1, ReachedStep
  <2>2. p \in Q <=> p \in DOMAIN e /\ q \in Q /\ goes(e[q])
    BY <1>1, ReachedStep
  <2>3. p \in Seq(TraceKeys) /\ TP!Twins(p) = Append(TP!Twins(q), TP!Twin(k)) /\ TP!Twin(k) \in TraceKeys
    BY PositionUnder, TwinsAre, TwinIs
  <2>4. p \in DOMAIN e <=> TP!Twins(p) \in DOMAIN d
    <3>. HIDE DEF p
    <3>. QED  BY Zenon, <2>3, ExchangedIs
  <2>5. CASE q \notin R
    <3>. HIDE DEF R, Q, goes, p
    <3>1. p \in Good
      BY <1>3, <2>1, <2>2, <2>3, <2>5
    <3>. QED  BY <3>1 DEF p
  <2>6. CASE q \in R
    <3>1. TP!Twins(q) = q /\ q \in Q /\ q \in DOMAIN d
      BY <1>2, <1>3, <2>6
    <3>2. q \in DOMAIN e /\ e[q] = TP!TwinOf(d[q])
      <4>1. q \in DOMAIN e
        BY <1>1, <3>1, ReachedStep
      <4>. QED  BY <3>1, <4>1, ExchangedIs
    <3>3. goes(e[q]) <=> goes(d[q])
      <4>1. TP!NodeAt(root, q) \in TP!Nodes /\ TP!IsValue(d[q])
        BY <1>1, <3>1, NodeAtStep DEF Valued
      <4>. QED  BY <3>2, <4>1, ShownOfTwins
    <3>4. TP!Twins(p) = Append(q, TP!Twin(k))
      BY <2>3, <3>1
    <3>5. ASSUME goes(d[q]), p \in DOMAIN d \/ TP!Twins(p) \in DOMAIN d PROVE TP!Twins(p) = p
      <4>1. k \in TP!Secrets <=> TP!Twin(k) \in TP!Secrets
        BY TwinIs
      <4>2. CASE p \in DOMAIN d
        <5>1. k \notin TP!Secrets
          BY <3>5, <4>2, KeptIsOurs
        <5>. QED  BY <3>4, <5>1, TwinIs
      <4>3. CASE TP!Twins(p) \in DOMAIN d
        <5>1. k \notin TP!Secrets
          BY <2>3, <3>4, <3>5, <4>1, <4>3, KeptIsOurs
        <5>. QED  BY <3>4, <5>1, TwinIs
      <4>. QED  BY <3>5, <4>2, <4>3
    <3>. HIDE DEF R, Q, goes, p
    <3>6. p \in Good
      BY Zenon, <2>1, <2>2, <2>3, <2>4, <2>6, <3>1, <3>3, <3>5
    <3>. QED  BY <3>6 DEF p
  <2>. QED  BY <2>5, <2>6
<1>4. Seq(TraceKeys) \subseteq Good
  <2>1. <<>> \in Good
    BY <1>2, TwinsAre
  <2>. HIDE DEF Good
  <2>. QED  BY <1>3, <2>1, PositionInduction
<1>. HIDE DEF R, Q
<1>5. Q = R /\ \A p \in R : TP!Twins(p) = p
  <2>1. \A p : p \in Q <=> p \in R
    BY <1>2, <1>4
  <2>. QED  BY Zenon, <1>2, <1>4, <2>1
<1>. QED  BY <1>5 DEF R, Q

\* The keys and the entries of a dict or a list whose position holds no secret.
LEMMA EntriesOfTwins ==
  ASSUME NEW d, TP!IsDocument(d), NEW e, e = TP!Exchanged(d),
         NEW q \in Seq(TraceKeys), TP!Twins(q) = q
  PROVE  /\ \A k \in TraceKeys : k \in TP!Keys(e, q) <=> TP!Twin(k) \in TP!Keys(d, q)
         /\ \A k : k \in TP!Keys(e, q) => k \in TraceKeys
         /\ \A k \in TraceKeys : TP!Entry(e, q, k) = TP!TwinOf(TP!Entry(d, q, TP!Twin(k)))
<1>1. Closed(d) /\ Closed(e)
  BY DocumentIs, ExchangedIs
<1>2. ASSUME NEW k \in TraceKeys
      PROVE  /\ TP!Twin(k) \in TraceKeys /\ Append(q, k) \in Seq(TraceKeys)
             /\ Append(q, k) \in DOMAIN e <=> Append(q, TP!Twin(k)) \in DOMAIN d
             /\ Append(q, k) \in DOMAIN e => e[Append(q, k)] = TP!TwinOf(d[Append(q, TP!Twin(k))])
  <2>. DEFINE p == Append(q, k)
  <2>1. p \in Seq(TraceKeys) /\ TP!Twin(k) \in TraceKeys /\ TP!Twins(p) = Append(q, TP!Twin(k))
    BY PositionUnder, TwinIs, TwinsAre
  <2>. HIDE DEF p
  <2>2. /\ p \in DOMAIN e <=> TP!Twins(p) \in DOMAIN d
        /\ p \in DOMAIN e => e[p] = TP!TwinOf(d[TP!Twins(p)])
    BY Zenon, <2>1, ExchangedIs
  <2>3. /\ p \in DOMAIN e <=> Append(q, TP!Twin(k)) \in DOMAIN d
        /\ p \in DOMAIN e => e[p] = TP!TwinOf(d[Append(q, TP!Twin(k))])
    BY <2>1, <2>2
  <2>. QED  BY <2>1, <2>3 DEF p
<1>3. \A k : k \in TP!Keys(e, q) <=> k \in TraceKeys /\ Append(q, k) \in DOMAIN e
  BY <1>1, KeysAre
<1>4. \A k : k \in TP!Keys(d, q) <=> k \in TraceKeys /\ Append(q, k) \in DOMAIN d
  BY <1>1, KeysAre
<1>5. ASSUME NEW k \in TraceKeys PROVE TP!Entry(e, q, k) = TP!TwinOf(TP!Entry(d, q, TP!Twin(k)))
  <2>1. TP!TwinOf(TP!Null) = TP!Null
    BY DEF TP!TwinOf, TP!Null
  <2>. QED  BY <1>2, <2>1 DEF TP!Entry
<1>. QED  BY <1>2, <1>3, <1>4, <1>5

\* A name of the projector's own at such a position is nobody's secret.
LEMMA OwnNamesOfTwins ==
  ASSUME NEW d, TP!IsDocument(d), NEW e, e = TP!Exchanged(d),
         NEW q \in Seq(TraceKeys), TP!Twins(q) = q, NEW k \in TP!OwnNames
  PROVE  /\ k \in TraceKeys /\ Append(q, k) \in Seq(TraceKeys) /\ TP!Twins(Append(q, k)) = Append(q, k)
         /\ k \in TP!Keys(e, q) <=> k \in TP!Keys(d, q)
         /\ TP!Entry(e, q, k) = TP!TwinOf(TP!Entry(d, q, k)) /\ TP!IsValue(TP!Entry(d, q, k))
<1>1. k \in TraceKeys
  BY ProjectionAssumption
<1>2. k \notin TP!Secrets
  BY DEF TP!OwnNames, TP!Secrets, TP!WithheldKey, TP!LegacyKey
<1>3. TP!Twin(k) = k
  BY <1>2, TwinIs
<1>4. Append(q, k) \in Seq(TraceKeys) /\ TP!Twins(Append(q, k)) = Append(q, k)
  BY <1>1, <1>3, PositionUnder, TwinsAre
<1>5. k \in TP!Keys(e, q) <=> k \in TP!Keys(d, q)
  BY <1>1, <1>3, EntriesOfTwins
<1>6. TP!Entry(e, q, k) = TP!TwinOf(TP!Entry(d, q, k))
  BY <1>1, <1>3, EntriesOfTwins
<1>7. TP!IsValue(TP!Entry(d, q, k))
  BY DocumentIs, EntryIsValue
<1>. QED  BY <1>1, <1>4, <1>5, <1>6, <1>7

\* There are as many keys.
LEMMA KeysOfTwins ==
  ASSUME NEW d, TP!IsDocument(d), NEW e, e = TP!Exchanged(d),
         NEW q \in Seq(TraceKeys), TP!Twins(q) = q
  PROVE  /\ Cardinality(TP!Keys(e, q)) = Cardinality(TP!Keys(d, q))
         /\ TP!Keys(e, q) = {} <=> TP!Keys(d, q) = {}
<1>. DEFINE S == TP!Keys(d, q)
            T == TP!Keys(e, q)
            f == [k \in S |-> TP!Twin(k)]
            g == [k \in T |-> TP!Twin(k)]
<1>1. Closed(d) /\ IsFiniteSet(DOMAIN d)
  BY DocumentIs
<1>2. /\ \A k \in S : k \in TraceKeys
      /\ \A k \in T : k \in TraceKeys
      /\ \A k \in TraceKeys : k \in T <=> TP!Twin(k) \in S
  BY <1>1, EntriesOfTwins, KeysAre
<1>3. IsFiniteSet(S)
  <2>. DEFINE P == {p \in DOMAIN d : p # <<>> /\ TP!Above(p) = q}
              h == [p \in P |-> p[Len(p)]]
  <2>1. IsFiniteSet(P)
    BY <1>1, FS_Subset
  <2>2. S = {h[p] : p \in P}
    BY DEF TP!Keys
  <2>3. h \in Surjection(P, S)
    BY <2>2 DEF Surjection
  <2>. HIDE DEF h, P, S
  <2>. QED  BY <2>1, <2>3, FS_Surjection
<1>. HIDE DEF S, T
<1>4. \A k \in S : TP!Twin(k) \in T /\ TP!Twin(TP!Twin(k)) = k
  BY <1>2, TwinIs
<1>5. \A k \in T : TP!Twin(k) \in S /\ TP!Twin(TP!Twin(k)) = k
  BY <1>2, TwinIs
<1>6. f \in Surjection(S, T) /\ g \in Surjection(T, S)
  <2>1. f \in [S -> T] /\ g \in [T -> S]
    BY <1>4, <1>5
  <2>2. \A t \in T : \E a \in S : f[a] = t
    BY <1>5
  <2>3. \A a \in S : \E t \in T : g[t] = a
    BY <1>4
  <2>. HIDE DEF f, g
  <2>. QED  BY <2>1, <2>2, <2>3 DEF Surjection
<1>7. Cardinality(T) = Cardinality(S)
  <2>. HIDE DEF f, g
  <2>1. IsFiniteSet(T) /\ Cardinality(T) <= Cardinality(S)
    BY <1>3, <1>6, FS_Surjection
  <2>2. Cardinality(S) <= Cardinality(T)
    BY <1>6, <2>1, FS_Surjection
  <2>3. Cardinality(S) \in Nat /\ Cardinality(T) \in Nat
    BY <1>3, <2>1, FS_CardinalityType
  <2>. QED  BY <2>1, <2>2, <2>3
<1>8. T = {} <=> S = {}
  BY <1>4, <1>5
<1>. QED  BY <1>7, <1>8 DEF S, T

\* Whether a list names a token.
LEMMA TokenOfTwins ==
  ASSUME NEW d, TP!IsDocument(d), NEW e, e = TP!Exchanged(d),
         NEW q \in Seq(TraceKeys), TP!Twins(q) = q, NEW k \in TP!OwnNames
  PROVE  TP!HasToken(e, q, k) <=> TP!HasToken(d, q, k)
<1>. DEFINE p == Append(q, k)
            C == TP!TOKEN.classes
            has(x, i) == TP!Class(TP!Entry(x, p, i)) \in C
<1>1. /\ k \in TraceKeys /\ p \in Seq(TraceKeys) /\ TP!Twins(p) = p
      /\ TP!Entry(e, q, k) = TP!TwinOf(TP!Entry(d, q, k)) /\ TP!IsValue(TP!Entry(d, q, k))
  BY OwnNamesOfTwins
<1>2. TP!Entry(e, q, k).t = TP!Entry(d, q, k).t
  BY <1>1, TwinOfIs
<1>3. CASE TP!Entry(d, q, k).t # "list"
  BY <1>2, <1>3 DEF TP!HasToken
<1>4. CASE TP!Entry(d, q, k).t = "list"
  <2>1. p \in DOMAIN d /\ d[p].t = "list"
    BY <1>4 DEF TP!Entry, TP!Null
  <2>. HIDE DEF p
  <2>2. C \cap TP!Secrets = {}
    BY DEF TP!TOKEN, TP!Leaf, TP!Secrets
  <2>. HIDE DEF C
  <2>3. /\ \A i \in TraceKeys : i \in TP!Keys(e, p) <=> TP!Twin(i) \in TP!Keys(d, p)
        /\ \A i : i \in TP!Keys(e, p) => i \in TraceKeys
        /\ \A i \in TraceKeys : TP!Entry(e, p, i) = TP!TwinOf(TP!Entry(d, p, TP!Twin(i)))
    BY <1>1, EntriesOfTwins
  <2>4. \A i \in TP!Keys(d, p) : i \in TraceKeys /\ TP!Twin(i) = i
    <3>1. SUFFICES ASSUME NEW i \in TP!Keys(d, p) PROVE i \in TraceKeys /\ TP!Twin(i) = i
      OBVIOUS
    <3>2. i \in TraceKeys /\ Append(p, i) \in DOMAIN d
      BY <1>1, DocumentIs, KeysAre
    <3>3. i \notin TP!Secrets
      BY <1>1, <2>1, <3>2, DocumentIs
    <3>. QED  BY <3>2, <3>3, TwinIs
  <2>5. \A i : i \in TP!Keys(e, p) <=> i \in TP!Keys(d, p)
    <3>1. SUFFICES ASSUME NEW i \in TraceKeys PROVE i \in TP!Keys(e, p) <=> i \in TP!Keys(d, p)
      BY <2>3, <2>4
    <3>2. TP!Twin(TP!Twin(i)) = i
      BY TwinIs
    <3>. QED  BY <2>3, <2>4, <3>2
  <2>6. ASSUME NEW i \in TP!Keys(d, p) PROVE has(e, i) <=> has(d, i)
    <3>1. TP!Entry(e, p, i) = TP!TwinOf(TP!Entry(d, p, i))
      BY <2>3, <2>4
    <3>2. TP!IsValue(TP!Entry(d, p, i))
      BY DocumentIs, EntryIsValue
    <3>. QED  BY <2>2, <3>1, <3>2, TwinOfIs
  <2>7. /\ TP!HasToken(e, q, k) <=> TP!Entry(e, q, k).t = "list" /\ \E i \in TP!Keys(e, p) : has(e, i)
        /\ TP!HasToken(d, q, k) <=> TP!Entry(d, q, k).t = "list" /\ \E i \in TP!Keys(d, p) : has(d, i)
    BY DEF TP!HasToken, p, C
  <2>. HIDE DEF has
  <2>. QED  BY <1>2, <2>5, <2>6, <2>7
<1>. QED  BY <1>3, <1>4

\* Whether a value is one that holds.
LEMMA TruthyOfTwins ==
  ASSUME NEW d, TP!IsDocument(d), NEW e, e = TP!Exchanged(d),
         NEW q \in Seq(TraceKeys), TP!Twins(q) = q, NEW k \in TP!OwnNames
  PROVE  TP!Truthy(e, q, k) = TP!Truthy(d, q, k)
<1>. DEFINE v == TP!Entry(d, q, k)
            w == TP!Entry(e, q, k)
            some(x) == TP!Keys(x, Append(q, k)) # {}
<1>1. /\ Append(q, k) \in Seq(TraceKeys) /\ TP!Twins(Append(q, k)) = Append(q, k)
      /\ w = TP!TwinOf(v) /\ TP!IsValue(v)
  BY OwnNamesOfTwins
<1>2. some(e) = some(d)
  BY Zenon, <1>1, KeysOfTwins
<1>3. w.t = v.t /\ (v.t # "str" => w = v)
  BY <1>1, TwinOfIs
<1>4. /\ TP!Truthy(d, q, k) = CASE v.t = "null" -> FALSE [] v.t = "bool" -> v.b [] v.t = "num" -> v.n > 0
                                [] v.t \in {"list", "dict"} -> some(d) [] OTHER -> TRUE
      /\ TP!Truthy(e, q, k) = CASE w.t = "null" -> FALSE [] w.t = "bool" -> w.b [] w.t = "num" -> w.n > 0
                                [] w.t \in {"list", "dict"} -> some(e) [] OTHER -> TRUE
  BY DEF TP!Truthy
<1>. HIDE DEF v, w, some
<1>5. CASE v.t = "str"
  BY <1>3, <1>4, <1>5
<1>6. CASE v.t # "str"
  <2>1. w = v
    BY <1>3, <1>6
  <2>. QED  BY <1>2, <1>4, <2>1
<1>. QED  BY <1>5, <1>6

\* The record of the call is the same.
LEMMA CallOfTwins ==
  ASSUME NEW d, TP!IsDocument(d), NEW e, e = TP!Exchanged(d),
         NEW q \in Seq(TraceKeys), TP!Twins(q) = q
  PROVE  TP!SafeToolCall(e, q) = TP!SafeToolCall(d, q)
<1>. DEFINE rest(x) == IF Again(x, q) THEN TP!ReadAgain(x, q) ELSE TP!Measured(x, q)
            call(x) == TP!SafeToolCall(x, q)
<1>1. {"input", "result", "pinned", "pin_overrides", "pinned_present", "pin_overrides_present",
       "input_key_count", "result_ok", "error_present", "content_bytes"} \subseteq TP!OwnNames
  BY DEF TP!OwnNames
<1>2. \A k \in TP!OwnNames :
        /\ k \in TraceKeys /\ Append(q, k) \in Seq(TraceKeys) /\ TP!Twins(Append(q, k)) = Append(q, k)
        /\ k \in TP!Keys(e, q) <=> k \in TP!Keys(d, q)
        /\ TP!Entry(e, q, k) = TP!TwinOf(TP!Entry(d, q, k)) /\ TP!IsValue(TP!Entry(d, q, k))
  BY OwnNamesOfTwins
<1>3. \A k \in TP!OwnNames : /\ TP!Entry(e, q, k).t = TP!Entry(d, q, k).t
                             /\ TP!Entry(d, q, k).t # "str" => TP!Entry(e, q, k) = TP!Entry(d, q, k)
  BY <1>2, TwinOfIs
<1>4. Again(e, q) <=> Again(d, q)
  BY <1>1, <1>2 DEF Again
<1>5. ASSUME NEW names \in TP!OwnNames, NEW flag \in TP!OwnNames
      PROVE  TP!Present(e, q, names, flag) = TP!Present(d, q, names, flag)
  <2>1. TP!Entry(e, q, flag) = TP!Bool(TRUE) <=> TP!Entry(d, q, flag) = TP!Bool(TRUE)
    <3>1. TP!Bool(TRUE).t = "bool"
      BY DEF TP!Bool
    <3>. QED  BY Zenon, <1>3, <3>1
  <2>2. TP!HasToken(e, q, names) <=> TP!HasToken(d, q, names)
    BY TokenOfTwins
  <2>. DEFINE p1 == TP!HasToken(e, q, names) \/ TP!Entry(e, q, flag) = TP!Bool(TRUE)
              p2 == TP!HasToken(d, q, names) \/ TP!Entry(d, q, flag) = TP!Bool(TRUE)
  <2>3. p1 = p2
    BY <2>1, <2>2, Zenon
  <2>. QED  BY Zenon, <2>3 DEF TP!Present
<1>6. /\ rest(e)["input_key_count"] = rest(d)["input_key_count"]
      /\ rest(e)["result_ok"] = rest(d)["result_ok"] /\ rest(e)["error_present"] = rest(d)["error_present"]
      /\ "content_bytes" \in DOMAIN rest(e) <=> "content_bytes" \in DOMAIN rest(d)
      /\ "content_bytes" \in DOMAIN rest(d) => rest(e)["content_bytes"] = rest(d)["content_bytes"]
  <2>1. CASE Again(d, q)
    <3>. DEFINE a == TP!ReadAgain(d, q)
                b == TP!ReadAgain(e, q)
                v(x) == TP!Entry(x, q, "content_bytes")
                c(x) == TP!Entry(x, q, "input_key_count")
    <3>1. rest(d) = a /\ rest(e) = b
      BY <1>4, <2>1
    <3>2. /\ DOMAIN a = {"input_key_count", "result_ok", "error_present"}
                           \cup (IF v(d).t = "num" THEN {"content_bytes"} ELSE {})
          /\ a["input_key_count"] = TP!BoundedArity(c(d))
          /\ a["result_ok"] = TP!Bool(TP!Truthy(d, q, "result_ok"))
          /\ a["error_present"] = TP!Bool(TP!Truthy(d, q, "error_present"))
          /\ v(d).t = "num" => a["content_bytes"] = TP!BoundedSize(v(d).n)
      BY Zenon, ReadAgainAt
    <3>3. /\ DOMAIN b = {"input_key_count", "result_ok", "error_present"}
                           \cup (IF v(e).t = "num" THEN {"content_bytes"} ELSE {})
          /\ b["input_key_count"] = TP!BoundedArity(c(e))
          /\ b["result_ok"] = TP!Bool(TP!Truthy(e, q, "result_ok"))
          /\ b["error_present"] = TP!Bool(TP!Truthy(e, q, "error_present"))
          /\ v(e).t = "num" => b["content_bytes"] = TP!BoundedSize(v(e).n)
      BY Zenon, ReadAgainAt
    <3>4. /\ TP!Truthy(e, q, "result_ok") = TP!Truthy(d, q, "result_ok")
          /\ TP!Truthy(e, q, "error_present") = TP!Truthy(d, q, "error_present")
      BY <1>1, TruthyOfTwins
    <3>5. v(e).t = v(d).t /\ (v(d).t # "str" => v(e) = v(d)) /\ c(e).t = c(d).t /\ (c(d).t # "str" => c(e) = c(d))
      BY <1>1, <1>3
    <3>6. TP!BoundedArity(c(e)) = TP!BoundedArity(c(d))
      <4>. HIDE DEF c
      <4>. QED  BY <3>5 DEF TP!BoundedArity
    <3>. HIDE DEF a, b, v, c, rest
    <3>. QED  BY <3>1, <3>2, <3>3, <3>4, <3>5, <3>6
  <2>2. CASE ~Again(d, q)
    <3>. DEFINE a == TP!Measured(d, q)
                b == TP!Measured(e, q)
                v(x) == TP!Entry(x, q, "result")
                c(x) == Cardinality(TP!Keys(x, Append(q, "input")))
    <3>1. rest(d) = a /\ rest(e) = b
      BY <1>4, <2>2
    <3>2. /\ DOMAIN a = {"input_key_count", "result_ok", "error_present"}
                           \cup (IF Sized(d, q) THEN {"content_bytes"} ELSE {})
          /\ a["input_key_count"] = TP!BoundedArity(TP!Num(c(d)))
          /\ a["result_ok"] = TP!Bool(~Failed(d, q)) /\ a["error_present"] = TP!Bool(Failed(d, q))
          /\ Sized(d, q) => a["content_bytes"] = TP!BoundedSize(v(d).size)
      BY Zenon, MeasuredAt
    <3>3. /\ DOMAIN b = {"input_key_count", "result_ok", "error_present"}
                           \cup (IF Sized(e, q) THEN {"content_bytes"} ELSE {})
          /\ b["input_key_count"] = TP!BoundedArity(TP!Num(c(e)))
          /\ b["result_ok"] = TP!Bool(~Failed(e, q)) /\ b["error_present"] = TP!Bool(Failed(e, q))
          /\ Sized(e, q) => b["content_bytes"] = TP!BoundedSize(v(e).size)
      BY Zenon, MeasuredAt
    <3>4. c(e) = c(d)
      BY Zenon, <1>1, <1>2, KeysOfTwins
    <3>5. v(e).t = v(d).t /\ (v(d).t # "str" => v(e) = v(d))
      BY <1>1, <1>3
    <3>6. Failed(e, q) = Failed(d, q)
      <4>1. CASE v(d).t = "str"
        BY <3>5, <4>1 DEF Failed
      <4>2. CASE v(d).t # "str"
        BY <3>5, <4>2 DEF Failed
      <4>. QED  BY <4>1, <4>2
    <3>7. (Sized(e, q) <=> Sized(d, q)) /\ (Sized(d, q) => v(e) = v(d))
      BY <3>5 DEF Sized
    <3>. HIDE DEF a, b, v, c, rest
    <3>. QED  BY <3>1, <3>2, <3>3, <3>4, <3>6, <3>7
  <2>. QED  BY <2>1, <2>2
<1>7. \A x : /\ call(x)["name"] = TP!Redacted /\ call(x)["_redacted"] = TP!Redacted
             /\ call(x)["pinned_present"] = TP!Present(x, q, "pinned", "pinned_present")
             /\ call(x)["pin_overrides_present"] = TP!Present(x, q, "pin_overrides", "pin_overrides_present")
             /\ \A k \in {"input_key_count", "result_ok", "error_present"} : call(x)[k] = rest(x)[k]
             /\ "content_bytes" \in DOMAIN call(x) <=> "content_bytes" \in DOMAIN rest(x)
             /\ "content_bytes" \in DOMAIN rest(x) => call(x)["content_bytes"] = rest(x)["content_bytes"]
  <2>. SUFFICES ASSUME NEW x
                PROVE  /\ call(x)["name"] = TP!Redacted /\ call(x)["_redacted"] = TP!Redacted
                       /\ call(x)["pinned_present"] = TP!Present(x, q, "pinned", "pinned_present")
                       /\ call(x)["pin_overrides_present"] = TP!Present(x, q, "pin_overrides", "pin_overrides_present")
                       /\ \A k \in {"input_key_count", "result_ok", "error_present"} : call(x)[k] = rest(x)[k]
                       /\ "content_bytes" \in DOMAIN call(x) <=> "content_bytes" \in DOMAIN rest(x)
                       /\ "content_bytes" \in DOMAIN rest(x) => call(x)["content_bytes"] = rest(x)["content_bytes"]
    OBVIOUS
  <2>1. rest(x) = IF Again(x, q) THEN TP!ReadAgain(x, q) ELSE TP!Measured(x, q)
    OBVIOUS
  <2>. HIDE DEF rest
  <2>. QED  BY <2>1, CallAt
<1>8. /\ TP!Present(e, q, "pinned", "pinned_present") = TP!Present(d, q, "pinned", "pinned_present")
      /\ TP!Present(e, q, "pin_overrides", "pin_overrides_present") =
           TP!Present(d, q, "pin_overrides", "pin_overrides_present")
  BY <1>1, <1>5
<1>. HIDE DEF rest, call
<1>9. \A k \in CallFields : call(e)[k] = call(d)[k]
  BY <1>6, <1>7, <1>8 DEF CallFields
<1>10. /\ "content_bytes" \in DOMAIN call(e) <=> "content_bytes" \in DOMAIN call(d)
       /\ "content_bytes" \in DOMAIN call(e) => call(e)["content_bytes"] = call(d)["content_bytes"]
  BY <1>6, <1>7
<1>11. call(e) = call(d)
  BY <1>9, <1>10, SameCall DEF call
<1>. QED  BY <1>11 DEF call

\* What the projector places is the same.
LEMMA OwnOfTwins ==
  ASSUME NEW root \in TP!Nodes, NEW d, TP!IsDocument(d), TP!OutsidersAreOutside(root, d),
         NEW e, e = TP!Exchanged(d), NEW q \in TP!Reached(root, d)
  PROVE  Own(root, e, q) = Own(root, d, q)
<1>. DEFINE node == TP!NodeAt(root, q)
<1>1. Closed(d) /\ Valued(d) /\ Closed(e)
  BY DocumentIs, ExchangedIs
<1>2. q \in Seq(TraceKeys) /\ q \in DOMAIN d /\ TP!Twins(q) = q
  BY <1>1, ReachedStep, ReachedOfTwins DEF Closed
<1>3. q \in DOMAIN e /\ e[q].t = d[q].t
  <2>1. q \in DOMAIN e
    BY <1>2, ExchangedIs
  <2>2. e[q] = TP!TwinOf(d[q])
    BY <1>2, <2>1, ExchangedIs
  <2>3. TP!IsValue(d[q])
    BY <1>1, <1>2 DEF Valued
  <2>. QED  BY <2>1, <2>2, <2>3, TwinOfIs
<1>4. TP!IsNode(node)
  BY <1>2, NodeAtStep, NodesAre
<1>5. /\ \A k \in TraceKeys : k \in TP!Keys(e, q) <=> TP!Twin(k) \in TP!Keys(d, q)
      /\ \A k : k \in TP!Keys(e, q) => k \in TraceKeys
      /\ \A k : k \in TP!Keys(d, q) => k \in TraceKeys
      /\ \A k \in TraceKeys : TP!Entry(e, q, k) = TP!TwinOf(TP!Entry(d, q, TP!Twin(k)))
  BY <1>1, <1>2, EntriesOfTwins, KeysAre
<1>6. CASE d[q].t = "dict" /\ node.n \in {"obj", "rules"}
  <2>. DEFINE gone(x, k) == ~TP!Kept(node, k) /\ ~(node.n = "obj" /\ k = TP!LegacyKey /\ TP!Entry(x, q, k) = TP!Null)
  <2>1. \A x : TP!Withheld(node, x, q) <=> \E k \in TP!Keys(x, q) : gone(x, k)
    BY DEF TP!Withheld
  <2>2. ASSUME NEW k \in TraceKeys, TP!Twin(k) \in TP!Keys(d, q) PROVE gone(e, k) <=> gone(d, TP!Twin(k))
    <3>. DEFINE l == TP!Twin(k)
    <3>1. TP!Twin(l) = k /\ (l \in TP!Secrets <=> k \in TP!Secrets) /\ (k \notin TP!Secrets => l = k)
      BY TwinIs
    <3>2. CASE k \in TP!Secrets
      <4>1. l \in TraceKeys /\ Append(q, l) \in DOMAIN d
        BY <1>1, <1>2, <2>2, KeysAre
      <4>2. Append(q, l) # <<>> /\ TP!Above(Append(q, l)) = q /\ Append(q, l)[Len(Append(q, l))] = l
        BY <1>2, <4>1, PositionUnder
      <4>3. node.wildcard = TP!Undeclared
        BY Zenon, <1>6, <3>1, <3>2, <4>1, <4>2 DEF TP!OutsidersAreOutside
      <4>4. k \notin DOMAIN node.children /\ l \notin DOMAIN node.children
        BY <1>4, <1>6, <3>1, <3>2 DEF TP!IsNode
      <4>5. k # TP!LegacyKey /\ l # TP!LegacyKey
        BY <3>1, <3>2 DEF TP!Secrets, TP!LegacyKey
      <4>. HIDE DEF node, l
      <4>6. ~TP!Kept(node, k) /\ ~TP!Kept(node, l)
        BY <1>6, <4>3, <4>4 DEF TP!Kept
      <4>. QED  BY <4>5, <4>6 DEF l
    <3>3. CASE k \notin TP!Secrets
      <4>1. l = k /\ TP!Entry(e, q, k) = TP!TwinOf(TP!Entry(d, q, k))
        BY <1>5, <3>1, <3>3
      <4>2. TP!Entry(e, q, k) = TP!Null <=> TP!Entry(d, q, k) = TP!Null
        <5>1. TP!IsValue(TP!Entry(d, q, k))
          BY <1>1, EntryIsValue
        <5>2. TP!Null.t = "null"
          BY DEF TP!Null
        <5>. QED  BY <4>1, <5>1, <5>2, TwinOfIs
      <4>. QED  BY <4>1, <4>2
    <3>. QED  BY <3>2, <3>3
  <2>. HIDE DEF gone
  <2>3. TP!Withheld(node, e, q) <=> TP!Withheld(node, d, q)
    <3>1. ASSUME NEW k \in TP!Keys(e, q), gone(e, k) PROVE TP!Withheld(node, d, q)
      <4>1. k \in TraceKeys /\ TP!Twin(k) \in TP!Keys(d, q)
        BY <1>5
      <4>. QED  BY <2>1, <2>2, <3>1, <4>1
    <3>2. ASSUME NEW l \in TP!Keys(d, q), gone(d, l) PROVE TP!Withheld(node, e, q)
      <4>1. l \in TraceKeys /\ TP!Twin(l) \in TraceKeys /\ TP!Twin(TP!Twin(l)) = l
        BY <1>5, TwinIs
      <4>2. TP!Twin(l) \in TP!Keys(e, q) /\ gone(e, TP!Twin(l))
        BY <1>5, <2>2, <3>2, <4>1
      <4>. QED  BY <2>1, <4>2
    <3>. HIDE DEF node
    <3>. QED  BY <2>1, <3>1, <3>2
  <2>4. /\ Own(root, d, q) = TP!Flag(TP!Withheld(node, d, q))
        /\ Own(root, e, q) = TP!Flag(TP!Withheld(node, e, q))
    BY <1>3, <1>6 DEF Own, TP!Placed
  <2>5. TP!Flag(TP!Withheld(node, d, q)) = TP!Flag(TP!Withheld(node, e, q))
    <3>1. CASE TP!Withheld(node, d, q)
      BY <2>3, <3>1 DEF TP!Flag
    <3>2. CASE ~TP!Withheld(node, d, q)
      BY <2>3, <3>2 DEF TP!Flag
    <3>. QED  BY <3>1, <3>2
  <2>. QED  BY <2>4, <2>5
<1>7. CASE d[q].t = "dict" /\ node.n = "trigger"
  <2>1. Own(root, d, q) = TP!SafeTriggerPayload(d, q) /\ Own(root, e, q) = TP!SafeTriggerPayload(e, q)
    BY <1>3, <1>7 DEF Own, TP!Placed
  <2>2. {"message_id", "thread_id", "id"} \subseteq TP!OwnNames
    BY DEF TP!OwnNames
  <2>3. \A k \in {"message_id", "thread_id", "id"} : k \in TP!Keys(e, q) <=> k \in TP!Keys(d, q)
    BY <1>2, <2>2, OwnNamesOfTwins
  <2>4. TP!Keys(e, q) \cap {"message_id", "thread_id", "id"} = TP!Keys(d, q) \cap {"message_id", "thread_id", "id"}
    BY <2>3
  <2>. QED  BY <2>1, <2>4 DEF TP!SafeTriggerPayload
<1>8. CASE d[q].t = "dict" /\ node.n = "call"
  <2>1. Own(root, d, q) = TP!SafeToolCall(d, q) /\ Own(root, e, q) = TP!SafeToolCall(e, q)
    BY <1>3, <1>8 DEF Own, TP!Placed
  <2>. QED  BY <1>2, <2>1, CallOfTwins
<1>9. CASE ~(d[q].t = "dict" /\ node.n \in {"obj", "rules", "trigger", "call"})
  <2>1. Own(root, d, q) = TP!None
    BY <1>9 DEF Own, TP!Placed
  <2>2. Own(root, e, q) = TP!None
    BY <1>3, <1>9 DEF Own, TP!Placed
  <2>. QED  BY <2>1, <2>2
<1>. QED  BY <1>6, <1>7, <1>8, <1>9

\* And so is the projection.
LEMMA ProjectedOfTwins ==
  ASSUME NEW root \in TP!Nodes, NEW d, TP!IsDocument(d), TP!OutsidersAreOutside(root, d)
  PROVE  /\ TP!Project(root, TP!Exchanged(d)) = TP!Project(root, d)
         /\ TP!Exchanged(d)[<<>>] = TP!Dict
<1>. DEFINE e == TP!Exchanged(d)
<1>1. Closed(d) /\ Valued(d) /\ Closed(e)
  BY DocumentIs, ExchangedIs
<1>2. TP!Reached(root, e) = TP!Reached(root, d)
  BY ReachedOfTwins
<1>3. ASSUME NEW p \in TP!Reached(root, d)
      PROVE  e[p] = TP!TwinOf(d[p]) /\ TP!IsValue(d[p]) /\ TP!NodeAt(root, p) \in TP!Nodes
  <2>1. p \in Seq(TraceKeys) /\ p \in DOMAIN d /\ TP!Twins(p) = p /\ p \in DOMAIN e
    BY <1>1, <1>2, ReachedStep, ReachedOfTwins DEF Closed
  <2>2. e[p] = TP!TwinOf(d[TP!Twins(p)])
    BY <2>1, ExchangedIs
  <2>. QED  BY <1>1, <2>1, <2>2, NodeAtStep DEF Valued
<1>4. ASSUME NEW p \in TP!Reached(root, d)
      PROVE  /\ TP!Shown(TP!NodeAt(root, p), e[p]) = TP!Shown(TP!NodeAt(root, p), d[p])
             /\ Own(root, e, p) = Own(root, d, p)
  BY <1>3, ShownOfTwins, OwnOfTwins
<1>5. e[<<>>] = TP!Dict
  <2>1. <<>> \in TP!Reached(root, d) /\ d[<<>>] = TP!Dict
    BY <1>1, ReachedStep, DocumentIs
  <2>2. e[<<>>] = TP!TwinOf(TP!Dict)
    BY <1>3, <2>1
  <2>. QED  BY <2>2 DEF TP!TwinOf, TP!Dict
<1>. HIDE DEF e
<1>6. TP!Project(root, e) = TP!Project(root, d)
  BY <1>1, <1>2, <1>4, SameProjection
<1>. QED  BY <1>5, <1>6 DEF e

-----------------------------------------------------------------------------
(* TraceProjection: what is removed is marked.                             *)

\* A null under the old flag's name, which nothing is lost with.
NullFlag(d, p) == p # <<>> /\ p[Len(p)] = TP!LegacyKey /\ d[p] = TP!Null

\* Where the projection has no marker, the projector came to a dict or a list,
\* placed nothing in it and came to all that is in it but the null flags.
LEMMA UnmarkedIsWhole ==
  ASSUME NEW root \in TP!Nodes, NEW d, TP!IsDocument(d), NEW s, s = TP!Project(root, d), ~TP!HasMarker(s),
         NEW q \in TP!Reached(root, d)
  PROVE  /\ s[q] = d[q]
         /\ DOMAIN Own(root, d, q) = {}
         /\ \A k \in TraceKeys : Append(q, k) \in DOMAIN d =>
              Append(q, k) \in TP!Reached(root, d) \/ NullFlag(d, Append(q, k))
<1>. DEFINE node == TP!NodeAt(root, q)
            own == Own(root, d, q)
<1>1. Closed(d) /\ Valued(d) /\ q \in Seq(TraceKeys)
  BY DocumentIs, ReachedStep DEF Closed
<1>2. TP!IsNode(node)
  BY <1>1, NodeAtStep, NodesAre
<1>3. q \in DOMAIN s /\ s[q] = TP!Shown(node, d[q])
  BY <1>1, ProjectedAt
<1>4. s[q] = d[q]
  <2>1. s[q] # TP!Redacted
    BY Zenon, <1>3 DEF TP!HasMarker
  <2>. QED  BY <1>3, <2>1, ShownAgain
<1>5. \A k \in DOMAIN own :
        /\ k \in TraceKeys /\ Append(q, k) \in DOMAIN s /\ s[Append(q, k)] = own[k]
        /\ Append(q, k) # <<>> /\ Append(q, k)[Len(Append(q, k))] = k
  <2>. SUFFICES ASSUME NEW k \in DOMAIN own
                PROVE  /\ k \in TraceKeys /\ Append(q, k) \in DOMAIN s /\ s[Append(q, k)] = own[k]
                       /\ Append(q, k) # <<>> /\ Append(q, k)[Len(Append(q, k))] = k
    OBVIOUS
  <2>1. Append(q, k) \in DOMAIN s /\ s[Append(q, k)] = own[k]
    BY <1>1, ProjectedAt
  <2>2. k \in TraceKeys
    BY Zenon, PlacedNames DEF Own
  <2>. HIDE DEF own
  <2>. QED  BY <1>1, <2>1, <2>2, PositionUnder
<1>6. "_redacted" \notin DOMAIN own
  <2>. HIDE DEF own
  <2>. QED  BY Zenon, <1>5 DEF TP!HasMarker
<1>7. ~(TP!WithheldKey \in DOMAIN own /\ own[TP!WithheldKey] = TP!Bool(TRUE))
  <2>. SUFFICES ASSUME TP!WithheldKey \in DOMAIN own, own[TP!WithheldKey] = TP!Bool(TRUE) PROVE FALSE
    BY Zenon
  <2>. DEFINE p == Append(q, TP!WithheldKey)
  <2>. HIDE DEF own
  <2>1. p \in DOMAIN s /\ s[p] = TP!Bool(TRUE) /\ p # <<>> /\ p[Len(p)] = TP!WithheldKey
    BY Zenon, <1>5
  <2>. HIDE DEF p
  <2>. QED  BY Zenon, <2>1 DEF TP!HasMarker
<1>8. ~(d[q].t = "dict" /\ node.n \in {"trigger", "call"})
  <2>1. CASE d[q].t = "dict" /\ node.n = "trigger"
    <3>1. own = TP!SafeTriggerPayload(d, q)
      BY <2>1 DEF Own, TP!Placed
    <3>. QED  BY <1>6, <3>1 DEF TP!SafeTriggerPayload
  <2>2. CASE d[q].t = "dict" /\ node.n = "call"
    <3>1. own = TP!SafeToolCall(d, q)
      BY <2>2 DEF Own, TP!Placed
    <3>2. "_redacted" \in CallFields
      BY DEF CallFields
    <3>. QED  BY <1>6, <3>1, <3>2, CallNames
  <2>. QED  BY <2>1, <2>2
<1>9. d[q].t = "dict" /\ node.n \in {"obj", "rules"} => ~TP!Withheld(node, d, q)
  <2>1. ASSUME d[q].t = "dict", node.n \in {"obj", "rules"}, TP!Withheld(node, d, q) PROVE FALSE
    <3>1. own = TP!Flag(TRUE)
      BY Zenon, <2>1 DEF Own, TP!Placed
    <3>2. TP!WithheldKey \in DOMAIN own /\ own[TP!WithheldKey] = TP!Bool(TRUE)
      BY <3>1 DEF TP!Flag
    <3>. QED  BY <1>7, <3>2
  <2>. QED  BY <2>1
<1>10. DOMAIN own = {}
  <2>1. CASE d[q].t = "dict" /\ node.n \in {"obj", "rules"}
    <3>1. own = TP!Flag(TP!Withheld(node, d, q))
      BY <2>1 DEF Own, TP!Placed
    <3>. QED  BY <1>9, <2>1, <3>1 DEF TP!Flag
  <2>2. CASE ~(d[q].t = "dict" /\ node.n \in {"obj", "rules"})
    <3>1. own = TP!None
      BY <1>8, <2>2 DEF Own, TP!Placed
    <3>. QED  BY <3>1 DEF TP!None
  <2>. QED  BY <2>1, <2>2
<1>11. ASSUME NEW k \in TraceKeys, Append(q, k) \in DOMAIN d
       PROVE  Append(q, k) \in TP!Reached(root, d) \/ NullFlag(d, Append(q, k))
  <2>. DEFINE p == Append(q, k)
  <2>1. d[q] \in {TP!Dict, TP!List}
    BY <1>1, <1>11, DocumentIs
  <2>2. d[q] = TP!Shown(node, d[q])
    BY <1>3, <1>4
  <2>3. TP!Opens(node, d[q])
    <3>1. d[q].t \in {"dict", "list"} /\ TP!Class(d[q]) = d[q].t /\ d[q] # TP!Null /\ d[q] # TP!Redacted
      BY <2>1 DEF TP!Dict, TP!List, TP!Class, TP!Null, TP!Redacted, TP!Str
    <3>2. \/ TP!Opens(node, d[q])
          \/ node.n = "leaf" /\ TP!Class(d[q]) \in node.classes
          \/ node.n \in {"trigger", "call"} /\ d[q].t = "dict"
      <4>. HIDE DEF node
      <4>. QED  BY <2>2, <3>1 DEF TP!Shown
    <3>3. node.n = "leaf" => d[q].t \notin node.classes
      BY <1>2, <3>1 DEF TP!IsNode
    <3>. QED  BY <1>8, <3>1, <3>2, <3>3
  <2>4. p \in TP!Reached(root, d) <=> q \in TP!Reached(root, d) /\ TP!Kept(node, k)
    BY <1>1, <1>11, <2>3, ReachedStep
  <2>5. CASE TP!Kept(node, k)
    BY <2>4, <2>5
  <2>6. CASE ~TP!Kept(node, k)
    <3>1. node.n \in {"obj", "rules"} /\ d[q].t = "dict"
      <4>. HIDE DEF node
      <4>. QED  BY <2>3, <2>6 DEF TP!Opens, TP!Kept
    <3>2. k \in TP!Keys(d, q)
      BY <1>1, <1>11, KeysAre
    <3>3. k = TP!LegacyKey /\ TP!Entry(d, q, k) = TP!Null
      <4>1. ~TP!Withheld(node, d, q)
        BY <1>9, <3>1
      <4>. HIDE DEF node
      <4>. QED  BY <2>6, <3>2, <4>1 DEF TP!Withheld
    <3>4. d[p] = TP!Null
      BY <1>11, <3>3 DEF TP!Entry
    <3>5. p # <<>> /\ p[Len(p)] = k
      BY <1>1, PositionUnder
    <3>. QED  BY <3>3, <3>4, <3>5 DEF NullFlag
  <2>. QED  BY <2>5, <2>6
<1>. QED  BY <1>4, <1>10, <1>11

\* A projection without a marker is the whole document, but its null flags.
LEMMA UnmarkedProjection ==
  ASSUME NEW root \in TP!Nodes, NEW d, TP!IsDocument(d), NEW s, s = TP!Project(root, d), ~TP!HasMarker(s)
  PROVE  s = TP!WithoutNullFlags(d)
<1>. DEFINE R == TP!Reached(root, d)
            Good == {p \in Seq(TraceKeys) : p \in DOMAIN d => p \in R \/ NullFlag(d, p)}
<1>1. /\ Closed(d) /\ <<>> \in R /\ R \subseteq DOMAIN d /\ DOMAIN d \subseteq Seq(TraceKeys)
      /\ d = [p \in DOMAIN d |-> d[p]]
  BY DocumentIs, ReachedStep DEF Closed
<1>2. /\ \A p \in R : p \in DOMAIN s /\ s[p] = d[p]
      /\ \A q \in R : \A k \in TraceKeys : Append(q, k) \in DOMAIN d =>
           Append(q, k) \in R \/ NullFlag(d, Append(q, k))
      /\ \A q \in R : DOMAIN Own(root, d, q) = {}
  BY <1>1, UnmarkedIsWhole, ProjectedAt
<1>3. \A p \in DOMAIN s : p \in R
  <2>1. \A p \in DOMAIN s : p \notin R => \E q \in R : \E k \in DOMAIN Own(root, d, q) : p = Append(q, k)
    BY <1>1, ProjectedAt
  <2>. HIDE DEF R
  <2>. QED  BY <1>2, <2>1
<1>4. Seq(TraceKeys) \subseteq Good
  <2>1. <<>> \in Good
    BY <1>1
  <2>2. ASSUME NEW q \in Seq(TraceKeys), NEW k \in TraceKeys, q \in Good PROVE Append(q, k) \in Good
    <3>. DEFINE p == Append(q, k)
    <3>1. p \in Seq(TraceKeys)
      BY PositionUnder
    <3>2. ASSUME p \in DOMAIN d PROVE p \in R \/ NullFlag(d, p)
      <4>1. q \in DOMAIN d /\ d[q] \in {TP!Dict, TP!List}
        BY <3>2, DocumentIs
      <4>2. ~NullFlag(d, q)
        BY <4>1 DEF NullFlag, TP!Dict, TP!List, TP!Null
      <4>. HIDE DEF R
      <4>3. q \in R
        BY <2>2, <4>1, <4>2
      <4>. QED  BY <1>2, <3>2, <4>3
    <3>. HIDE DEF p, R
    <3>3. p \in Good
      BY <3>1, <3>2
    <3>. QED  BY <3>3 DEF p
  <2>. HIDE DEF Good
  <2>. QED  BY <2>1, <2>2, PositionInduction
<1>5. ASSUME NEW p \in R PROVE ~NullFlag(d, p)
  <2>1. SUFFICES ASSUME p # <<>>, p[Len(p)] = TP!LegacyKey PROVE FALSE
    BY DEF NullFlag
  <2>. DEFINE q == TP!Above(p)
  <2>2. q \in Seq(TraceKeys) /\ TP!LegacyKey \in TraceKeys /\ p = Append(q, TP!LegacyKey)
    BY <1>1, <2>1, PositionIn
  <2>. HIDE DEF q
  <2>3. TP!Opens(TP!NodeAt(root, q), d[q]) /\ TP!Kept(TP!NodeAt(root, q), TP!LegacyKey) /\ p \in DOMAIN d
    BY <1>1, <2>2, ReachedStep
  <2>4. d[q].t = "list"
    BY <2>3 DEF TP!Opens, TP!Kept
  <2>. QED  BY <2>2, <2>3, <2>4, DocumentIs
<1>6. \A p : p \in R <=> p \in DOMAIN d /\ ~NullFlag(d, p)
  <2>. HIDE DEF R
  <2>. QED  BY <1>1, <1>4, <1>5
<1>7. DOMAIN s = {p \in DOMAIN d : ~NullFlag(d, p)}
  <2>. HIDE DEF R
  <2>. QED  BY Zenon, <1>2, <1>3, <1>6
<1>8. s = [p \in DOMAIN s |-> s[p]]
  BY DEF TP!Project
<1>9. s = [p \in {p \in DOMAIN d : ~NullFlag(d, p)} |-> d[p]]
  <2>. HIDE DEF R
  <2>1. \A p \in DOMAIN s : s[p] = d[p]
    BY <1>2, <1>3
  <2>. QED  BY <1>7, <1>8, <2>1
<1>. QED  BY <1>9 DEF TP!WithoutNullFlags, NullFlag

-----------------------------------------------------------------------------
(* TraceProjection: a document written and read back.                      *)

\* What is stored is the projection of the document, and what was read is the
\* projection of what is stored.
AsProjected ==
  part = "projection" =>
    \/ v1 = TP!Nothing /\ v3 = TP!None
    \/ v1 \in TraceAssets /\ v2 = TP!Projected(v1.kind, v1.doc) /\ (v3 = TP!None \/ v3 = TP!Projected(v1.kind, v2))

\* It holds of every state.
LEMMA AsProjectedHolds == Spec => []AsProjected
<1>1. Init => AsProjected
  <2>1. ASSUME Init, part = "projection" PROVE v1 = TP!Nothing /\ v3 = TP!None
    BY <2>1 DEF Init, TP!Init
  <2>. QED  BY <2>1 DEF AsProjected
<1>2. AsProjected /\ [Next]_all => AsProjected'
  <2>. SUFFICES ASSUME AsProjected, [Next]_all, part' = "projection" PROVE AsProjected'
    BY DEF AsProjected
  <2>1. CASE UNCHANGED all
    BY <2>1 DEF AsProjected, all
  <2>2. CASE Next
    <3>1. part = "projection" /\ TP!Next
      BY <2>2 DEF Next
    <3>2. ASSUME NEW a \in TraceAssets PROVE a # TP!Nothing
      <4>1. a.kind # "none"
        BY ProjectionAssumption
      <4>. QED  BY <4>1 DEF TP!Nothing
    <3>3. CASE TP!Write
      <4>1. v1 = TP!Nothing /\ v3' = v3
        BY <3>3 DEF TP!Write
      <4>2. v3 = TP!None
        BY <3>1, <3>2, <4>1 DEF AsProjected
      <4>3. PICK a \in TraceAssets : v1' = a /\ v2' = TP!Projected(a.kind, a.doc)
        BY <3>3 DEF TP!Write
      <4>. QED  BY <4>1, <4>2, <4>3 DEF AsProjected
    <3>4. CASE TP!ReadBack
      <4>1. v1 # TP!Nothing /\ v3' = TP!Projected(v1.kind, v2) /\ v1' = v1 /\ v2' = v2
        BY <3>4 DEF TP!ReadBack
      <4>2. v1 \in TraceAssets /\ v2 = TP!Projected(v1.kind, v1.doc)
        BY <3>1, <4>1 DEF AsProjected
      <4>. QED  BY <4>1, <4>2 DEF AsProjected
    <3>. QED  BY <3>1, <3>3, <3>4 DEF TP!Next
  <2>. QED  BY <2>1, <2>2
<1>. QED  BY <1>1, <1>2, PTL DEF Spec

\* Of a document of any kind, whatever it holds: what is read of what is stored
\* is what is stored, what an outsider chose does not show in it, and where it
\* has no marker it is the whole document (project_asset,
\* project_audit_detail_final, has_redaction_marker).
LEMMA ProjectedIsSound ==
  ASSUME NEW a \in TraceAssets
  PROVE  LET s == TP!Projected(a.kind, a.doc)
         IN /\ TP!Projected(a.kind, s) = s
            /\ TP!Projected(a.kind, TP!Exchanged(a.doc)) = s
            /\ ~TP!HasMarker(s) => s = TP!WithoutNullFlags(a.doc)
<1>. DEFINE root == TP!Schema(a.kind)
            d == a.doc
            s == TP!Project(root, d)
<1>1. TP!IsDocument(d) /\ TP!OutsidersAreOutside(root, d)
  BY ProjectionAssumption
<1>2. root \in TP!Nodes
  BY NodesAre
<1>3. Closed(d) /\ Valued(d) /\ d[<<>>] = TP!Dict
  BY <1>1, DocumentIs
<1>4. TP!Projected(a.kind, d) = s
  BY <1>3 DEF TP!Projected
<1>5. TP!Projected(a.kind, s) = s
  <2>. HIDE DEF root, d
  <2>1. TP!Project(root, s) = s
    BY <1>2, <1>3, ProjectedAgain
  <2>. HIDE DEF s
  <2>. QED  BY <2>1 DEF TP!Projected, root
<1>6. TP!Projected(a.kind, TP!Exchanged(d)) = s
  <2>. HIDE DEF d, root
  <2>1. TP!Project(root, TP!Exchanged(d)) = s /\ TP!Exchanged(d)[<<>>] = TP!Dict
    BY <1>1, <1>2, ProjectedOfTwins
  <2>. HIDE DEF s
  <2>. QED  BY <2>1 DEF TP!Projected, root
<1>7. ~TP!HasMarker(s) => s = TP!WithoutNullFlags(d)
  <2>. HIDE DEF d, root
  <2>. QED  BY <1>1, <1>2, UnmarkedProjection
<1>. HIDE DEF s, root, d
<1>8. /\ TP!Projected(a.kind, TP!Projected(a.kind, d)) = TP!Projected(a.kind, d)
      /\ TP!Projected(a.kind, TP!Exchanged(d)) = TP!Projected(a.kind, d)
      /\ ~TP!HasMarker(TP!Projected(a.kind, d)) => TP!Projected(a.kind, d) = TP!WithoutNullFlags(d)
  BY <1>4, <1>5, <1>6, <1>7
<1>. QED  BY <1>8 DEF d

\* The projector is a fixed point, blind to what outsiders chose, and leaves a
\* marker wherever it removed something, of every kind of document and every
\* document of it (trace_projection.py).
THEOREM DocumentsAreSoundlyProjected == Spec => []ProjectionIsSound
<1>1. AsProjected => ProjectionIsSound
  <2>. SUFFICES ASSUME AsProjected, part = "projection"
                PROVE  TP!ReadsAsStored /\ TP!SecretsDoNotShow /\ TP!RemovalIsFlagged
    BY DEF ProjectionIsSound
  <2>1. CASE v1 = TP!Nothing /\ v3 = TP!None
    BY <2>1 DEF TP!ReadsAsStored, TP!SecretsDoNotShow, TP!RemovalIsFlagged
  <2>2. CASE /\ v1 \in TraceAssets /\ v2 = TP!Projected(v1.kind, v1.doc)
             /\ v3 = TP!None \/ v3 = TP!Projected(v1.kind, v2)
    <3>1. /\ TP!Projected(v1.kind, v2) = v2
          /\ TP!Projected(v1.kind, TP!Exchanged(v1.doc)) = v2
          /\ ~TP!HasMarker(v2) => v2 = TP!WithoutNullFlags(v1.doc)
      BY <2>2, ProjectedIsSound
    <3>. QED  BY <2>2, <3>1 DEF TP!ReadsAsStored, TP!SecretsDoNotShow, TP!RemovalIsFlagged
  <2>. QED  BY <2>1, <2>2 DEF AsProjected
<1>2. Spec => []AsProjected
  BY AsProjectedHolds
<1>. QED  BY <1>1, <1>2, PTL
-----------------------------------------------------------------------------
(* Triggers.                                                               *)

phase    == v1
boot     == v2
next     == v3
stored   == v4
started  == v5
registry == v6
runs     == v7
busy     == v8
due      == v9
posts    == v10
events   == v11
unswept  == v13

Indexes == DOMAIN Files
HookIds == {Files[d].id : d \in Indexes}
RunType == [of: Indexes, event: Nat, boot: Nat, state: {"running", "paused", "ended"},
            by: {"engine", "sweep", "stop"}, signed: BOOLEAN]

TriggersType ==
  /\ phase \in {"down", "sweeping", "starting", "up", "stopping", "stopped"}
  /\ boot \in Nat /\ next \in Nat /\ stored \subseteq Indexes /\ started \in Seq(Indexes)
  /\ registry \in [HookIds -> Indexes \cup {0}]
  /\ runs \in Seq(RunType) /\ busy \in [Indexes -> Nat]
  /\ due \subseteq [of: Indexes, event: Nat]
  /\ posts \subseteq [id: HookIds, event: Nat, signed: BOOLEAN]
  /\ events \in Nat

\* Until the sweep is over nothing has been started that could make a run, and
\* what the rows say is running is of an earlier process.
QuietBefore ==
  /\ phase \in {"down", "sweeping"} =>
       /\ started = <<>> /\ due = {} /\ posts = {}
       /\ \A t \in HookIds : registry[t] = 0
       /\ \A d \in Indexes : busy[d] = 0
  /\ \A i \in DOMAIN runs : runs[i].boot <= boot /\ (phase = "sweeping" => runs[i].boot < boot)

\* What is started is a definition that was saved, and what is dispatched is a
\* file event.
StartedInv ==
  /\ \A k \in DOMAIN started : started[k] \in stored
  /\ \A e \in due : e.of \in stored /\ TR!Kind(e.of) = "file_watch"
  /\ \A t \in HookIds : registry[t] # 0 => registry[t] \in stored /\ TR!Kind(registry[t]) = "webhook"

\* The schedule's loop awaits the run it started, and a running run of the
\* schedule is the one its loop awaits.
BusyInv ==
  /\ \A d \in Indexes : busy[d] # 0 =>
       /\ busy[d] \in DOMAIN runs /\ runs[busy[d]].of = d
       /\ runs[busy[d]].state = "running" /\ runs[busy[d]].boot = boot
  /\ phase # "down" => \A i \in DOMAIN runs :
       TR!Kind(runs[i].of) = "schedule" /\ runs[i].state = "running" /\ runs[i].boot = boot
         => busy[runs[i].of] = i

\* The first two parts of RunningMeansDriven.
DrivenInv ==
  /\ phase \in {"starting", "up", "stopping", "stopped"} =>
       \A i \in DOMAIN runs : runs[i].state = "running" => runs[i].boot = boot \/ i \in unswept
  /\ \A i \in DOMAIN runs : runs[i].by = "sweep" => runs[i].state = "paused" /\ runs[i].boot < boot

\* An event makes one run of a definition, whether it is already made, is
\* dispatched to the loop, or waits for its secret; a post is an event of its own.
EventInv ==
  /\ \A i \in DOMAIN runs : runs[i].event <= events
  /\ \A e \in due : e.event <= events
  /\ \A p \in posts : p.event <= events
  /\ \A i, j \in DOMAIN runs : i # j => runs[i].event # runs[j].event \/ runs[i].of # runs[j].of
  /\ \A e \in due : \A i \in DOMAIN runs : runs[i].event # e.event \/ runs[i].of # e.of
  /\ \A p \in posts : (\A i \in DOMAIN runs : runs[i].event # p.event) /\ (\A e \in due : e.event # p.event)
  /\ \A p, q \in posts : p # q => p.event # q.event

\* A definition whose webhook would be served, and whom the id belongs to: the
\* first of them, once the boot has come to it and until the triggers are stopped.
Hook(d) == TR!Kind(d) = "webhook" /\ Files[d].parses /\ TR!Makes(d)
FirstHook(d) == Hook(d) /\ \A e \in Indexes : Hook(e) /\ Files[e].id = Files[d].id => d <= e
HookInv ==
  /\ \A t \in HookIds : registry[t] # 0 => FirstHook(registry[t]) /\ Files[registry[t]].id = t
  /\ phase = "sweeping" => next = 1
  /\ phase = "starting" => \A d \in Indexes : Hook(d) /\ d < next => registry[Files[d].id] # 0
  /\ \A i \in DOMAIN runs : TR!Kind(runs[i].of) = "webhook" =>
       FirstHook(runs[i].of) /\ (Files[runs[i].of].secret => runs[i].signed)
  /\ \A i \in DOMAIN runs : runs[i].of \in stored

TriggersInv ==
  TriggersType /\ QuietBefore /\ StartedInv /\ BusyInv /\ DrivenInv /\ EventInv /\ HookInv
USE DEF phase, boot, next, stored, started, registry, runs, busy, due, posts, events, unswept

\* A run that is made, and the definitions it can be of.
LEMMA MadeFacts ==
  ASSUME TriggersType, NEW d \in Indexes, NEW e \in Nat, NEW s \in BOOLEAN
  PROVE  /\ TR!NewRun(d, e, s) \in RunType
         /\ TR!NewRun(d, e, s).of = d /\ TR!NewRun(d, e, s).event = e /\ TR!NewRun(d, e, s).signed = s
         /\ TR!NewRun(d, e, s).boot = boot /\ TR!NewRun(d, e, s).state = "running"
         /\ TR!NewRun(d, e, s).by = "engine"
BY DEF TriggersType, TR!NewRun, RunType

\* A run of a signed event is a run.
LEMMA SignedFacts ==
  ASSUME TriggersType, NEW d \in Indexes, NEW e \in Nat
  PROVE  /\ TR!NewRun(d, e, TRUE) \in RunType
         /\ TR!NewRun(d, e, TRUE).of = d /\ TR!NewRun(d, e, TRUE).event = e /\ TR!NewRun(d, e, TRUE).signed
         /\ TR!NewRun(d, e, TRUE).boot = boot /\ TR!NewRun(d, e, TRUE).state = "running"
         /\ TR!NewRun(d, e, TRUE).by = "engine"
BY DEF TriggersType, TR!NewRun, RunType

\* The fields of a run.
LEMMA RunFacts ==
  ASSUME TriggersType, NEW i \in DOMAIN runs
  PROVE  /\ runs[i] \in RunType /\ runs[i].of \in Indexes /\ runs[i].event \in Nat /\ runs[i].boot \in Nat
<1>1. runs[i] \in RunType
  BY DEF TriggersType
<1>. QED
  BY <1>1 DEF RunType

\* What a change of state makes of a run.
LEMMA MarkFacts ==
  ASSUME NEW r \in RunType, NEW s \in {"running", "paused", "ended"}, NEW b \in {"engine", "sweep", "stop"}
  PROVE  /\ [r EXCEPT !.state = s, !.by = b] \in RunType /\ [r EXCEPT !.state = s] \in RunType
         /\ [r EXCEPT !.state = s, !.by = b].state = s /\ [r EXCEPT !.state = s, !.by = b].by = b
         /\ [r EXCEPT !.state = s].state = s /\ [r EXCEPT !.state = s].by = r.by
         /\ [r EXCEPT !.state = s, !.by = b].of = r.of /\ [r EXCEPT !.state = s].of = r.of
         /\ [r EXCEPT !.state = s, !.by = b].event = r.event /\ [r EXCEPT !.state = s].event = r.event
         /\ [r EXCEPT !.state = s, !.by = b].boot = r.boot /\ [r EXCEPT !.state = s].boot = r.boot
         /\ [r EXCEPT !.state = s, !.by = b].signed = r.signed /\ [r EXCEPT !.state = s].signed = r.signed
BY Zenon DEF RunType

\* Every step keeps the types.
LEMMA TriggersTypeStep ==
  ASSUME TriggersType, TriggersAssumption, TR!Next
  PROVE  TriggersType'
<1> USE DEF Indexes
<1>1. CASE TR!Boot
  BY <1>1 DEF TR!Boot, TriggersType
<1>2. CASE TR!Sweep
  <2>1. PICK i \in DOMAIN runs : runs' = [runs EXCEPT ![i].state = "paused", ![i].by = "sweep"] \/ runs' = runs
    BY Zenon, <1>2 DEF TR!Sweep
  <2>2. runs' \in Seq(RunType)
    <3>1. \A j \in DOMAIN runs : runs[j] \in RunType
      BY DEF TriggersType
    <3>2. runs' = [runs EXCEPT ![i] = [runs[i] EXCEPT !.state = "paused", !.by = "sweep"]] \/ runs' = runs
      BY <2>1
    <3>3. [runs[i] EXCEPT !.state = "paused", !.by = "sweep"] \in RunType
      BY Zenon, <3>1, MarkFacts
    <3>4. runs \in Seq(RunType)
      BY DEF TriggersType
    <3>5. runs' \in [DOMAIN runs -> RunType]
      BY <3>1, <3>2, <3>3, <3>4
    <3>. QED
      BY <3>4, <3>5, Replaced
  <2>. QED
    BY <1>2, <2>2 DEF TR!Sweep, TriggersType
<1>3. CASE TR!Swept \/ TR!Started \/ TR!Stopping \/ TR!Stopped
  BY <1>3 DEF TR!Swept, TR!Started, TR!Stopping, TR!Stopped, TriggersType
<1>4. CASE TR!RegisterOne
  <2>1. next \in Indexes /\ Files[next].id \in HookIds
    BY <1>4 DEF TR!RegisterOne, TR!Indexes, HookIds
  <2>2. /\ started' = Append(started, next) \/ started' = started
        /\ registry' = [registry EXCEPT ![Files[next].id] = next] \/ registry' = registry
        /\ stored' \in {stored, stored \cup {next}} /\ next' = next + 1
        /\ UNCHANGED <<phase, boot, runs, busy, due, posts, events>>
    BY <1>4 DEF TR!RegisterOne
  <2>3. started' \in Seq(Indexes)
    <3>1. started \in Seq(Indexes)
      BY DEF TriggersType
    <3>2. Append(started, next) \in Seq(Indexes)
      BY <2>1, <3>1, Appended
    <3>. QED
      BY Zenon, <3>1, <3>2, <2>2
  <2>4. registry' \in [HookIds -> Indexes \cup {0}]
    BY Zenon, <2>1, <2>2 DEF TriggersType
  <2>. QED
    BY <2>1, <2>2, <2>3, <2>4 DEF TriggersType
<1>5. CASE TR!FileCreated
  BY <1>5 DEF TR!FileCreated, TR!NextEvent, TR!Indexes, TriggersType
<1>6. CASE TR!Invoke
  <2>1. PICK e \in due : due' = due \ {e} /\ runs' = Append(runs, TR!NewRun(e.of, e.event, TRUE))
    BY Zenon, <1>6 DEF TR!Invoke
  <2>2. runs' \in Seq(RunType)
    <3>1. TR!NewRun(e.of, e.event, TRUE) \in RunType /\ runs \in Seq(RunType)
      BY Zenon, SignedFacts DEF TriggersType
    <3>. QED
      BY Zenon, <2>1, <3>1, Appended
  <2>. QED
    BY Zenon, <1>6, <2>1, <2>2 DEF TR!Invoke, TriggersType
<1>7. CASE TR!Verify
  <2>1. PICK p \in posts :
          /\ posts' = posts \ {p}
          /\ \/ runs' = runs
             \/ registry[p.id] # 0 /\ runs' = Append(runs, TR!NewRun(registry[p.id], p.event, p.signed))
    BY <1>7 DEF TR!Verify
  <2>2. p.id \in HookIds /\ p.event \in Nat /\ p.signed \in BOOLEAN
    BY DEF TriggersType
  <2>3. registry[p.id] # 0 => registry[p.id] \in Indexes
    BY <2>2 DEF TriggersType
  <2>4. runs' \in Seq(RunType)
    <3>1. registry[p.id] # 0 => TR!NewRun(registry[p.id], p.event, p.signed) \in RunType
      BY <2>2, <2>3, MadeFacts
    <3>2. runs \in Seq(RunType)
      BY DEF TriggersType
    <3>. QED
      BY <3>1, <3>2, <2>1, Appended
  <2>. QED
    BY <1>7, <2>1, <2>4 DEF TR!Verify, TriggersType
<1>8. CASE TR!StopOne
  <2> DEFINE d == Head(started)
  <2>1. d \in Indexes /\ Tail(started) \in Seq(Indexes)
    BY <1>8 DEF TR!StopOne, TriggersType
  <2>2. registry' \in [HookIds -> Indexes \cup {0}]
    BY Zenon, <1>8, <2>1 DEF TR!StopOne, TriggersType, HookIds
  <2>3. runs' \in Seq(RunType)
    <3>1. \A j \in DOMAIN runs : runs[j] \in RunType
      BY DEF TriggersType
    <3>2. runs' = runs \/ runs' = [runs EXCEPT ![busy[d]].state = "paused", ![busy[d]].by = "stop"]
      BY <1>8 DEF TR!StopOne
    <3>3. \/ runs' = runs
          \/ runs' = [runs EXCEPT ![busy[d]] = [runs[busy[d]] EXCEPT !.state = "paused", !.by = "stop"]]
      BY Zenon, <3>2
    <3>4. busy[d] \in DOMAIN runs => [runs[busy[d]] EXCEPT !.state = "paused", !.by = "stop"] \in RunType
      BY Zenon, <3>1, MarkFacts
    <3>5. runs \in Seq(RunType)
      BY DEF TriggersType
    <3>6. runs' \in [DOMAIN runs -> RunType]
      BY <3>1, <3>3, <3>4, <3>5
    <3>. QED
      BY <3>5, <3>6, Replaced
  <2>4. busy' \in [Indexes -> Nat]
    BY <1>8, <2>1 DEF TR!StopOne, TriggersType
  <2>. QED
    BY Zenon, <1>8, <2>1, <2>2, <2>3, <2>4 DEF TR!StopOne, TriggersType
<1>9. CASE TR!Exit
  <2>1. PICK paused \in SUBSET DOMAIN runs :
          runs' = [i \in DOMAIN runs |-> IF i \in paused
                                         THEN [runs[i] EXCEPT !.state = "paused", !.by = "stop"] ELSE runs[i]]
    BY Zenon, <1>9 DEF TR!Exit
  <2>2. runs' \in Seq(RunType)
    <3>1. \A j \in DOMAIN runs : runs[j] \in RunType
      BY DEF TriggersType
    <3>2. runs' \in [DOMAIN runs -> RunType]
      BY Zenon, <2>1, <3>1, MarkFacts DEF TriggersType
    <3>. QED
      BY <3>2, Replaced DEF TriggersType
  <2>3. registry' \in [HookIds -> Indexes \cup {0}] /\ busy' \in [Indexes -> Nat]
    BY Zenon, <1>9 DEF TR!Exit, TR!Indexes, TriggersType
  <2>4. /\ phase' = "down" /\ started' = <<>> /\ due' = {} /\ posts' = {}
        /\ UNCHANGED <<boot, next, stored, events>>
    BY Zenon, <1>9 DEF TR!Exit
  <2>. QED
    BY <2>2, <2>3, <2>4 DEF TriggersType
<1>10. ASSUME NEW d \in Indexes, TR!Fire(d)
       PROVE  TriggersType'
  <2>1. events' \in Nat
    BY <1>10 DEF TR!Fire, TR!NextEvent, TriggersType
  <2>2. runs' \in Seq(RunType)
    <3>1. TR!NewRun(d, events', TRUE) \in RunType /\ runs \in Seq(RunType)
      BY Zenon, <2>1, SignedFacts DEF TriggersType
    <3>2. runs' = Append(runs, TR!NewRun(d, events', TRUE))
      BY <1>10 DEF TR!Fire
    <3>. QED
      BY Zenon, <3>1, <3>2, Appended
  <2>3. busy' \in [Indexes -> Nat]
    BY <1>10, <2>2 DEF TR!Fire, TriggersType
  <2>. QED
    BY Zenon, <1>10, <2>1, <2>2, <2>3 DEF TR!Fire, TriggersType
<1>11. ASSUME NEW t \in HookIds, TR!Post(t)
       PROVE  TriggersType'
  <2>1. events' \in Nat /\ registry[t] \in Indexes
    BY <1>11 DEF TR!Post, TR!NextEvent, TriggersType
  <2>2. PICK s \in BOOLEAN :
          \/ posts' = posts \cup {[id |-> t, event |-> events', signed |-> s]} /\ runs' = runs
          \/ runs' = Append(runs, TR!NewRun(registry[t], events', s)) /\ posts' = posts
    BY <1>11 DEF TR!Post
  <2>3. runs' \in Seq(RunType)
    <3>1. TR!NewRun(registry[t], events', s) \in RunType /\ runs \in Seq(RunType)
      BY <2>1, MadeFacts DEF TriggersType
    <3>. QED
      BY <3>1, <2>2, Appended
  <2>4. posts' \subseteq [id: HookIds, event: Nat, signed: BOOLEAN]
    BY <2>1, <2>2 DEF TriggersType
  <2>. QED
    BY <1>11, <2>1, <2>3, <2>4 DEF TR!Post, TriggersType
<1>12. ASSUME NEW i \in DOMAIN runs, TR!Finish(i)
       PROVE  TriggersType'
  <2>1. runs' \in Seq(RunType)
    <3>1. \A j \in DOMAIN runs : runs[j] \in RunType
      BY DEF TriggersType
    <3>2. runs' \in [DOMAIN runs -> RunType]
      BY Zenon, <1>12, <3>1, MarkFacts DEF TR!Finish, TriggersType
    <3>. QED
      BY <3>2, Replaced DEF TriggersType
  <2>. QED
    BY <1>12, <2>1 DEF TR!Finish, TR!Indexes, TriggersType
<1>. QED
  BY Zenon, <1>1, <1>2, <1>3, <1>4, <1>5, <1>6, <1>7, <1>8, <1>9, <1>10, <1>11, <1>12
     DEF TR!Next, TR!Indexes, TriggersType

\* What a step leaves of a run that is there, and what it makes of a new one.
Kept(r, s) == /\ s.of = r.of /\ s.event = r.event /\ s.boot = r.boot /\ s.signed = r.signed
              /\ s.state = "running" => r.state = "running"
              /\ s.by \in {r.by, "stop"} \/ (r.state = "running" /\ s.state = "paused" /\ phase = "sweeping")
              /\ s.by = r.by \/ r.state = "running"
              /\ s.state = r.state \/ r.state = "running"
Made(r) == r.boot = boot /\ r.state = "running" /\ r.by = "engine"
RunsKept == /\ DOMAIN runs \subseteq DOMAIN runs'
            /\ \A i \in DOMAIN runs : Kept(runs[i], runs'[i])
            /\ \A i \in DOMAIN runs' \ DOMAIN runs : Made(runs'[i])

\* What stops a run keeps the rest of it.
LEMMA MarksKeep ==
  ASSUME NEW r \in RunType, r.state = "running"
  PROVE  /\ Kept(r, [r EXCEPT !.state = "paused", !.by = "stop"])
         /\ phase = "sweeping" => Kept(r, [r EXCEPT !.state = "paused", !.by = "sweep"])
         /\ Kept(r, [r EXCEPT !.state = "ended"])
BY DEF Kept, RunType

\* Every step keeps what runs are of, and their making.
LEMMA RunsAreKept ==
  ASSUME TriggersType, QuietBefore, StartedInv, BusyInv, TR!Next
  PROVE  RunsKept
<1>0. runs \in Seq(RunType) /\ \A i \in DOMAIN runs : runs[i] \in RunType
  BY DEF TriggersType
<1>1. CASE runs' = runs
  BY <1>1 DEF RunsKept, Kept
<1>2. ASSUME NEW d \in Indexes, NEW e \in Nat, NEW s \in BOOLEAN, runs' = Append(runs, TR!NewRun(d, e, s))
      PROVE  RunsKept
  <2>1. TR!NewRun(d, e, s) \in RunType /\ Made(TR!NewRun(d, e, s))
    BY MadeFacts DEF TR!NewRun, Made
  <2>2. /\ DOMAIN runs' = DOMAIN runs \cup {Len(runs) + 1} /\ Len(runs) + 1 \notin DOMAIN runs
        /\ \A i \in DOMAIN runs : runs'[i] = runs[i]
        /\ runs'[Len(runs) + 1] = TR!NewRun(d, e, s)
    BY <1>0, <1>2, <2>1, Appended
  <2>. QED
    BY <2>1, <2>2 DEF RunsKept, Kept
<1>3. CASE TR!Sweep
  <2>1. PICK i \in DOMAIN runs :
          /\ runs[i].state = "running" /\ phase = "sweeping"
          /\ runs' = [runs EXCEPT ![i].state = "paused", ![i].by = "sweep"] \/ runs' = runs
    BY Zenon, <1>3 DEF TR!Sweep, TR!IsRunning
  <2>2. CASE runs' = [runs EXCEPT ![i].state = "paused", ![i].by = "sweep"]
    <3>1. /\ DOMAIN runs' = DOMAIN runs /\ \A j \in DOMAIN runs : j # i => runs'[j] = runs[j]
          /\ runs'[i] = [runs[i] EXCEPT !.state = "paused", !.by = "sweep"]
      BY <2>2, <1>0
    <3>2. Kept(runs[i], runs'[i])
      BY Zenon, <1>0, <2>1, <3>1, MarksKeep
    <3>. QED
      BY Zenon, <3>1, <3>2 DEF RunsKept, Kept
  <2>. QED
    BY <2>1, <2>2, <1>1
<1>4. CASE TR!StopOne
  <2> DEFINE d == Head(started)
  <2>0. d \in Indexes
    BY <1>4 DEF TR!StopOne, TriggersType
  <2>1. CASE busy[d] # 0
    <3>1. busy[d] \in DOMAIN runs /\ runs[busy[d]].state = "running"
      BY <2>0, <2>1 DEF BusyInv
    <3>2. runs' = [runs EXCEPT ![busy[d]].state = "paused", ![busy[d]].by = "stop"]
      BY <1>4, <2>1 DEF TR!StopOne
    <3>3. /\ DOMAIN runs' = DOMAIN runs /\ \A j \in DOMAIN runs : j # busy[d] => runs'[j] = runs[j]
          /\ runs'[busy[d]] = [runs[busy[d]] EXCEPT !.state = "paused", !.by = "stop"]
      BY <1>0, <3>1, <3>2
    <3>4. Kept(runs[busy[d]], runs'[busy[d]])
      BY Zenon, <1>0, <3>1, <3>3, MarksKeep
    <3>. QED
      BY Zenon, <3>3, <3>4 DEF RunsKept, Kept
  <2>. QED
    BY <1>1, <1>4, <2>1 DEF TR!StopOne
<1>5. CASE TR!Exit
  <2>1. PICK paused \in SUBSET {i \in DOMAIN runs : runs[i].state = "running"} :
          runs' = [i \in DOMAIN runs |-> IF i \in paused
                                         THEN [runs[i] EXCEPT !.state = "paused", !.by = "stop"] ELSE runs[i]]
    BY Zenon, <1>5 DEF TR!Exit, TR!IsRunning
  <2>2. ASSUME NEW i \in DOMAIN runs
        PROVE  Kept(runs[i], runs'[i])
    <3>1. CASE i \in paused
      <4>1. runs'[i] = [runs[i] EXCEPT !.state = "paused", !.by = "stop"] /\ runs[i].state = "running"
        BY Zenon, <2>1, <3>1
      <4>. QED
        BY Zenon, <1>0, <4>1, MarksKeep
    <3>2. CASE i \notin paused
      BY Zenon, <2>1, <3>2 DEF Kept
    <3>. QED
      BY <3>1, <3>2
  <2>. QED
    BY Zenon, <2>1, <2>2 DEF RunsKept
<1>6. ASSUME NEW i \in DOMAIN runs, TR!Finish(i)
      PROVE  RunsKept
  <2>1. /\ DOMAIN runs' = DOMAIN runs /\ \A j \in DOMAIN runs : j # i => runs'[j] = runs[j]
        /\ runs'[i] = [runs[i] EXCEPT !.state = "ended"] /\ runs[i].state = "running"
    BY <1>0, <1>6 DEF TR!Finish, TR!IsRunning
  <2>2. Kept(runs[i], runs'[i])
    BY Zenon, <1>0, <2>1, MarksKeep
  <2>. QED
    BY Zenon, <2>1, <2>2 DEF RunsKept, Kept
<1>7. CASE TR!Invoke
  BY Zenon, <1>2, <1>7 DEF TR!Invoke, TriggersType
<1>8. CASE TR!Verify
  <2>1. PICK p \in posts :
          runs' = runs \/ (registry[p.id] # 0 /\ runs' = Append(runs, TR!NewRun(registry[p.id], p.event, p.signed)))
    BY <1>8 DEF TR!Verify
  <2>2. p.id \in HookIds /\ p.event \in Nat /\ p.signed \in BOOLEAN
    BY DEF TriggersType
  <2>3. registry[p.id] # 0 => registry[p.id] \in Indexes
    BY <2>2 DEF TriggersType
  <2>. QED
    BY <1>1, <1>2, <2>1, <2>2, <2>3
<1>9. ASSUME NEW d \in Indexes, TR!Fire(d)
      PROVE  RunsKept
  <2>1. events' \in Nat /\ runs' = Append(runs, TR!NewRun(d, events', TRUE))
    BY <1>9 DEF TR!Fire, TR!NextEvent, TriggersType
  <2>. QED
    BY Zenon, <1>2, <2>1
<1>10. ASSUME NEW t \in HookIds, TR!Post(t)
       PROVE  RunsKept
  <2>1. events' \in Nat /\ registry[t] \in Indexes
    BY <1>10 DEF TR!Post, TR!NextEvent, TriggersType
  <2>2. \E s \in BOOLEAN : runs' = runs \/ runs' = Append(runs, TR!NewRun(registry[t], events', s))
    BY <1>10 DEF TR!Post
  <2>. QED
    BY <1>1, <1>2, <2>1, <2>2
<1>11. CASE TR!Boot \/ TR!Swept \/ TR!RegisterOne \/ TR!Started \/ TR!FileCreated \/ TR!Stopping \/ TR!Stopped
  BY <1>1, <1>11 DEF TR!Boot, TR!Swept, TR!RegisterOne, TR!Started, TR!FileCreated, TR!Stopping, TR!Stopped
<1>. QED
  BY <1>3, <1>4, <1>5, <1>6, <1>7, <1>8, <1>9, <1>10, <1>11 DEF TR!Next, TR!Indexes, Indexes, TriggersType

\* How a step moves the process on.
LEMMA PhaseFacts ==
  ASSUME TriggersType, TR!Next
  PROVE  /\ boot' = boot \/ (phase = "down" /\ phase' = "sweeping" /\ boot' = boot + 1 /\ runs' = runs)
         /\ phase' = "down" => phase = "down" \/ TR!Exit
         /\ phase' = "sweeping" => phase = "sweeping" \/ (phase = "down" /\ boot' = boot + 1)
         /\ phase' \in {"starting", "up", "stopping", "stopped"} =>
              \/ TR!Swept
              \/ /\ phase \in {"starting", "up", "stopping", "stopped"}
                 /\ boot' = boot /\ unswept' = unswept
BY Zenon DEF TR!Next, TR!Boot, TR!Sweep, TR!Swept, TR!RegisterOne, TR!Started, TR!FileCreated, TR!Invoke, TR!Verify,
       TR!Stopping, TR!StopOne, TR!Stopped, TR!Exit, TR!Fire, TR!Post, TR!Finish, TR!Serving, TriggersType

\* While nothing is started, and while no process is there, no run is made.
LEMMA QuietFacts ==
  ASSUME TriggersType, QuietBefore, TR!Next, phase \in {"down", "sweeping"}
  PROVE  /\ ~TR!Exit => UNCHANGED <<started, due, posts, registry, busy>>
         /\ DOMAIN runs' = DOMAIN runs
<1>0. runs \in Seq(RunType)
  BY DEF TriggersType
<1>1. CASE TR!Boot \/ TR!Swept
  BY <1>1 DEF TR!Boot, TR!Swept
<1>2. CASE TR!Sweep
  BY <1>0, <1>2 DEF TR!Sweep
<1>3. CASE TR!FileCreated
  <2>1. \A d \in Indexes : ~TR!IsStarted(d)
    BY DEF QuietBefore, TR!IsStarted
  <2>2. due' = due
    BY <1>3, <2>1 DEF TR!FileCreated, TR!Indexes, Indexes
  <2>. QED
    BY <1>3, <2>2 DEF TR!FileCreated
<1>4. CASE TR!Exit
  BY Zenon, <1>0, <1>4 DEF TR!Exit
<1>5. CASE TR!RegisterOne \/ TR!Started \/ TR!Stopping \/ TR!StopOne \/ TR!Stopped
  BY <1>5 DEF TR!RegisterOne, TR!Started, TR!Stopping, TR!StopOne, TR!Stopped
<1>8. ASSUME NEW d \in TR!Indexes, TR!Fire(d)
      PROVE  FALSE
  BY <1>8 DEF TR!Fire, TR!IsStarted, QuietBefore
<1>9. ASSUME NEW t \in DOMAIN registry, TR!Post(t)
      PROVE  FALSE
  BY <1>9 DEF TR!Post, TR!Serving
<1>6. CASE TR!Invoke \/ TR!Verify
  BY Zenon, <1>6 DEF TR!Invoke, TR!Verify, QuietBefore
<1>7. ASSUME NEW i \in DOMAIN runs, TR!Finish(i)
      PROVE  FALSE
  <2>1. runs[i].boot \in Nat
    BY RunFacts
  <2>. QED
    BY <1>7, <2>1 DEF TR!Finish, TR!Alive, QuietBefore, TriggersType
<1>. QED
  BY <1>1, <1>2, <1>3, <1>4, <1>5, <1>6, <1>7, <1>8, <1>9 DEF TR!Next

\* Every step keeps QuietBefore.
LEMMA QuietStep ==
  ASSUME TriggersType, QuietBefore, RunsKept, TR!Next
  PROVE  QuietBefore'
<1>1. ASSUME phase' \in {"down", "sweeping"}
      PROVE  /\ started' = <<>> /\ due' = {} /\ posts' = {}
             /\ \A t \in HookIds : registry'[t] = 0
             /\ \A d \in Indexes : busy'[d] = 0
  <2>1. CASE TR!Exit
    BY Zenon, <2>1 DEF TR!Exit, TR!Indexes, Indexes, TriggersType
  <2>2. CASE ~TR!Exit
    <3>1. phase \in {"down", "sweeping"}
      BY <1>1, <2>2, PhaseFacts
    <3>. QED
      BY <2>2, <3>1, QuietFacts DEF QuietBefore
  <2>. QED
    BY <2>1, <2>2
<1>2. ASSUME NEW i \in DOMAIN runs'
      PROVE  runs'[i].boot <= boot' /\ (phase' = "sweeping" => runs'[i].boot < boot')
  <2>0. boot \in Nat /\ (boot' = boot \/ boot' = boot + 1)
    BY PhaseFacts DEF TriggersType
  <2>1. CASE i \in DOMAIN runs
    <3>1. runs'[i].boot = runs[i].boot /\ runs[i].boot \in Nat /\ runs[i].boot <= boot
      BY <2>1, RunFacts DEF RunsKept, Kept, QuietBefore
    <3>2. phase' = "sweeping" => (phase = "sweeping" /\ runs[i].boot < boot) \/ boot' = boot + 1
      BY <2>1, PhaseFacts DEF QuietBefore
    <3>. QED
      BY <2>0, <3>1, <3>2
  <2>2. CASE i \notin DOMAIN runs
    <3>1. runs'[i].boot = boot
      BY <2>2, <1>2 DEF RunsKept, Made
    <3>2. phase' # "sweeping"
      BY <2>2, <1>2, PhaseFacts, QuietFacts
    <3>. QED
      BY <2>0, <3>1, <3>2
  <2>. QED
    BY <2>1, <2>2
<1>. QED
  BY <1>1, <1>2 DEF QuietBefore

\* Every step keeps DrivenInv.
LEMMA DrivenStep ==
  ASSUME TriggersType, QuietBefore, DrivenInv, RunsKept, TR!Next
  PROVE  DrivenInv'
<1>1. ASSUME NEW i \in DOMAIN runs', phase' \in {"starting", "up", "stopping", "stopped"}, runs'[i].state = "running"
      PROVE  runs'[i].boot = boot' \/ i \in unswept'
  <2>1. CASE TR!Swept
    BY <1>1, <2>1 DEF TR!Swept, TR!IsRunning
  <2>2. CASE ~TR!Swept
    <3>1. phase \in {"starting", "up", "stopping", "stopped"} /\ boot' = boot /\ unswept' = unswept
      BY <1>1, <2>2, PhaseFacts
    <3>2. CASE i \in DOMAIN runs
      BY <1>1, <3>1, <3>2 DEF RunsKept, Kept, DrivenInv
    <3>3. CASE i \notin DOMAIN runs
      BY <1>1, <3>1, <3>3 DEF RunsKept, Made
    <3>. QED
      BY <3>2, <3>3
  <2>. QED
    BY <2>1, <2>2
<1>2. ASSUME NEW i \in DOMAIN runs', runs'[i].by = "sweep"
      PROVE  runs'[i].state = "paused" /\ runs'[i].boot < boot'
  <2>0. boot \in Nat /\ (boot' = boot \/ boot' = boot + 1)
    BY PhaseFacts DEF TriggersType
  <2>1. i \in DOMAIN runs
    BY <1>2 DEF RunsKept, Made
  <2>2. runs'[i].boot = runs[i].boot /\ runs[i].boot \in Nat
    BY <2>1, RunFacts DEF RunsKept, Kept
  <2>3. CASE runs[i].by = "sweep"
    <3>1. runs[i].state = "paused" /\ runs[i].boot < boot
      BY <2>1, <2>3 DEF DrivenInv
    <3>2. runs'[i].state = "paused"
      BY <2>1, <3>1 DEF RunsKept, Kept
    <3>. QED
      BY <2>0, <2>2, <3>1, <3>2
  <2>4. CASE runs[i].by # "sweep"
    <3>1. runs'[i].state = "paused" /\ phase = "sweeping"
      BY <1>2, <2>1, <2>4 DEF RunsKept, Kept
    <3>2. runs[i].boot < boot
      BY <2>1, <3>1 DEF QuietBefore
    <3>. QED
      BY <2>0, <2>2, <3>1, <3>2
  <2>. QED
    BY <2>3, <2>4
<1>. QED
  BY <1>1, <1>2 DEF DrivenInv

\* Every step keeps StartedInv.
LEMMA StartedStep ==
  ASSUME TriggersType, StartedInv, TR!Next
  PROVE  StartedInv'
<1> USE DEF Indexes
<1>0. started \in Seq(Indexes) /\ stored \subseteq Indexes /\ \A t \in HookIds : registry[t] # 0 => registry[t] \in Indexes
  BY DEF TriggersType
<1>1. CASE TR!RegisterOne
  <2> DEFINE starts == /\ Files[next].parses /\ TR!Makes(next)
                       /\ TR!Kind(next) = "webhook" => registry[Files[next].id] = 0
  <2>1. /\ next \in Indexes /\ UNCHANGED due
        /\ stored' = IF Files[next].parses THEN stored \cup {next} ELSE stored
        /\ started' = IF starts THEN Append(started, next) ELSE started
        /\ registry' = IF starts /\ TR!Kind(next) = "webhook"
                       THEN [registry EXCEPT ![Files[next].id] = next] ELSE registry
    BY <1>1 DEF TR!RegisterOne, TR!Indexes
  <2>2. starts => Files[next].parses
    OBVIOUS
  <2> HIDE DEF starts
  <2>3. \A k \in DOMAIN started' : started'[k] \in stored'
    <3>1. CASE starts
      <4>1. /\ DOMAIN Append(started, next) = DOMAIN started \cup {Len(started) + 1}
            /\ \A k \in DOMAIN started : Append(started, next)[k] = started[k]
            /\ Append(started, next)[Len(started) + 1] = next
        BY <1>0, <2>1, Appended
      <4>. QED
        BY <2>1, <2>2, <3>1, <4>1 DEF StartedInv
    <3>2. CASE ~starts
      BY <2>1, <3>2 DEF StartedInv
    <3>. QED
      BY <3>1, <3>2
  <2>4. \A t \in HookIds : registry'[t] # 0 => registry'[t] \in stored' /\ TR!Kind(registry'[t]) = "webhook"
    <3>1. CASE starts /\ TR!Kind(next) = "webhook"
      <4>1. \A t \in HookIds : registry'[t] = next \/ registry'[t] = registry[t]
        BY <2>1, <3>1 DEF TriggersType
      <4>. QED
        BY <2>1, <2>2, <3>1, <4>1 DEF StartedInv
    <3>2. CASE ~(starts /\ TR!Kind(next) = "webhook")
      BY <2>1, <3>2 DEF StartedInv
    <3>. QED
      BY <3>1, <3>2
  <2>5. \A e \in due' : e.of \in stored' /\ TR!Kind(e.of) = "file_watch"
    BY <2>1 DEF StartedInv
  <2>. QED
    BY <2>3, <2>4, <2>5 DEF StartedInv, TR!Kind
<1>2. CASE TR!FileCreated
  <2>1. ASSUME NEW e \in due'
        PROVE  e.of \in stored /\ TR!Kind(e.of) = "file_watch"
    <3>1. e \in due \/ (TR!Kind(e.of) = "file_watch" /\ TR!IsStarted(e.of))
      BY <1>2, <2>1 DEF TR!FileCreated
    <3>. QED
      BY <3>1 DEF StartedInv, TR!IsStarted
  <2>. QED
    BY <1>2, <2>1 DEF TR!FileCreated, StartedInv, TR!Kind
<1>3. CASE TR!StopOne
  <2>1. \A k \in DOMAIN Tail(started) : Tail(started)[k] \in stored
    <3>1. \A k \in DOMAIN Tail(started) : k + 1 \in DOMAIN started /\ Tail(started)[k] = started[k + 1]
      BY <1>0, <1>3 DEF TR!StopOne
    <3>. QED
      BY <3>1 DEF StartedInv
  <2>2. \A t \in HookIds : registry'[t] # 0 => registry'[t] = registry[t]
    BY <1>3 DEF TR!StopOne, TriggersType
  <2>3. started' = Tail(started) /\ UNCHANGED <<due, stored>>
    BY <1>3 DEF TR!StopOne
  <2>. QED
    BY <2>1, <2>2, <2>3 DEF StartedInv, TR!Kind
<1>4. CASE TR!Exit
  <2>1. started' = <<>> /\ due' = {} /\ stored' = stored /\ \A t \in HookIds : registry'[t] = 0
    BY Zenon, <1>4 DEF TR!Exit, TriggersType
  <2>. QED
    BY <2>1 DEF StartedInv
<1>5. CASE \/ TR!Boot \/ TR!Sweep \/ TR!Swept \/ TR!Started \/ TR!Verify \/ TR!Stopping \/ TR!Stopped
           \/ \E d \in TR!Indexes : TR!Fire(d)
           \/ \E t \in DOMAIN registry : TR!Post(t)
           \/ \E i \in DOMAIN runs : TR!Finish(i)
  <2>1. UNCHANGED <<started, stored, registry, due>>
    BY Zenon, <1>5 DEF TR!Boot, TR!Sweep, TR!Swept, TR!Started, TR!Verify, TR!Stopping, TR!Stopped, TR!Fire, TR!Post, TR!Finish
  <2>. QED
    BY <2>1 DEF StartedInv, TR!Kind
<1>6. CASE TR!Invoke
  <2>1. due' \subseteq due /\ UNCHANGED <<started, stored, registry>>
    BY <1>6 DEF TR!Invoke
  <2>. QED
    BY <2>1 DEF StartedInv, TR!Kind
<1>. QED
  BY <1>1, <1>2, <1>3, <1>4, <1>5, <1>6 DEF TR!Next

\* What making a run makes of the rows.
LEMMA MadeRow ==
  ASSUME TriggersType, NEW r \in RunType, runs' = Append(runs, r)
  PROVE  /\ DOMAIN runs' = DOMAIN runs \cup {Len(runs) + 1} /\ Len(runs) + 1 \notin DOMAIN runs
         /\ \A i \in DOMAIN runs : runs'[i] = runs[i]
         /\ runs'[Len(runs) + 1] = r
         /\ Len(runs') = Len(runs) + 1 /\ Len(runs) \in Nat
BY Appended DEF TriggersType

\* The three steps that make a run of something dispatched, received or posted.
LEMMA InvokeFacts ==
  ASSUME TriggersType, TR!Invoke
  PROVE  \E e \in due : /\ due' = due \ {e} /\ e.of \in Indexes /\ e.event \in Nat
                        /\ runs' = Append(runs, TR!NewRun(e.of, e.event, TRUE))
                        /\ UNCHANGED <<phase, boot, next, stored, registry, busy, posts, events>>
BY Zenon DEF TR!Invoke, TriggersType

\* What the handler does with a post it has read: drop it, or dispatch its signed run.
LEMMA VerifyFacts ==
  ASSUME TriggersType, TR!Verify
  PROVE  /\ UNCHANGED <<phase, boot, next, stored, registry, busy, due, events>>
         /\ \E p \in posts :
              /\ posts' = posts \ {p}
              /\ \/ runs' = runs
                 \/ /\ p.id \in HookIds /\ p.event \in Nat /\ p.signed
                    /\ registry[p.id] \in Indexes /\ registry[p.id] # 0
                    /\ runs' = Append(runs, TR!NewRun(registry[p.id], p.event, TRUE))
<1>1. UNCHANGED <<phase, boot, next, stored, registry, busy, due, events>>
  BY DEF TR!Verify
<1>2. PICK p \in posts :
        /\ posts' = posts \ {p}
        /\ \/ runs' = runs
           \/ /\ p.signed /\ registry[p.id] # 0
              /\ runs' = Append(runs, TR!NewRun(registry[p.id], p.event, p.signed))
  BY DEF TR!Verify, TR!Accepted
<1>3. p.id \in HookIds /\ p.event \in Nat /\ p.signed \in BOOLEAN
  BY DEF TriggersType
<1>4. registry[p.id] # 0 => registry[p.id] \in Indexes
  BY <1>3 DEF TriggersType
<1>5. p.signed => p.signed = TRUE
  BY <1>3
<1>. QED
  BY Zenon, <1>1, <1>2, <1>3, <1>4, <1>5

\* What the arrival of a post leaves.
LEMMA PostFacts ==
  ASSUME TriggersType, NEW t \in HookIds, TR!Post(t)
  PROVE  /\ phase = "up" /\ UNCHANGED <<phase, boot, next, stored, registry, busy, due>>
         /\ registry[t] \in Indexes /\ registry[t] # 0 /\ events' = events + 1 /\ events' \in Nat
         /\ \E s \in BOOLEAN :
              \/ posts' = posts \cup {[id |-> t, event |-> events', signed |-> s]} /\ runs' = runs
              \/ /\ ~Files[registry[t]].secret /\ posts' = posts
                 /\ runs' = Append(runs, TR!NewRun(registry[t], events', s))
BY DEF TR!Post, TR!Serving, TR!NextEvent, TriggersType

\* Every step keeps BusyInv.
LEMMA BusyStep ==
  ASSUME TriggersType, QuietBefore, StartedInv, BusyInv, RunsKept, TriggersAssumption, TR!Next
  PROVE  BusyInv'
<1>0. 0 \notin DOMAIN runs /\ runs \in Seq(RunType) /\ busy \in [Indexes -> Nat]
  BY DEF TriggersType
<1>1. ASSUME UNCHANGED <<busy, boot>>, phase' # "down" => phase # "down",
             \A i \in DOMAIN runs : i \in DOMAIN runs' /\ runs'[i] = runs[i],
             \A i \in DOMAIN runs' \ DOMAIN runs : TR!Kind(runs'[i].of) # "schedule"
      PROVE  BusyInv'
  BY <1>1 DEF BusyInv, TR!Kind
<1>2. CASE TR!Swept \/ TR!RegisterOne \/ TR!Started \/ TR!FileCreated \/ TR!Stopping \/ TR!Stopped
  <2>1. UNCHANGED <<busy, boot, runs>> /\ (phase' # "down" => phase # "down")
    BY <1>2 DEF TR!Swept, TR!RegisterOne, TR!Started, TR!FileCreated, TR!Stopping, TR!Stopped
  <2>. QED
    BY <1>1, <2>1
<1>3. CASE TR!Invoke
  <2>1. PICK e \in due : /\ e.of \in Indexes /\ e.event \in Nat
                         /\ runs' = Append(runs, TR!NewRun(e.of, e.event, TRUE))
                         /\ UNCHANGED <<phase, boot, busy>>
    BY Zenon, <1>3, InvokeFacts
  <2>2. TR!Kind(e.of) # "schedule"
    BY DEF StartedInv
  <2>3. /\ DOMAIN runs' = DOMAIN runs \cup {Len(runs) + 1} /\ \A i \in DOMAIN runs : runs'[i] = runs[i]
        /\ runs'[Len(runs) + 1].of = e.of
    <3>1. TR!NewRun(e.of, e.event, TRUE) \in RunType /\ TR!NewRun(e.of, e.event, TRUE).of = e.of
      BY Zenon, <2>1, SignedFacts
    <3>. QED
      BY Zenon, <2>1, <3>1, MadeRow
  <2>. QED
    BY Zenon, <1>1, <2>1, <2>2, <2>3
<1>4. CASE TR!Verify
  <2>1. UNCHANGED <<phase, boot, busy>>
    BY <1>4, VerifyFacts
  <2>2. CASE runs' = runs
    BY <1>1, <2>1, <2>2
  <2>3. CASE runs' # runs
    <3>1. PICK p \in posts : /\ p.id \in HookIds /\ p.event \in Nat
                             /\ registry[p.id] \in Indexes /\ registry[p.id] # 0
                             /\ runs' = Append(runs, TR!NewRun(registry[p.id], p.event, TRUE))
      BY Zenon, <1>4, <2>3, VerifyFacts
    <3>2. TR!Kind(registry[p.id]) # "schedule"
      BY <3>1 DEF StartedInv
    <3>3. /\ DOMAIN runs' = DOMAIN runs \cup {Len(runs) + 1} /\ \A i \in DOMAIN runs : runs'[i] = runs[i]
          /\ runs'[Len(runs) + 1].of = registry[p.id]
      <4>1. /\ TR!NewRun(registry[p.id], p.event, TRUE) \in RunType
            /\ TR!NewRun(registry[p.id], p.event, TRUE).of = registry[p.id]
        BY Zenon, <3>1, SignedFacts
      <4>. QED
        BY Zenon, <3>1, <4>1, MadeRow
    <3>. QED
      BY <1>1, <2>1, <3>2, <3>3
  <2>. QED
    BY <2>2, <2>3
<1>5. ASSUME NEW t \in HookIds, TR!Post(t)
      PROVE  BusyInv'
  <2>1. /\ UNCHANGED <<phase, boot, busy>> /\ registry[t] \in Indexes /\ registry[t] # 0 /\ events' \in Nat
        /\ \E s \in BOOLEAN : runs' = runs \/ runs' = Append(runs, TR!NewRun(registry[t], events', s))
    BY <1>5, PostFacts
  <2>2. TR!Kind(registry[t]) # "schedule"
    BY <2>1 DEF StartedInv
  <2>3. CASE runs' = runs
    BY <1>1, <2>1, <2>3
  <2>4. CASE \E s \in BOOLEAN : runs' = Append(runs, TR!NewRun(registry[t], events', s))
    <3>1. PICK s \in BOOLEAN : runs' = Append(runs, TR!NewRun(registry[t], events', s))
      BY <2>4
    <3>2. TR!NewRun(registry[t], events', s) \in RunType /\ TR!NewRun(registry[t], events', s).of = registry[t]
      BY <2>1, MadeFacts
    <3>3. /\ DOMAIN runs' = DOMAIN runs \cup {Len(runs) + 1} /\ \A i \in DOMAIN runs : runs'[i] = runs[i]
          /\ runs'[Len(runs) + 1].of = registry[t]
      BY <3>1, <3>2, MadeRow
    <3>. QED
      BY <1>1, <2>1, <2>2, <3>3
  <2>. QED
    BY <2>1, <2>3, <2>4
<1>6. CASE TR!Boot
  <2>1. phase = "down" /\ UNCHANGED <<runs, busy>> /\ boot' = boot + 1 /\ boot \in Nat
    BY <1>6 DEF TR!Boot, TriggersType
  <2>2. \A i \in DOMAIN runs : runs[i].boot # boot'
    BY <2>1, RunFacts DEF QuietBefore
  <2>. QED
    BY <2>1, <2>2 DEF BusyInv, QuietBefore
<1>7. CASE TR!Sweep
  <2>1. phase = "sweeping" /\ UNCHANGED <<boot, busy>> /\ DOMAIN runs' = DOMAIN runs
    BY <1>7, QuietFacts DEF TR!Sweep
  <2>2. \A i \in DOMAIN runs' : runs'[i].boot # boot'
    BY <2>1, RunFacts DEF RunsKept, Kept, QuietBefore
  <2>3. \A d \in Indexes : busy'[d] = 0
    BY <2>1 DEF QuietBefore
  <2>. QED
    BY <2>2, <2>3 DEF BusyInv
<1>8. CASE TR!Exit
  BY Zenon, <1>8 DEF TR!Exit, BusyInv, TR!Indexes, Indexes
<1>9. ASSUME NEW d \in Indexes, TR!Fire(d)
      PROVE  BusyInv'
  <2> DEFINE n == Len(runs) + 1
  <2>1. /\ busy[d] = 0 /\ events' \in Nat /\ runs' = Append(runs, TR!NewRun(d, events', TRUE))
        /\ busy' = [busy EXCEPT ![d] = Len(runs')] /\ UNCHANGED <<phase, boot>> /\ phase # "down"
    BY <1>9 DEF TR!Fire, TR!NextEvent, TR!Alive, TriggersType
  <2>2. /\ DOMAIN runs' = DOMAIN runs \cup {n} /\ n \notin DOMAIN runs /\ n # 0 /\ Len(runs') = n
        /\ \A i \in DOMAIN runs : runs'[i] = runs[i]
        /\ runs'[n].of = d /\ runs'[n].boot = boot /\ runs'[n].state = "running"
    <3>1. /\ TR!NewRun(d, events', TRUE) \in RunType /\ TR!NewRun(d, events', TRUE).of = d
          /\ TR!NewRun(d, events', TRUE).boot = boot /\ TR!NewRun(d, events', TRUE).state = "running"
      BY Zenon, <2>1, SignedFacts
    <3>2. /\ DOMAIN runs' = DOMAIN runs \cup {n} /\ n \notin DOMAIN runs /\ Len(runs') = n
          /\ \A i \in DOMAIN runs : runs'[i] = runs[i]
          /\ runs'[n] = TR!NewRun(d, events', TRUE)
      BY Zenon, <2>1, <3>1, MadeRow
    <3>3. n # 0
      BY <3>1, <2>1, MadeRow
    <3>. QED
      BY Zenon, <3>1, <3>2, <3>3
  <2>3. busy'[d] = n /\ \A e \in Indexes : e # d => busy'[e] = busy[e]
    BY <1>0, <2>1, <2>2
  <2> HIDE DEF n
  <2>4. ASSUME NEW e \in Indexes, busy'[e] # 0
        PROVE  /\ busy'[e] \in DOMAIN runs' /\ runs'[busy'[e]].of = e
               /\ runs'[busy'[e]].state = "running" /\ runs'[busy'[e]].boot = boot'
    <3>1. CASE e = d
      BY Zenon, <2>1, <2>2, <2>3, <3>1
    <3>2. CASE e # d
      <4>1. /\ busy[e] \in DOMAIN runs /\ runs[busy[e]].of = e
            /\ runs[busy[e]].state = "running" /\ runs[busy[e]].boot = boot /\ busy'[e] = busy[e]
        BY <2>3, <2>4, <3>2 DEF BusyInv
      <4>. QED
        BY Zenon, <2>1, <2>2, <4>1
    <3>. QED
      BY <3>1, <3>2
  <2>5. ASSUME NEW i \in DOMAIN runs', TR!Kind(runs'[i].of) = "schedule", runs'[i].state = "running",
               runs'[i].boot = boot'
        PROVE  busy'[runs'[i].of] = i
    <3>1. CASE i = n
      BY <2>2, <2>3, <3>1
    <3>2. CASE i \in DOMAIN runs
      <4>1. busy[runs[i].of] = i /\ runs'[i].of = runs[i].of
        BY Zenon, <2>1, <2>2, <2>5, <3>2 DEF BusyInv
      <4>2. runs[i].of # d
        BY <1>0, <2>1, <3>2, <4>1
      <4>. QED
        BY <2>3, <3>2, <4>1, <4>2, RunFacts
    <3>. QED
      BY <2>2, <3>1, <3>2
  <2>. QED
    BY <2>4, <2>5 DEF BusyInv, TR!Kind
<1>10. ASSUME NEW i \in DOMAIN runs, TR!Finish(i)
       PROVE  BusyInv'
  <2>1. /\ DOMAIN runs' = DOMAIN runs /\ \A j \in DOMAIN runs : j # i => runs'[j] = runs[j]
        /\ runs'[i].state = "ended" /\ UNCHANGED <<phase, boot>>
        /\ \A d \in Indexes : busy'[d] = IF busy[d] = i THEN 0 ELSE busy[d]
    <3>1. runs[i] \in RunType /\ runs' = [runs EXCEPT ![i].state = "ended"]
      BY <1>10, RunFacts DEF TR!Finish
    <3>2. [runs[i] EXCEPT !.state = "ended"].state = "ended"
      BY Zenon, <3>1, MarkFacts
    <3>. QED
      BY Zenon, <1>0, <1>10, <3>1, <3>2 DEF TR!Finish, TR!Indexes, Indexes
  <2>2. \A j \in DOMAIN runs : runs'[j].of = runs[j].of /\ runs'[j].boot = runs[j].boot
    BY DEF RunsKept, Kept
  <2>3. ASSUME NEW e \in Indexes, busy'[e] # 0
        PROVE  /\ busy'[e] \in DOMAIN runs' /\ runs'[busy'[e]].of = e
               /\ runs'[busy'[e]].state = "running" /\ runs'[busy'[e]].boot = boot'
    <3>1. busy'[e] = busy[e] /\ busy[e] # i /\ busy[e] # 0
      BY <2>1, <2>3
    <3>2. busy[e] \in DOMAIN runs /\ runs[busy[e]].of = e /\ runs[busy[e]].state = "running" /\ runs[busy[e]].boot = boot
      BY <3>1 DEF BusyInv
    <3>. QED
      BY <2>1, <3>1, <3>2
  <2>4. ASSUME NEW j \in DOMAIN runs', TR!Kind(runs'[j].of) = "schedule", runs'[j].state = "running",
               runs'[j].boot = boot', phase' # "down"
        PROVE  busy'[runs'[j].of] = j
    <3>1. j # i /\ runs'[j] = runs[j] /\ j \in DOMAIN runs /\ phase # "down"
      BY <2>1, <2>4
    <3>2. busy[runs[j].of] = j
      BY <2>1, <2>4, <3>1 DEF BusyInv
    <3>. QED
      BY <2>1, <3>1, <3>2, RunFacts
  <2>. QED
    BY <2>3, <2>4 DEF BusyInv, TR!Kind
<1>11. CASE TR!StopOne
  <2> DEFINE d == Head(started)
  <2>1. /\ d \in Indexes /\ UNCHANGED <<phase, boot>> /\ phase # "down"
        /\ busy'[d] = 0 /\ \A e \in Indexes : e # d => busy'[e] = busy[e]
    BY <1>0, <1>11 DEF TR!StopOne, TriggersType
  <2> HIDE DEF d
  <2>2. \A j \in DOMAIN runs : busy[d] # j => runs'[j] = runs[j]
    BY <1>0, <1>11 DEF TR!StopOne, d
  <2>3. DOMAIN runs' = DOMAIN runs
    BY <1>0, <1>11 DEF TR!StopOne
  <2>4. busy[d] # 0 => runs'[busy[d]].state = "paused"
    <3>1. ASSUME busy[d] # 0
          PROVE  runs'[busy[d]].state = "paused"
      <4>1. busy[d] \in DOMAIN runs
        BY <2>1, <3>1 DEF BusyInv
      <4>2. runs'[busy[d]] = [runs[busy[d]] EXCEPT !.state = "paused", !.by = "stop"]
        BY <1>0, <1>11, <3>1, <4>1 DEF TR!StopOne, d
      <4>3. runs[busy[d]] \in RunType
        BY <4>1, RunFacts
      <4>4. [runs[busy[d]] EXCEPT !.state = "paused", !.by = "stop"].state = "paused"
        BY Zenon, <4>3, MarkFacts
      <4>. QED
        BY <4>2, <4>4
    <3>. QED
      BY <3>1
  <2>5. \A j \in DOMAIN runs : runs'[j].of = runs[j].of /\ runs'[j].boot = runs[j].boot
    BY DEF RunsKept, Kept
  <2>6. ASSUME NEW e \in Indexes, busy'[e] # 0
        PROVE  /\ busy'[e] \in DOMAIN runs' /\ runs'[busy'[e]].of = e
               /\ runs'[busy'[e]].state = "running" /\ runs'[busy'[e]].boot = boot'
    <3>1. e # d /\ busy'[e] = busy[e]
      BY <2>1, <2>6
    <3>2. busy[e] \in DOMAIN runs /\ runs[busy[e]].of = e /\ runs[busy[e]].state = "running" /\ runs[busy[e]].boot = boot
      BY <2>6, <3>1 DEF BusyInv
    <3>3. busy[d] # busy[e]
      BY <1>0, <2>1, <3>1, <3>2 DEF BusyInv
    <3>. QED
      BY <2>1, <2>2, <2>3, <3>1, <3>2, <3>3
  <2>7. ASSUME NEW j \in DOMAIN runs', TR!Kind(runs'[j].of) = "schedule", runs'[j].state = "running",
               runs'[j].boot = boot'
        PROVE  busy'[runs'[j].of] = j
    <3>1. busy[d] # j
      BY <1>0, <2>3, <2>4, <2>7
    <3>2. busy[runs[j].of] = j
      BY <2>1, <2>2, <2>3, <2>7, <3>1 DEF BusyInv
    <3>. QED
      BY <2>1, <2>2, <2>3, <2>7, <3>1, <3>2, RunFacts
  <2>. QED
    BY <2>6, <2>7 DEF BusyInv, TR!Kind
<1>. QED
  BY <1>2, <1>3, <1>4, <1>5, <1>6, <1>7, <1>8, <1>9, <1>10, <1>11 DEF TR!Next, TR!Indexes, Indexes, TriggersType

\* Every step keeps EventInv.
LEMMA EventStep ==
  ASSUME TriggersType, EventInv, RunsKept, TR!Next
  PROVE  EventInv'
<1>0. /\ \A i \in DOMAIN runs : runs[i].event \in Nat /\ runs[i].event <= events
      /\ \A e \in due : e.of \in Indexes /\ e.event \in Nat /\ e.event <= events
      /\ \A p \in posts : p.event \in Nat /\ p.event <= events
      /\ events \in Nat
  BY RunFacts DEF TriggersType, EventInv
<1>1. \A i \in DOMAIN runs : runs'[i].event = runs[i].event /\ runs'[i].of = runs[i].of
  BY DEF RunsKept, Kept
<1>2. ASSUME DOMAIN runs' = DOMAIN runs, due' \subseteq due, posts' \subseteq posts, UNCHANGED events
      PROVE  EventInv'
  BY <1>1, <1>2 DEF EventInv
<1>3. ASSUME NEW r \in RunType, runs' = Append(runs, r), due' \subseteq due, posts' \subseteq posts,
             r.event <= events', events' \in {events, events + 1},
             \A i \in DOMAIN runs : runs[i].event # r.event \/ runs[i].of # r.of,
             \A e \in due' : r.event # e.event \/ r.of # e.of,
             \A p \in posts' : r.event # p.event
      PROVE  EventInv'
  <2>1. /\ DOMAIN runs' = DOMAIN runs \cup {Len(runs) + 1} /\ Len(runs) + 1 \notin DOMAIN runs
        /\ \A i \in DOMAIN runs : runs'[i] = runs[i]
        /\ runs'[Len(runs) + 1] = r
    BY <1>3, MadeRow
  <2>2. /\ \A i \in DOMAIN runs : runs[i].event <= events'
        /\ \A e \in due' : e.event <= events'
        /\ \A p \in posts' : p.event <= events'
    BY <1>0, <1>3
  <2>3. \A i \in DOMAIN runs' : runs'[i].event <= events'
    BY <1>3, <2>1, <2>2
  <2>4. \A i, j \in DOMAIN runs' : i # j => runs'[i].event # runs'[j].event \/ runs'[i].of # runs'[j].of
    <3>1. \A i, j \in DOMAIN runs : i # j => runs[i].event # runs[j].event \/ runs[i].of # runs[j].of
      BY DEF EventInv
    <3>. QED
      BY <1>3, <2>1, <3>1
  <2>5. \A e \in due' : \A i \in DOMAIN runs' : runs'[i].event # e.event \/ runs'[i].of # e.of
    <3>1. \A e \in due : \A i \in DOMAIN runs : runs[i].event # e.event \/ runs[i].of # e.of
      BY DEF EventInv
    <3>. QED
      BY <1>3, <2>1, <3>1
  <2>6. \A p \in posts' : (\A i \in DOMAIN runs' : runs'[i].event # p.event) /\ (\A e \in due' : e.event # p.event)
    <3>1. \A p \in posts : (\A i \in DOMAIN runs : runs[i].event # p.event) /\ (\A e \in due : e.event # p.event)
      BY DEF EventInv
    <3>. QED
      BY <1>3, <2>1, <3>1
  <2>7. \A p, q \in posts' : p # q => p.event # q.event
    BY <1>3 DEF EventInv
  <2>. QED
    BY <2>2, <2>3, <2>4, <2>5, <2>6, <2>7 DEF EventInv
<1>4. CASE \/ TR!Boot \/ TR!Sweep \/ TR!Swept \/ TR!RegisterOne \/ TR!Started \/ TR!Stopping \/ TR!StopOne
           \/ TR!Stopped \/ TR!Exit \/ \E i \in DOMAIN runs : TR!Finish(i)
  <2>1. runs \in Seq(RunType)
    BY DEF TriggersType
  <2>2. DOMAIN runs' = DOMAIN runs
    BY Zenon, <1>4, <2>1
       DEF TR!Boot, TR!Sweep, TR!Swept, TR!RegisterOne, TR!Started, TR!Stopping, TR!StopOne, TR!Stopped, TR!Exit,
           TR!Finish
  <2>3. due' \subseteq due /\ posts' \subseteq posts /\ UNCHANGED events
    BY Zenon, <1>4
       DEF TR!Boot, TR!Sweep, TR!Swept, TR!RegisterOne, TR!Started, TR!Stopping, TR!StopOne, TR!Stopped, TR!Exit,
           TR!Finish
  <2>. QED
    BY <1>2, <2>2, <2>3
<1>5. CASE TR!FileCreated
  <2>1. /\ events' = events + 1 /\ UNCHANGED <<runs, posts>>
        /\ \A e \in due' : e \in due \/ e.event = events'
    BY <1>5 DEF TR!FileCreated, TR!NextEvent
  <2>2. \A i \in DOMAIN runs : runs[i].event # events'
    BY <1>0, <2>1
  <2>3. \A p \in posts : p.event # events'
    BY <1>0, <2>1
  <2>4. /\ \A i \in DOMAIN runs : runs[i].event <= events'
        /\ \A e \in due' : e.event <= events'
        /\ \A p \in posts' : p.event <= events'
    BY <1>0, <2>1
  <2>. QED
    BY <2>1, <2>2, <2>3, <2>4 DEF EventInv
<1>6. CASE TR!Invoke
  <2>1. PICK e \in due : /\ due' = due \ {e} /\ e.of \in Indexes /\ e.event \in Nat
                         /\ runs' = Append(runs, TR!NewRun(e.of, e.event, TRUE))
                         /\ UNCHANGED <<posts, events>>
    BY Zenon, <1>6, InvokeFacts
  <2>2. /\ TR!NewRun(e.of, e.event, TRUE) \in RunType /\ TR!NewRun(e.of, e.event, TRUE).of = e.of
        /\ TR!NewRun(e.of, e.event, TRUE).event = e.event
    BY Zenon, <2>1, SignedFacts
  <2>3. /\ \A i \in DOMAIN runs : runs[i].event # e.event \/ runs[i].of # e.of
        /\ \A p \in posts : e.event # p.event
    BY <2>1 DEF EventInv
  <2>4. \A f \in due' : e.event # f.event \/ e.of # f.of
    <3>1. \A f \in due : f = [of |-> f.of, event |-> f.event]
      BY DEF TriggersType
    <3>. QED
      BY <2>1, <3>1
  <2> DEFINE r == TR!NewRun(e.of, e.event, TRUE)
  <2>5. r \in RunType /\ r.of = e.of /\ r.event = e.event /\ runs' = Append(runs, r)
    BY Zenon, <2>1, <2>2
  <2> HIDE DEF r
  <2>6. r.event <= events' /\ events' = events /\ posts' = posts /\ due' \subseteq due
    BY <1>0, <2>1, <2>5
  <2>. QED
    BY <1>3, <2>3, <2>4, <2>5, <2>6
<1>7. CASE TR!Verify
  <2>1. UNCHANGED <<due, events>>
    BY <1>7, VerifyFacts
  <2>2. PICK p \in posts :
          /\ posts' = posts \ {p}
          /\ \/ runs' = runs
             \/ /\ p.id \in HookIds /\ p.event \in Nat
                /\ registry[p.id] \in Indexes /\ registry[p.id] # 0
                /\ runs' = Append(runs, TR!NewRun(registry[p.id], p.event, TRUE))
    BY Zenon, <1>7, VerifyFacts
  <2>3. CASE runs' = runs
    BY <1>2, <2>1, <2>2, <2>3
  <2>4. CASE runs' # runs
    <3> DEFINE r == TR!NewRun(registry[p.id], p.event, TRUE)
    <3>1. r \in RunType /\ r.event = p.event /\ runs' = Append(runs, r)
      <4>1. registry[p.id] \in Indexes /\ p.event \in Nat /\ runs' = Append(runs, r)
        BY Zenon, <2>2, <2>4
      <4>. QED
        BY Zenon, <4>1, SignedFacts
    <3> HIDE DEF r
    <3>2. /\ \A i \in DOMAIN runs : runs[i].event # p.event
          /\ \A e \in due : e.event # p.event
          /\ \A q \in posts' : q.event # p.event
      BY <2>2 DEF EventInv
    <3>3. r.event <= events' /\ events' = events /\ due' = due /\ posts' \subseteq posts
      BY <1>0, <2>1, <2>2, <3>1
    <3>. QED
      BY <1>3, <3>1, <3>2, <3>3
  <2>. QED
    BY <2>3, <2>4
<1>8. ASSUME NEW t \in HookIds, TR!Post(t)
      PROVE  EventInv'
  <2>1. UNCHANGED due /\ registry[t] \in Indexes /\ events' = events + 1 /\ events' \in Nat
    BY <1>8, PostFacts
  <2>2. /\ \A i \in DOMAIN runs : runs[i].event # events'
        /\ \A e \in due : e.event # events'
        /\ \A p \in posts : p.event # events'
    BY <1>0, <2>1
  <2>3. PICK s \in BOOLEAN :
          \/ posts' = posts \cup {[id |-> t, event |-> events', signed |-> s]} /\ runs' = runs
          \/ posts' = posts /\ runs' = Append(runs, TR!NewRun(registry[t], events', s))
    BY <1>8, PostFacts
  <2>4. CASE posts' = posts \cup {[id |-> t, event |-> events', signed |-> s]} /\ runs' = runs
    <3>1. \A p \in posts' : p \in posts \/ p.event = events'
      BY <2>4
    <3>2. \A p, q \in posts' : p # q => p.event # q.event
      <4>1. \A p, q \in posts : p # q => p.event # q.event
        BY DEF EventInv
      <4>. QED
        BY <2>2, <2>4, <4>1
    <3>3. /\ \A i \in DOMAIN runs' : runs'[i].event <= events'
          /\ \A e \in due' : e.event <= events'
          /\ \A p \in posts' : p.event <= events'
      BY <1>0, <2>1, <2>4, <3>1
    <3>4. /\ \A i, j \in DOMAIN runs' : i # j => runs'[i].event # runs'[j].event \/ runs'[i].of # runs'[j].of
          /\ \A e \in due' : \A i \in DOMAIN runs' : runs'[i].event # e.event \/ runs'[i].of # e.of
      BY <2>1, <2>4 DEF EventInv
    <3>5. \A p \in posts' : (\A i \in DOMAIN runs' : runs'[i].event # p.event) /\ (\A e \in due' : e.event # p.event)
      BY <2>1, <2>2, <2>4, <3>1 DEF EventInv
    <3>. QED
      BY <3>2, <3>3, <3>4, <3>5 DEF EventInv
  <2>5. CASE posts' = posts /\ runs' = Append(runs, TR!NewRun(registry[t], events', s))
    <3> DEFINE r == TR!NewRun(registry[t], events', s)
    <3>1. r \in RunType /\ r.event = events' /\ runs' = Append(runs, r)
      BY <2>1, <2>5, MadeFacts
    <3> HIDE DEF r
    <3>. QED
      BY <1>3, <2>1, <2>2, <2>5, <3>1
  <2>. QED
    BY <2>3, <2>4, <2>5
<1>9. ASSUME NEW d \in Indexes, TR!Fire(d)
      PROVE  EventInv'
  <2>1. /\ UNCHANGED <<due, posts>> /\ events' = events + 1 /\ events' \in Nat
        /\ runs' = Append(runs, TR!NewRun(d, events', TRUE))
    BY <1>9 DEF TR!Fire, TR!NextEvent, TriggersType
  <2>2. /\ \A i \in DOMAIN runs : runs[i].event # events'
        /\ \A e \in due : e.event # events'
        /\ \A p \in posts : p.event # events'
    BY <1>0, <2>1
  <2> DEFINE r == TR!NewRun(d, events', TRUE)
  <2>3. r \in RunType /\ r.event = events' /\ runs' = Append(runs, r)
    BY Zenon, <2>1, SignedFacts
  <2> HIDE DEF r
  <2>4. r.event <= events' /\ due' \subseteq due /\ posts' \subseteq posts /\ events' \in {events, events + 1}
    BY <2>1, <2>3
  <2>5. /\ \A i \in DOMAIN runs : runs[i].event # r.event \/ runs[i].of # r.of
        /\ \A e \in due' : r.event # e.event \/ r.of # e.of
        /\ \A p \in posts' : r.event # p.event
    BY <2>1, <2>2, <2>3
  <2>. QED
    BY <1>3, <2>3, <2>4, <2>5
<1>. QED
  BY <1>4, <1>5, <1>6, <1>7, <1>8, <1>9 DEF TR!Next, TR!Indexes, Indexes, TriggersType

\* Every step keeps HookInv.
LEMMA HookStep ==
  ASSUME TriggersType, QuietBefore, StartedInv, HookInv, RunsKept, TriggersAssumption, TR!Next
  PROVE  HookInv'
<1>0. /\ \A d \in Indexes : d \in Nat /\ d # 0 /\ Files[d].id \in HookIds
      /\ \A t \in HookIds : registry[t] # 0 => registry[t] \in Indexes
      /\ stored \subseteq stored' /\ next \in Nat
  <2>1. \A d \in Indexes : d \in Nat /\ d # 0 /\ Files[d].id \in HookIds
    BY DEF TriggersAssumption, Indexes, HookIds
  <2>2. stored \subseteq stored'
    BY Zenon DEF TR!Next, TR!Boot, TR!Sweep, TR!Swept, TR!RegisterOne, TR!Started, TR!FileCreated, TR!Invoke, TR!Verify,
           TR!Stopping, TR!StopOne, TR!Stopped, TR!Exit, TR!Fire, TR!Post, TR!Finish
  <2>. QED
    BY <2>1, <2>2 DEF TriggersType
<1>1. ASSUME \A t \in HookIds : registry'[t] \in {0, registry[t]}
      PROVE  \A t \in HookIds : registry'[t] # 0 => FirstHook(registry'[t]) /\ Files[registry'[t]].id = t
  BY <1>1 DEF HookInv
\* What is known of the runs that were there.
<1>2. ASSUME NEW i \in DOMAIN runs
      PROVE  /\ TR!Kind(runs'[i].of) = "webhook" =>
                  FirstHook(runs'[i].of) /\ (Files[runs'[i].of].secret => runs'[i].signed)
             /\ runs'[i].of \in stored'
  <2>1. runs'[i].of = runs[i].of /\ runs'[i].signed = runs[i].signed
    BY DEF RunsKept, Kept
  <2>. QED
    BY <1>0, <2>1 DEF HookInv
<1>3. ASSUME NEW r \in RunType, runs' = Append(runs, r), r.of \in stored, UNCHANGED <<phase, next, registry>>,
             TR!Kind(r.of) = "webhook" => FirstHook(r.of) /\ (Files[r.of].secret => r.signed)
      PROVE  HookInv'
  <2>1. /\ DOMAIN runs' = DOMAIN runs \cup {Len(runs) + 1}
        /\ runs'[Len(runs) + 1] = r
    BY <1>3, MadeRow
  <2>2. \A i \in DOMAIN runs' : TR!Kind(runs'[i].of) = "webhook" =>
          FirstHook(runs'[i].of) /\ (Files[runs'[i].of].secret => runs'[i].signed)
    BY <1>2, <1>3, <2>1
  <2>3. \A i \in DOMAIN runs' : runs'[i].of \in stored'
    BY <1>0, <1>2, <1>3, <2>1
  <2>4. /\ \A t \in HookIds : registry'[t] # 0 => FirstHook(registry'[t]) /\ Files[registry'[t]].id = t
        /\ phase' = "sweeping" => next' = 1
        /\ phase' = "starting" => \A d \in Indexes : Hook(d) /\ d < next' => registry'[Files[d].id] # 0
    BY <1>3 DEF HookInv
  <2>. QED
    BY <2>2, <2>3, <2>4 DEF HookInv, TR!Kind, FirstHook, Hook, TR!Makes
<1>4. ASSUME DOMAIN runs' = DOMAIN runs,
             \A t \in HookIds : registry'[t] # 0 => FirstHook(registry'[t]) /\ Files[registry'[t]].id = t,
             phase' = "sweeping" => next' = 1,
             phase' = "starting" => \A d \in Indexes : Hook(d) /\ d < next' => registry'[Files[d].id] # 0
      PROVE  HookInv'
  BY <1>2, <1>4 DEF HookInv, TR!Kind, FirstHook, Hook, TR!Makes
<1>5. runs \in Seq(RunType)
  BY DEF TriggersType
<1>6. CASE TR!RegisterOne
  <2> DEFINE made == Hook(next) /\ registry[Files[next].id] = 0
  <2>1. /\ phase = "starting" /\ UNCHANGED <<phase, runs>> /\ next \in Indexes /\ next' = next + 1
        /\ registry' = IF made THEN [registry EXCEPT ![Files[next].id] = next] ELSE registry
    BY <1>6 DEF TR!RegisterOne, TR!Indexes, Indexes, Hook
  <2> HIDE DEF made
  <2>2. registry \in [HookIds -> Indexes \cup {0}] /\ Files[next].id \in HookIds
    BY <1>0, <2>1 DEF TriggersType
  <2>3. made => FirstHook(next)
    <3>1. ASSUME made, NEW e \in Indexes, Hook(e), Files[e].id = Files[next].id
          PROVE  next <= e
      <4>1. ~(e < next)
        BY <2>1, <3>1 DEF made, HookInv
      <4>. QED
        BY <1>0, <4>1
    <3>2. made => Hook(next)
      BY DEF made
    <3>. QED
      BY <3>1, <3>2 DEF FirstHook
  <2>4. ASSUME NEW t \in HookIds, registry'[t] # 0
        PROVE  FirstHook(registry'[t]) /\ Files[registry'[t]].id = t
    <3>1. CASE made /\ t = Files[next].id
      <4>1. registry'[t] = next
        BY <2>1, <2>2, <3>1
      <4>. QED
        BY <2>3, <3>1, <4>1
    <3>2. CASE ~(made /\ t = Files[next].id)
      <4>1. registry'[t] = registry[t]
        BY <2>1, <2>2, <3>2
      <4>. QED
        BY <2>4, <4>1 DEF HookInv
    <3>. QED
      BY <3>1, <3>2
  <2>5. ASSUME NEW d \in Indexes, Hook(d), d < next'
        PROVE  registry'[Files[d].id] # 0
    <3>1. d < next \/ d = next
      BY <1>0, <2>1, <2>5
    <3>2. registry[Files[d].id] # 0 \/ d = next
      BY <2>1, <2>5, <3>1 DEF HookInv
    <3>3. CASE made /\ Files[d].id = Files[next].id
      BY <1>0, <2>1, <2>2, <3>3
    <3>4. CASE ~(made /\ Files[d].id = Files[next].id)
      <4>1. registry'[Files[d].id] = registry[Files[d].id]
        BY <1>0, <2>1, <2>2, <3>4
      <4>2. d = next => registry[Files[next].id] # 0
        BY <2>5, <3>4 DEF made
      <4>. QED
        BY <3>2, <4>1, <4>2
    <3>. QED
      BY <3>3, <3>4
  <2>. QED
    BY <1>4, <2>1, <2>4, <2>5
<1>7. CASE TR!Boot \/ TR!Sweep \/ TR!Swept \/ TR!Started \/ TR!FileCreated
           \/ TR!Stopping \/ TR!Stopped \/ \E i \in DOMAIN runs : TR!Finish(i)
  <2>1. DOMAIN runs' = DOMAIN runs
    BY Zenon, <1>5, <1>7
       DEF TR!Boot, TR!Sweep, TR!Swept, TR!Started, TR!FileCreated, TR!Stopping, TR!Stopped, TR!Finish
  <2>2. registry' = registry
    BY Zenon, <1>7 DEF TR!Boot, TR!Sweep, TR!Swept, TR!Started, TR!FileCreated, TR!Stopping, TR!Stopped, TR!Finish
  <2>3. /\ phase' = "sweeping" => next' = 1
        /\ phase' = "starting" => \A d \in Indexes : Hook(d) /\ d < next' => registry'[Files[d].id] # 0
    <3>1. \/ TR!Boot \/ TR!Swept
          \/ TR!Started /\ phase' = "up"
          \/ TR!Stopping /\ phase' = "stopping"
          \/ TR!Stopped /\ phase' = "stopped"
          \/ UNCHANGED <<phase, next>>
      BY Zenon, <1>7 DEF TR!Sweep, TR!FileCreated, TR!Finish, TR!Started, TR!Stopping, TR!Stopped
    <3>2. CASE TR!Boot
      BY <3>2 DEF TR!Boot
    <3>3. CASE TR!Swept
      <4>1. phase' = "starting" /\ next' = 1
        BY <3>3 DEF TR!Swept, HookInv
      <4>. QED
        BY <1>0, <4>1
    <3>4. CASE UNCHANGED <<phase, next>>
      BY <2>2, <3>4 DEF HookInv
    <3>. QED
      BY <3>1, <3>2, <3>3, <3>4
  <2>. QED
    BY <1>1, <1>4, <2>1, <2>2, <2>3
<1>8. CASE TR!StopOne
  <2>1. DOMAIN runs' = DOMAIN runs /\ phase' = "stopping"
    BY <1>5, <1>8 DEF TR!StopOne
  <2>2. \A t \in HookIds : registry'[t] \in {0, registry[t]}
    BY <1>8 DEF TR!StopOne, TriggersType
  <2>. QED
    BY <1>1, <1>4, <2>1, <2>2
<1>9. CASE TR!Exit
  <2>1. DOMAIN runs' = DOMAIN runs /\ phase' = "down"
    BY Zenon, <1>5, <1>9 DEF TR!Exit
  <2>2. \A t \in HookIds : registry'[t] \in {0, registry[t]}
    BY Zenon, <1>9 DEF TR!Exit, TriggersType
  <2>. QED
    BY <1>1, <1>4, <2>1, <2>2
<1>10. CASE TR!Invoke
  <2>1. PICK e \in due : /\ e.of \in Indexes /\ e.event \in Nat /\ UNCHANGED <<phase, next, registry>>
                         /\ runs' = Append(runs, TR!NewRun(e.of, e.event, TRUE))
    BY Zenon, <1>10, InvokeFacts
  <2> DEFINE r == TR!NewRun(e.of, e.event, TRUE)
  <2>2. r \in RunType /\ r.of = e.of /\ runs' = Append(runs, r)
    BY Zenon, <2>1, SignedFacts
  <2> HIDE DEF r
  <2>3. e.of \in stored /\ TR!Kind(e.of) = "file_watch"
    BY DEF StartedInv
  <2>. QED
    BY Zenon, <1>3, <2>1, <2>2, <2>3
<1>11. CASE TR!Verify
  <2>1. UNCHANGED <<phase, next, registry>>
    BY <1>11, VerifyFacts
  <2>2. CASE runs' = runs
    <3>1. /\ phase' = "sweeping" => next' = 1
          /\ phase' = "starting" => \A d \in Indexes : Hook(d) /\ d < next' => registry'[Files[d].id] # 0
      BY <2>1 DEF HookInv
    <3>. QED
      BY <1>1, <1>4, <2>1, <2>2, <3>1
  <2>3. CASE runs' # runs
    <3>1. PICK p \in posts : /\ p.id \in HookIds /\ p.event \in Nat
                             /\ registry[p.id] \in Indexes /\ registry[p.id] # 0
                             /\ runs' = Append(runs, TR!NewRun(registry[p.id], p.event, TRUE))
      BY Zenon, <1>11, <2>3, VerifyFacts
    <3> DEFINE r == TR!NewRun(registry[p.id], p.event, TRUE)
    <3>2. r \in RunType /\ r.of = registry[p.id] /\ r.signed /\ runs' = Append(runs, r)
      BY Zenon, <3>1, SignedFacts
    <3> HIDE DEF r
    <3>3. registry[p.id] \in stored /\ FirstHook(registry[p.id])
      BY <3>1 DEF StartedInv, HookInv
    <3>. QED
      BY <1>3, <2>1, <3>2, <3>3
  <2>. QED
    BY <2>2, <2>3
<1>12. ASSUME NEW t \in HookIds, TR!Post(t)
       PROVE  HookInv'
  <2>1. /\ UNCHANGED <<phase, next, registry>> /\ registry[t] \in Indexes /\ registry[t] # 0 /\ events' \in Nat
        /\ \E s \in BOOLEAN : runs' = runs \/ (~Files[registry[t]].secret /\ runs' = Append(runs, TR!NewRun(registry[t], events', s)))
    BY <1>12, PostFacts
  <2>2. CASE runs' = runs
    <3>1. /\ phase' = "sweeping" => next' = 1
          /\ phase' = "starting" => \A d \in Indexes : Hook(d) /\ d < next' => registry'[Files[d].id] # 0
      BY <2>1 DEF HookInv
    <3>. QED
      BY <1>1, <1>4, <2>1, <2>2, <3>1
  <2>3. CASE runs' # runs
    <3>1. PICK s \in BOOLEAN : ~Files[registry[t]].secret /\ runs' = Append(runs, TR!NewRun(registry[t], events', s))
      BY <2>1, <2>3
    <3> DEFINE r == TR!NewRun(registry[t], events', s)
    <3>2. r \in RunType /\ r.of = registry[t] /\ runs' = Append(runs, r)
      BY <2>1, <3>1, MadeFacts
    <3> HIDE DEF r
    <3>3. registry[t] \in stored /\ FirstHook(registry[t])
      BY <2>1 DEF StartedInv, HookInv
    <3>. QED
      BY <1>3, <2>1, <3>1, <3>2, <3>3
  <2>. QED
    BY <2>2, <2>3
<1>13. ASSUME NEW d \in Indexes, TR!Fire(d)
       PROVE  HookInv'
  <2>1. /\ UNCHANGED <<phase, next, registry>> /\ events' \in Nat /\ TR!Kind(d) = "schedule" /\ TR!IsStarted(d)
        /\ runs' = Append(runs, TR!NewRun(d, events', TRUE))
    BY <1>13 DEF TR!Fire, TR!NextEvent, TriggersType
  <2> DEFINE r == TR!NewRun(d, events', TRUE)
  <2>2. r \in RunType /\ r.of = d /\ runs' = Append(runs, r)
    BY Zenon, <2>1, SignedFacts
  <2> HIDE DEF r
  <2>3. d \in stored
    BY <2>1 DEF StartedInv, TR!IsStarted
  <2>. QED
    BY Zenon, <1>3, <2>1, <2>2, <2>3
<1>. QED
  BY <1>6, <1>7, <1>8, <1>9, <1>10, <1>11, <1>12, <1>13 DEF TR!Next, TR!Indexes, Indexes, TriggersType

\* The invariant before the first boot.
LEMMA TriggersInitially ==
  ASSUME TR!Init
  PROVE  TriggersInv
<1>1. TriggersType
  BY DEF TR!Init, TriggersType, TR!Indexes, Indexes, HookIds
<1>2. /\ runs = <<>> /\ started = <<>> /\ due = {} /\ posts = {} /\ phase = "down"
      /\ \A t \in HookIds : registry[t] = 0
      /\ \A d \in Indexes : busy[d] = 0
  BY DEF TR!Init, TR!Indexes, Indexes, HookIds
<1>3. DOMAIN runs = {} /\ DOMAIN started = {}
  BY <1>2
<1>. QED
  BY <1>1, <1>2, <1>3 DEF TriggersInv, QuietBefore, StartedInv, BusyInv, DrivenInv, EventInv, HookInv

\* The invariant over every step of the orchestrator.
LEMMA TriggersStep ==
  ASSUME TriggersInv, TR!Next
  PROVE  TriggersInv'
<1>1. TriggersType /\ QuietBefore /\ StartedInv /\ BusyInv /\ DrivenInv /\ EventInv /\ HookInv
  BY DEF TriggersInv
<1>2. RunsKept
  BY <1>1, RunsAreKept
<1>. QED
  BY <1>1, <1>2, TriggersAssumption, TriggersTypeStep, QuietStep, StartedStep, BusyStep, DrivenStep, EventStep,
     HookStep
  DEF TriggersInv

\* The runs of a schedule that are going are the one its loop awaits.
LEMMA TriggersPromise ==
  ASSUME TriggersInv
  PROVE  TR!RunningMeansDriven /\ TR!RunsAreCalledFor
<1>0. TriggersType /\ QuietBefore /\ StartedInv /\ BusyInv /\ DrivenInv /\ EventInv /\ HookInv
  BY DEF TriggersInv
<1>1. phase \in {"starting", "up", "stopping", "stopped"} =>
        \A i \in DOMAIN runs : TR!IsRunning(i) => runs[i].boot = boot \/ i \in unswept
  BY <1>0 DEF DrivenInv, TR!IsRunning
<1>2. \A i \in DOMAIN runs : runs[i].by = "sweep" => runs[i].state = "paused" /\ runs[i].boot < boot
  BY <1>0 DEF DrivenInv
<1>3. ASSUME phase \notin {"down", "sweeping"}, NEW d \in TR!Indexes, TR!Kind(d) = "schedule"
      PROVE  Cardinality({i \in DOMAIN runs : runs[i].of = d /\ TR!IsRunning(i) /\ i \notin unswept}) <= 1
  <2> DEFINE S == {i \in DOMAIN runs : runs[i].of = d /\ TR!IsRunning(i) /\ i \notin unswept}
  <2>1. phase \in {"starting", "up", "stopping", "stopped"}
    BY <1>0, <1>3 DEF TriggersType
  <2>2. S \subseteq {busy[d]}
    BY <1>0, <1>1, <1>3, <2>1 DEF BusyInv, TR!IsRunning
  <2> HIDE DEF S
  <2>3. IsFiniteSet({busy[d]}) /\ Cardinality({busy[d]}) = 1
    BY Zenon, FS_Singleton
  <2>4. Cardinality(S) <= 1
    BY <2>2, <2>3, FS_Subset
  <2>. QED
    BY <2>4 DEF S
<1>4. TR!RunningMeansDriven
  BY Zenon, <1>1, <1>2, <1>3 DEF TR!RunningMeansDriven, TR!Cardinality, Cardinality
<1>5. \A i, j \in DOMAIN runs : i # j => runs[i].event # runs[j].event \/ runs[i].of # runs[j].of
  BY <1>0 DEF EventInv
<1>6. \A i \in DOMAIN runs : TR!Kind(runs[i].of) = "webhook" =>
        /\ Files[runs[i].of].secret => runs[i].signed
        /\ Production => Files[runs[i].of].secret
        /\ \A d \in TR!Indexes : TR!Kind(d) = "webhook" /\ Files[d].parses /\ TR!Makes(d)
             /\ Files[d].id = Files[runs[i].of].id => runs[i].of <= d
  BY <1>0 DEF HookInv, FirstHook, Hook, TR!Makes, TR!Indexes, Indexes
<1>7. \A i \in DOMAIN runs : runs[i].of \in stored
  BY <1>0 DEF HookInv
<1>8. TR!RunsAreCalledFor
  BY <1>5, <1>6, <1>7 DEF TR!RunsAreCalledFor
<1>. QED
  BY <1>4, <1>8

TriggersPart == part = "triggers" => TriggersInv

\* Once a process has swept, every instance that says it is running is one
\* it drives or one whose sweep failed, a schedule has at most one run going,
\* and each run answers one event of its own definition, signed where its
\* webhook has a secret (main.py, recovery.py, orchestrator.py, triggers/).
THEOREM RunsAnswerTheirEvents == Spec => []RunsAreAccountedFor
<1>1. Init => TriggersPart
  BY TriggersInitially DEF Init, TriggersPart
<1>2. TriggersPart /\ [Next]_all => TriggersPart'
  <2> SUFFICES ASSUME TriggersPart, [Next]_all, part' = "triggers"
               PROVE  TriggersInv'
    BY DEF TriggersPart
  <2>1. CASE Next
    <3>1. part = "triggers" /\ TR!Next
      BY <2>1 DEF Next
    <3>. QED
      BY <3>1, TriggersStep DEF TriggersPart
  <2>2. CASE UNCHANGED all
    <3>1. TriggersInv /\ UNCHANGED <<v1, v2, v3, v4, v5, v6, v7, v8, v9, v10, v11, v13>>
      BY <2>2 DEF all, TriggersPart
    <3>. QED
      BY <3>1 DEF TriggersInv, TriggersType, QuietBefore, StartedInv, BusyInv, DrivenInv, EventInv, HookInv,
                  FirstHook, Hook, TR!Kind, TR!Makes
  <2>. QED
    BY <2>1, <2>2
<1>3. TriggersPart => RunsAreAccountedFor
  BY TriggersPromise DEF TriggersPart, RunsAreAccountedFor
<1>. QED
  BY <1>1, <1>2, <1>3, PTL DEF Spec

-----------------------------------------------------------------------------
(* RawReads.                                                               *)

log       == v3
call      == v7
resolver  == v8
attempts  == v9
decisions == v10
answers   == v11
asked     == v12   \* its n, the number of requests made
LogEntry  == [kind: {"requested"}, state: {"raw", "present", "absent", "broken"}] \cup [kind: {"resolved"}, of: Nat]

\* What is resolved was asked for before, and what was asked for is kept.
EscalationInv ==
  /\ log \in Seq(LogEntry) /\ resolver \in 0 .. Len(log)
  /\ \A i \in DOMAIN log : log[i].kind = "requested" => log[i].state \in RR!Sound
  /\ \A i \in DOMAIN log : log[i].kind = "resolved" => log[i].of < i

\* A call is the last request made, recorded before it fetches and decided at
\* most once; what is about to be answered has its decision.
CallInv ==
  /\ asked \in Nat
  /\ \A a \in answers : a.id \in Nat /\ a.id <= asked
  /\ \A i \in DOMAIN decisions : i \in Nat /\ i <= asked
  /\ call # RR!Idle =>
       /\ call = [pc |-> call.pc, surface |-> call.surface, items |-> call.items, got |-> call.got,
                  granted |-> call.granted, id |-> call.id]
       /\ call.pc \in {"fetch", "commit", "answer"} /\ call.id = asked
       /\ \A a \in answers : a.id # asked
       /\ call.pc = "fetch" => call.got = {}
       /\ call.pc \in {"fetch", "commit"} => call.granted /\ call.id \in attempts
       /\ call.pc = "answer" /\ call.got # {} =>
            /\ call.granted /\ call.id \in attempts /\ call.id \in DOMAIN decisions
            /\ call.got = call.items <=> decisions[call.id] = "released"

ReadsInv == EscalationInv /\ CallInv /\ RR!RawReadsAreHonest

USE DEF log, call, resolver, attempts, decisions, answers, asked

\* Escalations over every step.
LEMMA EscalationStep ==
  ASSUME EscalationInv, RR!Next
  PROVE  EscalationInv'
<1>0. log \in Seq(LogEntry) /\ Len(log) \in Nat /\ DOMAIN log = 1 .. Len(log)
  BY DEF EscalationInv
<1>1. ASSUME NEW e \in LogEntry, log' = Append(log, e), resolver' \in {0, resolver},
             e.kind = "requested" => e.state \in RR!Sound,
             e.kind = "resolved" => e.of < Len(log) + 1
      PROVE  EscalationInv'
  <2>1. /\ log' \in Seq(LogEntry) /\ Len(log') = Len(log) + 1
        /\ DOMAIN log' = DOMAIN log \cup {Len(log) + 1}
        /\ \A i \in DOMAIN log : log'[i] = log[i]
        /\ log'[Len(log) + 1] = e
    BY <1>0, <1>1, Appended
  <2>2. resolver' \in 0 .. Len(log')
    BY <1>0, <1>1, <2>1 DEF EscalationInv
  <2>3. \A i \in DOMAIN log' : log'[i].kind = "requested" => log'[i].state \in RR!Sound
    BY <1>1, <2>1 DEF EscalationInv
  <2>4. \A i \in DOMAIN log' : log'[i].kind = "resolved" => log'[i].of < i
    BY <1>1, <2>1 DEF EscalationInv
  <2>. QED
    BY <2>1, <2>2, <2>3, <2>4 DEF EscalationInv, RR!Sound
<1>2. CASE RR!RequestReview
  <2>1. CASE log' = log
    BY <1>2, <2>1 DEF RR!RequestReview, EscalationInv, RR!Sound
  <2>2. CASE log' # log
    <3>1. PICK how \in {"raw", "present"} : log' = Append(log, [kind |-> "requested", state |-> how])
      BY <1>2, <2>2 DEF RR!RequestReview, RR!Kept
    <3>2. [kind |-> "requested", state |-> how] \in LogEntry
      BY DEF LogEntry
    <3>3. resolver' = resolver
      BY <1>2 DEF RR!RequestReview
    <3>. QED
      BY <1>1, <3>1, <3>2, <3>3 DEF RR!Sound
  <2>. QED
    BY <2>1, <2>2
<1>3. CASE RR!ResolveBegins
  <2>1. log' = log /\ resolver' \in DOMAIN log
    BY <1>3 DEF RR!ResolveBegins, RR!Requests
  <2>. QED
    BY <1>0, <2>1 DEF EscalationInv, RR!Sound
<1>4. CASE RR!ResolveEnds
  <2>1. log' = Append(log, [kind |-> "resolved", of |-> resolver]) /\ resolver' = 0
    BY <1>4 DEF RR!ResolveEnds
  <2>2. resolver \in Nat /\ resolver < Len(log) + 1
    BY <1>0 DEF EscalationInv
  <2>3. [kind |-> "resolved", of |-> resolver] \in LogEntry
    BY <2>2 DEF LogEntry
  <2>. QED
    BY <1>1, <2>1, <2>2, <2>3
<1>5. CASE ~(RR!RequestReview \/ RR!ResolveBegins \/ RR!ResolveEnds)
  <2>1. UNCHANGED <<log, resolver>>
    BY Zenon, <1>5 DEF RR!Next, RR!DeleteInstance, RR!GrantEnds, RR!Begin, RR!Fetch, RR!Commit, RR!Answer
  <2>. QED
    BY <2>1 DEF EscalationInv, RR!Sound
<1>. QED
  BY <1>2, <1>3, <1>4, <1>5

\* The calls for a raw payload, and what they left on record, over every step.
LEMMA CallStep ==
  ASSUME CallInv, RR!RawReadsAreHonest, RR!Next
  PROVE  CallInv' /\ RR!RawReadsAreHonest'
<1>1. ASSUME NEW s \in RR!Surfaces, RR!Begin(s)
      PROVE  CallInv' /\ RR!RawReadsAreHonest'
  <2>1. call = RR!Idle /\ asked' = asked + 1 /\ UNCHANGED <<decisions, answers>> /\ asked \in Nat
    BY <1>1 DEF RR!Begin, CallInv
  <2>2. PICK scoped \in BOOLEAN, recorded \in BOOLEAN :
          LET read == [pc |-> "fetch", surface |-> s, items |-> RR!Items(s, scoped), got |-> {},
                       granted |-> RR!RawReader(RR!Target(s, scoped)), id |-> asked']
          IN /\ recorded => read.granted
             /\ attempts' = IF recorded THEN attempts \cup {asked'} ELSE attempts
             /\ call' = IF recorded THEN read ELSE [read EXCEPT !.pc = "answer"]
    BY Zenon, <1>1 DEF RR!Begin
  <2> DEFINE items   == RR!Items(s, scoped)
             granted == RR!RawReader(RR!Target(s, scoped))
             fetch   == [pc |-> "fetch", surface |-> s, items |-> items, got |-> {}, granted |-> granted,
                         id |-> asked']
             answer  == [pc |-> "answer", surface |-> s, items |-> items, got |-> {}, granted |-> granted,
                         id |-> asked']
  <2>8. /\ recorded => granted
        /\ attempts' = IF recorded THEN attempts \cup {asked'} ELSE attempts
        /\ call' = IF recorded THEN fetch ELSE [fetch EXCEPT !.pc = "answer"]
    BY <2>2
  <2> HIDE DEF items, granted
  <2>9. [fetch EXCEPT !.pc = "answer"] = answer
    OBVIOUS
  <2>10. (recorded /\ call' = fetch) \/ (~recorded /\ call' = answer)
    <3> HIDE DEF fetch, answer
    <3>. QED
      BY <2>8, <2>9
  <2>3. /\ call'.pc \in {"fetch", "answer"} /\ call'.id = asked' /\ call'.got = {}
        /\ call'.pc = "fetch" => call'.granted /\ call'.id \in attempts'
        /\ call' = [pc |-> call'.pc, surface |-> call'.surface, items |-> call'.items, got |-> call'.got,
                    granted |-> call'.granted, id |-> call'.id]
    <3>1. CASE recorded /\ call' = fetch
      BY <2>8, <3>1
    <3>2. CASE ~recorded /\ call' = answer
      BY <3>2
    <3>. QED
      BY <2>10, <3>1, <3>2
  <2>4. /\ \A a \in answers : a.id \in Nat /\ a.id <= asked' /\ a.id # asked'
        /\ \A i \in DOMAIN decisions : i \in Nat /\ i <= asked'
    BY <2>1 DEF CallInv
  <2>5. attempts \subseteq attempts'
    BY <2>8
  <2>6. CallInv'
    BY <2>1, <2>3, <2>4 DEF CallInv
  <2>. QED
    BY <2>1, <2>5, <2>6 DEF RR!RawReadsAreHonest
<1>2. CASE RR!Fetch
  <2>1. call # RR!Idle /\ call.pc = "fetch" /\ UNCHANGED <<attempts, decisions, answers, asked>>
    BY <1>2 DEF RR!Fetch, RR!Idle
  <2>2. PICK got : call' = [call EXCEPT !.pc = "commit", !.got = got]
    BY Zenon, <1>2 DEF RR!Fetch
  <2>3. /\ call = [pc |-> call.pc, surface |-> call.surface, items |-> call.items, got |-> call.got,
                   granted |-> call.granted, id |-> call.id]
        /\ call.id = asked /\ call.granted /\ call.id \in attempts /\ \A a \in answers : a.id # asked
    BY <2>1 DEF CallInv
  <2>4. call' = [pc |-> "commit", surface |-> call.surface, items |-> call.items, got |-> got,
                 granted |-> call.granted, id |-> call.id]
    BY Zenon, <2>2, <2>3
  <2>5. /\ call'.pc = "commit" /\ call'.id = asked /\ call'.granted = call.granted
        /\ call' = [pc |-> call'.pc, surface |-> call'.surface, items |-> call'.items, got |-> call'.got,
                    granted |-> call'.granted, id |-> call'.id]
    BY <2>3, <2>4
  <2>6. CallInv'
    BY <2>1, <2>3, <2>5 DEF CallInv
  <2>. QED
    BY <2>1, <2>6 DEF RR!RawReadsAreHonest
<1>3. CASE RR!Commit
  <2>1. call # RR!Idle /\ call.pc = "commit" /\ UNCHANGED <<attempts, answers, asked>>
    BY <1>3 DEF RR!Commit, RR!Idle
  <2>2. PICK recorded \in BOOLEAN :
          /\ decisions' = IF recorded
                          THEN [i \in DOMAIN decisions \cup {call.id} |->
                                  IF i = call.id THEN RR!Outcome(call.surface, call.items, call.got)
                                  ELSE decisions[i]]
                          ELSE decisions
          /\ call' = [call EXCEPT !.pc = "answer", !.got = RR!Leaves(call, recorded)]
    BY Zenon, <1>3 DEF RR!Commit
  <2>3. /\ call = [pc |-> call.pc, surface |-> call.surface, items |-> call.items, got |-> call.got,
                   granted |-> call.granted, id |-> call.id]
        /\ call.id = asked /\ call.granted /\ call.id \in attempts /\ \A a \in answers : a.id # asked
    BY <2>1 DEF CallInv
  <2> DEFINE left1 == RR!Leaves(call, recorded)
  <2>4. left1 # {} => recorded /\ (left1 = call.items <=> RR!Outcome(call.surface, call.items, call.got) = "released")
    <3>1. /\ call.got = call.items => RR!Outcome(call.surface, call.items, call.got) = "released"
          /\ call.got # call.items => RR!Outcome(call.surface, call.items, call.got) # "released"
      <4>1. ASSUME call.got = call.items
            PROVE  RR!Outcome(call.surface, call.items, call.got) = "released"
        BY <4>1 DEF RR!Outcome
      <4>2. ASSUME call.got # call.items
            PROVE  RR!Outcome(call.surface, call.items, call.got) \in {"retrieval_failed", "partial"}
        BY <4>2 DEF RR!Outcome
      <4>. QED
        BY <4>1, <4>2
    <3>2. ~recorded => left1 = {}
      BY DEF RR!Leaves
    <3>3. left1 # {} => left1 = call.got
      BY DEF RR!Leaves, RR!Explained
    <3>. QED
      BY <3>1, <3>2, <3>3
  <2> HIDE DEF left1
  <2>5. call' = [pc |-> "answer", surface |-> call.surface, items |-> call.items, got |-> left1,
                 granted |-> call.granted, id |-> call.id]
    BY Zenon, <2>2, <2>3 DEF left1
  <2>6. /\ call'.pc = "answer" /\ call'.id = asked /\ call'.granted = call.granted /\ call'.items = call.items
        /\ call'.got = left1
        /\ call' = [pc |-> call'.pc, surface |-> call'.surface, items |-> call'.items, got |-> call'.got,
                    granted |-> call'.granted, id |-> call'.id]
    BY <2>3, <2>5
  <2>7. /\ DOMAIN decisions \subseteq DOMAIN decisions' /\ DOMAIN decisions' \subseteq DOMAIN decisions \cup {asked}
        /\ \A i \in DOMAIN decisions : i # asked => decisions'[i] = decisions[i]
        /\ recorded => asked \in DOMAIN decisions'
                       /\ decisions'[asked] = RR!Outcome(call.surface, call.items, call.got)
    BY <2>2, <2>3
  <2>8. call'.got # {} => /\ call'.id \in DOMAIN decisions'
                          /\ call'.got = call'.items <=> decisions'[call'.id] = "released"
    BY <2>4, <2>6, <2>7
  <2>9. \A i \in DOMAIN decisions' : i \in Nat /\ i <= asked
    BY <2>7 DEF CallInv
  <2>10. CallInv'
    BY <2>1, <2>3, <2>6, <2>8, <2>9 DEF CallInv
  <2>11. RR!RawReadsAreHonest'
    BY <2>1, <2>3, <2>7 DEF RR!RawReadsAreHonest
  <2>. QED
    BY <2>10, <2>11
<1>4. CASE RR!Answer
  <2> DEFINE a == [id |-> call.id, surface |-> call.surface, granted |-> call.granted, items |-> call.items,
                   raw |-> call.got, complete |-> call.got # {} /\ call.got = call.items]
  <2>1. /\ call.pc = "answer" /\ call # RR!Idle /\ call' = RR!Idle /\ UNCHANGED <<attempts, decisions, asked>>
        /\ answers' = answers \cup {a}
    BY <1>4 DEF RR!Answer, RR!Idle
  <2>2. /\ a.id = call.id /\ a.raw = call.got /\ a.granted = call.granted
        /\ a.complete <=> call.got # {} /\ call.got = call.items
    BY Zenon
  <2> HIDE DEF a
  <2>3. /\ call.id = asked
        /\ call.got # {} => /\ call.granted /\ call.id \in attempts /\ call.id \in DOMAIN decisions
                            /\ call.got = call.items <=> decisions[call.id] = "released"
    BY <2>1 DEF CallInv
  <2>4. CallInv'
    BY <2>1, <2>2, <2>3 DEF CallInv
  <2>5. a.raw # {} => /\ a.granted /\ a.id \in attempts /\ a.id \in DOMAIN decisions
                      /\ a.complete <=> decisions[a.id] = "released"
    BY <2>2, <2>3
  <2>6. RR!RawReadsAreHonest'
    BY <2>1, <2>5 DEF RR!RawReadsAreHonest
  <2>. QED
    BY <2>4, <2>6
<1>5. CASE \/ RR!RequestReview \/ RR!ResolveBegins \/ RR!ResolveEnds \/ RR!DeleteInstance \/ RR!GrantEnds
  <2>1. UNCHANGED <<call, attempts, decisions, answers, asked>>
    BY <1>5 DEF RR!RequestReview, RR!ResolveBegins, RR!ResolveEnds, RR!DeleteInstance, RR!GrantEnds
  <2>. QED
    BY <2>1 DEF CallInv, RR!RawReadsAreHonest, RR!Idle
<1>. QED
  BY <1>1, <1>2, <1>3, <1>4, <1>5 DEF RR!Next

\* The invariant before the first call.
LEMMA ReadsInitially ==
  ASSUME RR!Init
  PROVE  ReadsInv
<1>1. log = <<>> /\ resolver = 0 /\ call = RR!Idle /\ decisions = <<>> /\ answers = {} /\ asked = 0
  BY DEF RR!Init
<1>2. DOMAIN log = {} /\ DOMAIN decisions = {} /\ Len(log) = 0 /\ log \in Seq(LogEntry)
  BY <1>1
<1>. QED
  BY <1>1, <1>2 DEF ReadsInv, EscalationInv, CallInv, RR!RawReadsAreHonest

\* A resolution is later than what it resolves, so it is among the recent
\* entries when that is.
LEMMA EscalationPromise ==
  ASSUME EscalationInv
  PROVE  RR!EscalationsAreKept
<1>1. \A i \in RR!Requests : log[i].state \in RR!Sound
  BY DEF EscalationInv, RR!Requests
<1>2. ASSUME NEW i \in RR!Pending(RR!Recent), NEW j \in DOMAIN log, log[j].kind = "resolved", log[j].of = i
      PROVE  FALSE
  <2>0. log \in Seq(LogEntry) /\ Len(log) \in Nat /\ DOMAIN log = 1 .. Len(log) /\ Window \in Nat
    BY ReadsAssumption DEF EscalationInv
  <2>1. i \in RR!Recent /\ i \notin RR!Resolved(RR!Recent)
    BY DEF RR!Pending
  <2>2. i < j /\ i > Len(log) - Window /\ i \in Nat /\ j \in Nat
    BY <1>2, <2>0, <2>1 DEF EscalationInv, RR!Recent
  <2>3. j > Len(log) - Window
    BY <2>0, <2>2
  <2>4. j \in RR!Recent
    BY <2>3 DEF RR!Recent
  <2>5. log[j].of \in RR!Resolved(RR!Recent)
    BY <1>2, <2>4 DEF RR!Resolved
  <2>. QED
    BY <1>2, <2>1, <2>5
<1>. QED
  BY <1>1, <1>2 DEF RR!EscalationsAreKept

ReadsPart == part = "reads" => ReadsInv

\* Raw leaves only to a reader whose grant covered it when it asked, after the
\* attempt and the decision were recorded, and what is answered as complete is
\* recorded as released; an escalation's raw is in the vault, and none is shown
\* pending that was resolved, whatever else is resolved, deleted or withdrawn
\* meanwhile (api/workflows.py, api/raw_trace_audit.py).
THEOREM RawLeavesOnRecord == Spec => []RawReadsAreGoverned
<1>1. Init => ReadsPart
  BY ReadsInitially DEF Init, ReadsPart
<1>2. ReadsPart /\ [Next]_all => ReadsPart'
  <2> SUFFICES ASSUME ReadsPart, [Next]_all, part' = "reads"
               PROVE  ReadsInv'
    BY DEF ReadsPart
  <2>1. CASE Next
    <3>1. part = "reads" /\ RR!Next
      BY <2>1 DEF Next
    <3>. QED
      BY <3>1, EscalationStep, CallStep DEF ReadsPart, ReadsInv
  <2>2. CASE UNCHANGED all
    <3>1. ReadsInv /\ UNCHANGED <<v3, v7, v8, v9, v10, v11, v12>>
      BY <2>2 DEF all, ReadsPart
    <3>. QED
      BY <3>1 DEF ReadsInv, EscalationInv, CallInv, RR!RawReadsAreHonest, RR!Idle, RR!Sound
  <2>. QED
    BY <2>1, <2>2
<1>3. ReadsPart => RawReadsAreGoverned
  BY EscalationPromise DEF ReadsPart, ReadsInv, RawReadsAreGoverned
<1>. QED
  BY <1>1, <1>2, <1>3, PTL DEF Spec

-----------------------------------------------------------------------------
(* Monitoring.                                                             *)

clock    == v1
machine  == v2   \* its inst
consents == v3
lows     == v4
highs    == v5
turn     == v6   \* its round
alerts   == v7   \* its alerted
raised   == v8   \* its since
entries  == v9   \* its log
ears     == v10  \* its heard
memo     == v11  \* its mailed
letters  == v12  \* its posted
losses   == v13
boots    == v16  \* its restarts

MonitoringType ==
  /\ clock \in Nat /\ boots \in Nat /\ turn \in 0 .. 7
  /\ machine \in [Instances -> [state : {"absent", "running", "paused", "ended"}, started : Int, active : Int]]
  /\ \A i \in Instances : machine[i].started <= machine[i].active /\ machine[i].started <= clock
  /\ highs \subseteq Levels /\ raised \in [Levels -> Int]

\* What the service remembers it has said, or a failed write took it from the
\* log; disks and levels it does not remember.
AlertedInv ==
  \A k \in alerts :
    /\ k.action \in {"alert_stuck_workflow", "alert_abandoned_pause", "alert_stale_trigger",
                     "alert_trigger_consent_expiring"}
    /\ MO!Said(k.action, k.subject)
    /\ k.action = "alert_trigger_consent_expiring" => MO!InLog(k) \/ MO!Lost(k.action, k.subject)

\* An instance's entry of this process is remembered, a disk's is dated.
EntryInv ==
  \A e \in entries :
    /\ e.key.action \in {"alert_stuck_workflow", "alert_abandoned_pause"} =>
         /\ e.key = MO!Key(e.key.action, e.key.subject, 0)
         /\ e.boot = boots => e.key \in alerts
    /\ e.key.action = "alert_low_disk" => e.key.episode = e.at
    /\ e.at \in Nat /\ e.at <= clock /\ e.boot \in Nat /\ e.boot <= boots

EpisodesOnce ==
  \A d, e \in entries : d # e /\ d.key.action = e.key.action /\ d.key.subject = e.key.subject =>
    /\ d.key.action \in {"alert_stale_trigger", "alert_trigger_consent_expiring"} => d.key # e.key
    /\ d.key.action \in {"alert_stuck_workflow", "alert_abandoned_pause"} => d.boot # e.boot
    /\ d.key.action = "alert_low_disk" => d.at - e.at \notin (1 - MO!DiskRepeat) .. (MO!DiskRepeat - 1)

\* A check that a round has passed finds nothing.
RoundInv == \A c \in 1 .. 6 : c < turn => MO!Findings(MO!Checks[c]) = {}

\* The notifier remembers exactly what it has posted since its start.
LetterInv ==
  /\ IsFiniteSet(memo) /\ IsFiniteSet(letters)
  /\ memo = {q.mail : q \in {q \in letters : q.boot = boots}}
  /\ \A q \in letters : /\ q.boot \in Nat /\ q.boot <= boots
                        /\ q.mail.at \in Nat /\ q.mail.at <= clock

\* The emails of one process within the hour before one of them.
Hourly(p) == {q \in letters : q.boot = p.boot /\ p.mail.at - q.mail.at \in 0 .. MO!Hour}

LettersSpaced ==
  \A p \in letters :
    /\ Cardinality(Hourly(p)) <= MO!MaxPerHour
    /\ \A q \in letters : q # p /\ q.boot = p.boot /\ q.mail.action = p.mail.action
                          /\ q.mail.subject = p.mail.subject =>
         p.mail.at - q.mail.at \notin (1 - MO!MailRepeat) .. (MO!MailRepeat - 1)

MonitoringInv == MonitoringType /\ AlertedInv /\ EntryInv /\ EpisodesOnce /\ RoundInv /\ LetterInv /\ LettersSpaced
USE DEF clock, machine, consents, lows, highs, turn, alerts, raised, entries, ears, memo, letters, losses, boots

-----------------------------------------------------------------------------
\* A nonempty set of naturals has a smallest element.
LEMMA SmallestOf ==
  ASSUME NEW S \in SUBSET Nat, S # {}
  PROVE  \E x \in S : \A y \in S : x <= y
<1>1. PICK x \in S : \A y \in S : ~(<<y, x>> \in OpToRel(<, Nat))
  BY Zenon, WFMin, NatLessThanWellFounded
<1>2. \A y \in S : x <= y
  <2> TAKE y \in S
  <2>1. ~(y < x)
    BY Zenon, <1>1 DEF OpToRel
  <2>. QED
    BY <2>1
<1>. QED
  BY <1>2

\* Monitoring counts as this module does.
LEMMA MonitoringCardinality == ASSUME NEW S PROVE MO!Cardinality(S) = Cardinality(S)
BY DEF MO!Cardinality, Cardinality

\* What the checks look for, by name.
LEMMA SixChecks ==
  /\ Len(MO!Checks) = 6 /\ 1 .. 6 = {1, 2, 3, 4, 5, 6}
  /\ MO!Checks[1] = "stuck" /\ MO!Checks[2] = "paused" /\ MO!Checks[3] = "levels"
  /\ MO!Checks[4] = "stale" /\ MO!Checks[5] = "consent" /\ MO!Checks[6] = "disk"
BY DEF MO!Checks

\* What each of them finds.
LEMMA FindingsOf ==
  /\ MO!Findings("stuck")   = {k \in MO!Stuck : MO!Memory(k) \notin alerts}
  /\ MO!Findings("paused")  = {k \in MO!Paused : MO!Memory(k) \notin alerts}
  /\ MO!Findings("levels")  = {k \in MO!Leveled : MO!Memory(k) \notin alerts}
  /\ MO!Findings("stale")   = {k \in MO!Stale : MO!Memory(k) \notin alerts}
  /\ MO!Findings("consent") = {k \in MO!Expiring : MO!Memory(k) \notin alerts}
  /\ MO!Findings("disk")    = {k \in MO!LowDisks : MO!Memory(k) \notin alerts}
BY DEF MO!Findings

\* The actions and the episodes of what they find.
LEMMA KeysOf ==
  /\ \A k \in MO!Stuck : k.action = "alert_stuck_workflow" /\ k = MO!Key(k.action, k.subject, 0)
  /\ \A k \in MO!Paused : k.action = "alert_abandoned_pause" /\ k = MO!Key(k.action, k.subject, 0)
  /\ \A k \in MO!Leveled : k.action = "alert_high" /\ k.subject \in highs
  /\ \A k \in MO!Stale : k.action = "alert_stale_trigger"
  /\ \A k \in MO!Expiring : k.action = "alert_trigger_consent_expiring"
  /\ \A k \in MO!LowDisks :
       /\ k.action = "alert_low_disk" /\ k.episode = clock
       /\ \A e \in entries : e.key.action = "alert_low_disk" /\ e.key.subject = k.subject =>
            clock - e.key.episode >= MO!DiskRepeat
BY DEF MO!Stuck, MO!Paused, MO!Leveled, MO!Stale, MO!Expiring, MO!LowDisks, MO!Key, MO!LevelKey, MO!StaleKey,
       MO!ConsentKey, MO!DiskKey

\* What a key is remembered by is of its action and subject, and is the key
\* unless it is of a stale trigger.
LEMMA Remembered ==
  /\ \A a, s, n : LET k == MO!Key(a, s, n) IN
       /\ MO!Memory(k).action = a /\ MO!Memory(k).subject = s
       /\ a # "alert_stale_trigger" => MO!Memory(k) = k
BY DEF MO!Memory, MO!Key

\* Any finding is a key of one of the six alerts.
LEMMA FoundKey ==
  ASSUME NEW c \in 1 .. 6, NEW k \in MO!Findings(MO!Checks[c])
  PROVE  /\ MO!Memory(k) \notin alerts
         /\ MO!Memory(k).action = k.action /\ MO!Memory(k).subject = k.subject
         /\ k.action # "alert_stale_trigger" => MO!Memory(k) = k
         /\ k.action \in {"alert_stuck_workflow", "alert_abandoned_pause"} => k = MO!Key(k.action, k.subject, 0)
         /\ k.action = "alert_high" => k.subject \in highs
         /\ k.action = "alert_low_disk" =>
              /\ k.episode = clock
              /\ \A e \in entries : e.key.action = "alert_low_disk" /\ e.key.subject = k.subject =>
                   clock - e.key.episode >= MO!DiskRepeat
         /\ k.action \in {"alert_stuck_workflow", "alert_abandoned_pause", "alert_high", "alert_stale_trigger",
                          "alert_trigger_consent_expiring", "alert_low_disk"}
<1>1. k \in MO!Stuck \/ k \in MO!Paused \/ k \in MO!Leveled \/ k \in MO!Stale \/ k \in MO!Expiring \/ k \in MO!LowDisks
  BY SixChecks, FindingsOf
<1>2. MO!Memory(k) \notin alerts
  BY SixChecks, FindingsOf
<1>3. \E a, s, n : k = MO!Key(a, s, n)
  BY <1>1 DEF MO!Stuck, MO!Paused, MO!Leveled, MO!Stale, MO!Expiring, MO!LowDisks, MO!LevelKey, MO!StaleKey,
              MO!ConsentKey, MO!DiskKey
<1>4. PICK a, s, n : k = MO!Key(a, s, n)
  BY <1>3
<1>5. k.action = a /\ k.subject = s
  BY <1>4 DEF MO!Key
<1>6. /\ MO!Memory(k).action = k.action /\ MO!Memory(k).subject = k.subject
      /\ k.action # "alert_stale_trigger" => MO!Memory(k) = k
  BY <1>4, <1>5, Remembered
<1>. QED
  BY <1>1, <1>2, <1>6, KeysOf

\* Said stays said.
LEMMA StaysSaid ==
  ASSUME entries \subseteq entries', losses \subseteq losses'
  PROVE  /\ \A a, s : MO!Said(a, s) => MO!Said(a, s)'
         /\ \A k : MO!InLog(k) => MO!InLog(k)'
         /\ \A a, s : MO!Lost(a, s) => MO!Lost(a, s)'
BY DEF MO!Said, MO!InLog, MO!Lost

-----------------------------------------------------------------------------
\* While the platform stands still, what is remembered only makes a check find
\* less.
LEMMA FindingsShrink ==
  ASSUME MonitoringType, UNCHANGED <<clock, machine, consents, lows, highs>>,
         alerts \subseteq alerts', entries \subseteq entries',
         \A k \in Levels : raised'[k] = raised[k] \/ raised'[k] = clock
  PROVE  \A c \in 1 .. 6 : MO!Findings(MO!Checks[c])' \subseteq MO!Findings(MO!Checks[c])
<1>1. MO!Stuck' = MO!Stuck /\ MO!Paused' = MO!Paused
  BY DEF MO!Stuck, MO!Paused, MO!Idle
<1>2. MO!Stale' = MO!Stale
  BY DEF MO!Stale, MO!IsStale, MO!StaleKey, MO!LastRun, MO!Started
<1>3. MO!Expiring' = MO!Expiring
  BY DEF MO!Expiring, MO!ConsentKey
<1>4. \A k \in highs : clock - raised'[k] >= MO!LevelWindow => clock - raised[k] >= MO!LevelWindow
  BY DEF MonitoringType, MO!LevelWindow
<1>5. MO!Leveled' \subseteq MO!Leveled
  BY <1>4 DEF MO!Leveled, MO!LevelKey
<1>6. MO!LowDisks' \subseteq MO!LowDisks
  BY DEF MO!LowDisks, MO!DiskKey
<1>7. \A k : MO!Memory(k)' = MO!Memory(k)
  BY DEF MO!Memory
<1>8. /\ MO!Findings("stuck")'   = {k \in MO!Stuck' : MO!Memory(k) \notin alerts'}
      /\ MO!Findings("paused")'  = {k \in MO!Paused' : MO!Memory(k) \notin alerts'}
      /\ MO!Findings("levels")'  = {k \in MO!Leveled' : MO!Memory(k) \notin alerts'}
      /\ MO!Findings("stale")'   = {k \in MO!Stale' : MO!Memory(k) \notin alerts'}
      /\ MO!Findings("consent")' = {k \in MO!Expiring' : MO!Memory(k) \notin alerts'}
      /\ MO!Findings("disk")'    = {k \in MO!LowDisks' : MO!Memory(k) \notin alerts'}
  BY <1>7 DEF MO!Findings
<1>9. \A c \in {"stuck", "paused", "levels", "stale", "consent", "disk"} :
        MO!Findings(c)' \subseteq MO!Findings(c)
  BY <1>1, <1>2, <1>3, <1>5, <1>6, <1>8, FindingsOf
<1>10. \A c \in 1 .. 6 : MO!Checks[c] \in {"stuck", "paused", "levels", "stale", "consent", "disk"}
                        /\ (MO!Findings(MO!Checks[c]))' = MO!Findings(MO!Checks[c])'
  BY SixChecks
<1>. QED
  BY <1>9, <1>10

\* Nothing that the log or the notifier holds is touched.
LEMMA AlertsStay ==
  ASSUME MonitoringInv, UNCHANGED <<alerts, entries, losses, letters, memo, boots>>, clock' \in Nat, clock <= clock'
  PROVE  AlertedInv' /\ EntryInv' /\ EpisodesOnce' /\ LetterInv' /\ LettersSpaced'
<1>1. AlertedInv'
  BY DEF MonitoringInv, AlertedInv, MO!Said, MO!Lost, MO!InLog
<1>2. EntryInv'
  BY DEF MonitoringInv, MonitoringType, EntryInv
<1>3. EpisodesOnce'
  BY DEF MonitoringInv, EpisodesOnce
<1>4. LetterInv'
  BY DEF MonitoringInv, MonitoringType, LetterInv
<1>5. LettersSpaced'
  BY DEF MonitoringInv, LettersSpaced, Hourly
<1>. QED
  BY <1>1, <1>2, <1>3, <1>4, <1>5

\* The platform between two rounds.
LEMMA ChangeStep ==
  ASSUME MonitoringInv, \/ \E i \in Instances : MO!Change(i)
                        \/ MO!World
  PROVE  MonitoringInv'
<1>1. turn = 0 /\ UNCHANGED <<clock, turn, alerts, raised, entries, losses, letters, memo, boots>>
  BY DEF MO!Change, MO!World, MO!Changing
<1>2. AlertedInv' /\ EntryInv' /\ EpisodesOnce' /\ LetterInv' /\ LettersSpaced'
  BY <1>1, AlertsStay DEF MonitoringInv, MonitoringType
<1>3. RoundInv'
  BY <1>1 DEF RoundInv
<1>4. MonitoringType'
  <2>1. CASE \E i \in Instances : MO!Change(i)
    <3>1. PICK i \in Instances : MO!Change(i)
      BY <2>1
    <3> DEFINE old == machine[i]
               R == [state : {"absent", "running", "paused", "ended"}, started : Int, active : Int]
    <3>2. old \in R /\ old.started <= old.active /\ old.started <= clock /\ clock \in Int
      BY DEF MonitoringInv, MonitoringType
    <3>3. PICK new : /\ machine' = [machine EXCEPT ![i] = new]
                     /\ \/ new = [state |-> "running", started |-> clock, active |-> clock]
                        \/ old.state = "running" /\ new = [old EXCEPT !.active = clock]
                        \/ new = [old EXCEPT !.state = "ended"]
                        \/ new = [old EXCEPT !.state = "paused"]
                        \/ new = [old EXCEPT !.state = "running"]
      BY Zenon, <3>1 DEF MO!Change
    <3>4. new \in R /\ new.started <= new.active /\ new.started <= clock
      <4> HIDE DEF old
      <4>. QED
        BY <3>2, <3>3
    <3>5. UNCHANGED highs
      BY <3>1 DEF MO!Change
    <3>. QED
      BY <1>1, <3>3, <3>4, <3>5 DEF MonitoringInv, MonitoringType
  <2>2. CASE MO!World
    <3>1. highs' \subseteq Levels
      BY <2>2 DEF MO!World, MO!Flip, MonitoringInv, MonitoringType
    <3>. QED
      BY <1>1, <2>2, <3>1 DEF MO!World, MonitoringInv, MonitoringType
  <2>. QED
    BY <2>1, <2>2
<1>. QED
  BY <1>2, <1>3, <1>4 DEF MonitoringInv

\* A round begins, passes a check that finds nothing, or ends.
LEMMA RoundStep ==
  ASSUME MonitoringInv, MO!Begin \/ MO!Checked \/ MO!End
  PROVE  MonitoringInv'
<1>1. /\ UNCHANGED <<machine, highs, alerts, entries, losses, letters, memo, boots>>
      /\ clock' \in Nat /\ clock <= clock'
  BY DEF MO!Begin, MO!Checked, MO!End, MonitoringInv, MonitoringType
<1>2. AlertedInv' /\ EntryInv' /\ EpisodesOnce' /\ LetterInv' /\ LettersSpaced'
  BY <1>1, AlertsStay
<1>3. CASE MO!Begin
  <2>1. turn' = 1 /\ raised' = [k \in Levels |-> IF k \in highs THEN raised[k] ELSE MO!Never]
    BY <1>3 DEF MO!Begin
  <2>2. MO!Never \in Int /\ raised' \in [Levels -> Int]
    BY <2>1 DEF MO!Never, MonitoringInv, MonitoringType
  <2>3. MonitoringType'
    BY <1>1, <2>1, <2>2 DEF MonitoringInv, MonitoringType
  <2>4. RoundInv'
    BY <2>1 DEF RoundInv
  <2>. QED
    BY <1>2, <2>3, <2>4 DEF MonitoringInv
<1>4. CASE MO!Checked
  <2> DEFINE ahead == {r \in turn + 1 .. 6 : MO!Findings(MO!Checks[r]) # {}} \cup {7}
  <2>1. /\ UNCHANGED <<clock, consents, lows, raised>> /\ turn \in 1 .. 6
        /\ MO!Findings(MO!Checks[turn]) = {}
        /\ turn' = CHOOSE r \in ahead : \A x \in ahead : r <= x
    BY <1>4, SixChecks DEF MO!Checked
  <2>2. ahead \subseteq Nat /\ ahead # {} /\ 7 \in ahead /\ \A r \in ahead : turn < r
    BY <2>1
  <2>3. turn' \in ahead /\ \A x \in ahead : turn' <= x
    <3> HIDE DEF ahead
    <3>1. \E r \in ahead : \A x \in ahead : r <= x
      BY <2>2, SmallestOf
    <3>. QED
      BY <2>1, <3>1
  <2>4. turn' \in 1 .. 7
    <3> HIDE DEF ahead
    <3>1. turn' \in Nat /\ turn' <= 7 /\ turn < turn'
      BY <2>2, <2>3
    <3>. QED
      BY <2>1, <3>1
  <2>5. ASSUME NEW c \in 1 .. 6, c < turn'
        PROVE  MO!Findings(MO!Checks[c]) = {}
    <3>1. CASE c < turn
      BY <3>1 DEF MonitoringInv, RoundInv
    <3>2. CASE c = turn
      BY <2>1, <3>2
    <3>3. CASE c > turn
      <4>1. c \in turn + 1 .. 6
        BY <2>1, <3>3
      <4>2. c \notin ahead
        <5> HIDE DEF ahead
        <5>. QED
          BY <2>3, <2>4, <2>5
      <4>. QED
        BY <4>1, <4>2
    <3>. QED
      BY <2>1, <3>1, <3>2, <3>3
  <2>6. \A c \in 1 .. 6 : MO!Findings(MO!Checks[c])' \subseteq MO!Findings(MO!Checks[c])
    <3>1. \A k \in Levels : raised'[k] = raised[k] \/ raised'[k] = clock
      BY <2>1
    <3>. QED
      BY <1>1, <2>1, <3>1, FindingsShrink DEF MonitoringInv
  <2>7. RoundInv'
    BY <2>5, <2>6 DEF RoundInv
  <2>8. MonitoringType'
    BY <1>1, <2>1, <2>4 DEF MonitoringInv, MonitoringType
  <2>. QED
    BY <1>2, <2>7, <2>8 DEF MonitoringInv
<1>5. CASE MO!End
  <2>1. turn' = 0 /\ UNCHANGED <<clock, raised>>
    BY <1>5 DEF MO!End
  <2>2. RoundInv'
    BY <2>1 DEF RoundInv
  <2>3. MonitoringType'
    BY <1>1, <2>1 DEF MonitoringInv, MonitoringType
  <2>. QED
    BY <1>2, <2>2, <2>3 DEF MonitoringInv
<1>. QED
  BY <1>3, <1>4, <1>5

\* What a report does with its finding: an entry, an alert known already, or a
\* write that failed.
LEMMA ReportFacts ==
  ASSUME MonitoringInv, MO!Report
  PROVE  /\ turn \in 1 .. 6 /\ UNCHANGED <<clock, machine, consents, lows, highs, letters, memo, boots>>
         /\ \E k \in MO!Findings(MO!Checks[turn]) :
              /\ alerts' = IF k.action \in {"alert_low_disk", "alert_high"} THEN alerts
                           ELSE alerts \cup {MO!Memory(k)}
              /\ raised' = IF k.action = "alert_high" THEN [raised EXCEPT ![k.subject] = clock] ELSE raised
              /\ \/ MO!Known(k) /\ UNCHANGED <<turn, entries, losses>>
                 \/ /\ ~MO!Known(k) /\ UNCHANGED <<turn, losses>>
                    /\ entries' = entries \cup {[key |-> k, at |-> clock, boot |-> boots]}
                 \/ turn' = 0 /\ entries' = entries /\ losses' = losses \cup {k}
BY Zenon, SixChecks DEF MO!Report

\* A finding is reported.
LEMMA ReportStep ==
  ASSUME MonitoringInv, MO!Report
  PROVE  MonitoringInv'
<1>1. turn \in 1 .. 6 /\ UNCHANGED <<clock, machine, consents, lows, highs, letters, memo, boots>>
  BY ReportFacts
<1>2. PICK k \in MO!Findings(MO!Checks[turn]) :
        /\ alerts' = IF k.action \in {"alert_low_disk", "alert_high"} THEN alerts
                     ELSE alerts \cup {MO!Memory(k)}
        /\ raised' = IF k.action = "alert_high" THEN [raised EXCEPT ![k.subject] = clock] ELSE raised
        /\ \/ MO!Known(k) /\ UNCHANGED <<turn, entries, losses>>
           \/ /\ ~MO!Known(k) /\ UNCHANGED <<turn, losses>>
              /\ entries' = entries \cup {[key |-> k, at |-> clock, boot |-> boots]}
           \/ turn' = 0 /\ entries' = entries /\ losses' = losses \cup {k}
  BY ReportFacts
<1> DEFINE m == MO!Memory(k)
           entry == [key |-> k, at |-> clock, boot |-> boots]
<1>3. /\ m \notin alerts /\ m.action = k.action /\ m.subject = k.subject
      /\ k.action # "alert_stale_trigger" => m = k
      /\ k.action \in {"alert_stuck_workflow", "alert_abandoned_pause"} => k = MO!Key(k.action, k.subject, 0)
      /\ k.action = "alert_high" => k.subject \in highs
      /\ k.action = "alert_low_disk" =>
           /\ k.episode = clock
           /\ \A e \in entries : e.key.action = "alert_low_disk" /\ e.key.subject = k.subject =>
                clock - e.key.episode >= MO!DiskRepeat
      /\ k.action \in {"alert_stuck_workflow", "alert_abandoned_pause", "alert_high", "alert_stale_trigger",
                       "alert_trigger_consent_expiring", "alert_low_disk"}
  BY <1>1, <1>2, FoundKey
<1>4. /\ entries \subseteq entries' /\ losses \subseteq losses' /\ alerts \subseteq alerts'
      /\ entry.key = k /\ entry.at = clock /\ entry.boot = boots
      /\ entries' = entries \/ (entries' = entries \cup {entry} /\ ~MO!Known(k))
      /\ k \in losses' \/ entry \in entries' \/ MO!Known(k)
      /\ alerts' \subseteq alerts \cup {m}
      /\ k.action \notin {"alert_low_disk", "alert_high"} => m \in alerts'
      /\ k.action \in {"alert_low_disk", "alert_high"} => alerts' = alerts
  BY <1>2
<1> HIDE DEF m, entry
<1>5. \A j \in Levels : raised'[j] = raised[j] \/ raised'[j] = clock
  BY <1>2 DEF MonitoringInv, MonitoringType
<1>6. MonitoringType'
  <2>1. raised' \in [Levels -> Int]
    <3>1. raised \in [Levels -> Int] /\ clock \in Int
      BY DEF MonitoringInv, MonitoringType
    <3>. QED
      BY Zenon, <1>2, <3>1
  <2>2. turn' \in 0 .. 7
    BY <1>1, <1>2
  <2>. QED
    BY <1>1, <2>1, <2>2 DEF MonitoringInv, MonitoringType
<1>7. RoundInv'
  <2>1. \A c \in 1 .. 6 : MO!Findings(MO!Checks[c])' \subseteq MO!Findings(MO!Checks[c])
    BY <1>1, <1>4, <1>5, FindingsShrink DEF MonitoringInv
  <2>2. turn' = turn \/ turn' = 0
    BY <1>2
  <2>. QED
    BY <2>1, <2>2 DEF MonitoringInv, RoundInv
<1>8. AlertedInv'
  <2>1. ASSUME NEW j \in alerts
        PROVE  /\ j.action \in {"alert_stuck_workflow", "alert_abandoned_pause", "alert_stale_trigger",
                                "alert_trigger_consent_expiring"}
               /\ MO!Said(j.action, j.subject)'
               /\ j.action = "alert_trigger_consent_expiring" => MO!InLog(j)' \/ MO!Lost(j.action, j.subject)'
    BY <1>4, StaysSaid DEF MonitoringInv, AlertedInv
  <2>2. MO!InLog(k)' \/ MO!Lost(k.action, k.subject)'
    <3>1. CASE MO!Known(k)
      BY <1>4, <3>1, StaysSaid DEF MO!Known
    <3>2. CASE entry \in entries'
      BY <1>4, <3>2 DEF MO!InLog
    <3>3. CASE k \in losses'
      BY <3>3 DEF MO!Lost
    <3>. QED
      BY <1>4, <3>1, <3>2, <3>3
  <2>3. MO!Said(k.action, k.subject)'
    BY <2>2 DEF MO!Said, MO!InLog
  <2>4. m \in alerts' => /\ m.action \in {"alert_stuck_workflow", "alert_abandoned_pause", "alert_stale_trigger",
                                          "alert_trigger_consent_expiring"}
                         /\ MO!Said(m.action, m.subject)'
                         /\ m.action = "alert_trigger_consent_expiring" =>
                              MO!InLog(m)' \/ MO!Lost(m.action, m.subject)'
    <3> SUFFICES ASSUME m \in alerts' PROVE k.action \notin {"alert_low_disk", "alert_high"}
      BY <1>3, <2>2, <2>3
    <3>. QED
      BY <1>3, <1>4
  <2>. QED
    BY <1>4, <2>1, <2>4 DEF AlertedInv
<1>9. EntryInv'
  <2>1. ASSUME NEW e \in entries, e.key.action \in {"alert_stuck_workflow", "alert_abandoned_pause"}
        PROVE  e.key = MO!Key(e.key.action, e.key.subject, 0) /\ (e.boot = boots => e.key \in alerts')
    BY <1>4, <2>1 DEF MonitoringInv, EntryInv
  <2>2. k.action \in {"alert_stuck_workflow", "alert_abandoned_pause"} => k \in alerts'
    BY <1>3, <1>4
  <2>3. clock \in Nat /\ boots \in Nat
    BY DEF MonitoringInv, MonitoringType
  <2>4. \A e \in entries : /\ e.key.action = "alert_low_disk" => e.key.episode = e.at
                           /\ e.at \in Nat /\ e.at <= clock /\ e.boot \in Nat /\ e.boot <= boots
    BY DEF MonitoringInv, EntryInv
  <2>5. ASSUME NEW e, e = entry
        PROVE  /\ e.key.action \in {"alert_stuck_workflow", "alert_abandoned_pause"} =>
                    e.key = MO!Key(e.key.action, e.key.subject, 0) /\ e.key \in alerts'
               /\ e.key.action = "alert_low_disk" => e.key.episode = e.at
               /\ e.at \in Nat /\ e.at <= clock /\ e.boot \in Nat /\ e.boot <= boots
    BY <1>3, <1>4, <2>2, <2>3, <2>5
  <2>6. \A e \in entries' : e \in entries \/ e = entry
    BY <1>4
  <2>. QED
    BY Zenon, <1>1, <2>1, <2>4, <2>5, <2>6 DEF EntryInv, MO!Key
<1>10. EpisodesOnce'
  <2> DEFINE Apart(d, e) ==
        /\ d.key.action \in {"alert_stale_trigger", "alert_trigger_consent_expiring"} => d.key # e.key
        /\ d.key.action \in {"alert_stuck_workflow", "alert_abandoned_pause"} => d.boot # e.boot
        /\ d.key.action = "alert_low_disk" => d.at - e.at \notin (1 - MO!DiskRepeat) .. (MO!DiskRepeat - 1)
  <2>1. \A d, e \in entries : d # e /\ d.key.action = e.key.action /\ d.key.subject = e.key.subject => Apart(d, e)
    BY DEF MonitoringInv, EpisodesOnce
  <2>2. ASSUME NEW d \in entries, ~MO!Known(k), d.key.action = k.action, d.key.subject = k.subject
        PROVE  Apart(d, entry) /\ Apart(entry, d)
    <3>1. k.action \in {"alert_stale_trigger", "alert_trigger_consent_expiring"} => d.key # k
      BY <2>2 DEF MO!Known, MO!InLog
    <3>2. k.action \in {"alert_stuck_workflow", "alert_abandoned_pause"} => d.boot # boots
      <4> SUFFICES ASSUME k.action \in {"alert_stuck_workflow", "alert_abandoned_pause"}, d.boot = boots
                   PROVE  FALSE
        OBVIOUS
      <4>1. d.key = k /\ d.key \in alerts
        BY <1>3, <2>2 DEF MonitoringInv, EntryInv
      <4>. QED
        BY <1>3, <4>1
    <3>3. k.action = "alert_low_disk" => /\ d.at - clock \notin (1 - MO!DiskRepeat) .. (MO!DiskRepeat - 1)
                                         /\ clock - d.at \notin (1 - MO!DiskRepeat) .. (MO!DiskRepeat - 1)
      <4> SUFFICES ASSUME k.action = "alert_low_disk"
                   PROVE  /\ d.at - clock \notin (1 - MO!DiskRepeat) .. (MO!DiskRepeat - 1)
                          /\ clock - d.at \notin (1 - MO!DiskRepeat) .. (MO!DiskRepeat - 1)
        OBVIOUS
      <4>1. d.key.episode = d.at /\ d.at \in Nat /\ clock \in Nat
        BY <2>2 DEF MonitoringInv, MonitoringType, EntryInv
      <4>2. clock - d.at >= MO!DiskRepeat
        BY <1>3, <2>2, <4>1
      <4> HIDE DEF m
      <4>. QED
        BY <4>1, <4>2 DEF MO!DiskRepeat
    <3>. QED
      BY <1>4, <2>2, <3>1, <3>2, <3>3
  <2> HIDE DEF Apart
  <2>3. \A d, e \in entries' : d # e /\ d.key.action = e.key.action /\ d.key.subject = e.key.subject => Apart(d, e)
    BY <1>4, <2>1, <2>2
  <2>. QED
    BY <2>3 DEF EpisodesOnce, Apart
<1>11. LetterInv' /\ LettersSpaced'
  BY Zenon, <1>1 DEF MonitoringInv, LetterInv, LettersSpaced, Hourly
<1>. QED
  BY <1>6, <1>7, <1>8, <1>9, <1>10, <1>11 DEF MonitoringInv

\* What posting an email adds: the notifier remembers it, and may post it only
\* if neither limit forbids it.
LEMMA HandleFacts ==
  ASSUME MO!Handle
  PROVE  /\ UNCHANGED <<clock, machine, consents, lows, highs, turn, alerts, raised, entries, losses, boots>>
         /\ \/ UNCHANGED <<memo, letters>>
            \/ \E new : /\ new.boot = boots /\ new.mail.at = clock
                        /\ memo' = memo \cup {new.mail} /\ letters' = letters \cup {new}
                        /\ ~\E m \in memo : /\ m.action = new.mail.action /\ m.subject = new.mail.subject
                                            /\ clock - m.at < MO!MailRepeat
                        /\ Cardinality({m \in memo : clock - m.at <= MO!Hour}) < MO!MaxPerHour
<1> DEFINE k == Head(ears)
           mail == [action |-> k.action, subject |-> MO!MailSubject(k), at |-> clock]
           letter(recorded) == [mail |-> mail, of |-> k, boot |-> boots, recorded |-> recorded]
<1>1. /\ UNCHANGED <<clock, machine, consents, lows, highs, turn, alerts, raised, entries, losses, boots>>
      /\ \/ UNCHANGED <<memo, letters>>
         \/ /\ MO!MayMail(k) /\ memo' = memo \cup {mail}
            /\ \E recorded \in BOOLEAN : letters' = letters \cup {letter(recorded)}
  BY Zenon DEF MO!Handle
<1>2. SUFFICES ASSUME MO!MayMail(k), memo' = memo \cup {mail},
                      NEW recorded \in BOOLEAN, letters' = letters \cup {letter(recorded)}
               PROVE  \E new : /\ new.boot = boots /\ new.mail.at = clock
                               /\ memo' = memo \cup {new.mail} /\ letters' = letters \cup {new}
                               /\ ~\E m \in memo : /\ m.action = new.mail.action /\ m.subject = new.mail.subject
                                                   /\ clock - m.at < MO!MailRepeat
                               /\ Cardinality({m \in memo : clock - m.at <= MO!Hour}) < MO!MaxPerHour
  BY Zenon, <1>1
<1> DEFINE new == letter(recorded)
<1>3. new.boot = boots /\ new.mail = mail /\ mail.at = clock
      /\ mail.action = k.action /\ mail.subject = MO!MailSubject(k)
  OBVIOUS
<1>4. ~\E m \in memo : m.action = mail.action /\ m.subject = mail.subject /\ clock - m.at < MO!MailRepeat
  BY <1>2, <1>3 DEF MO!MayMail
<1>5. Cardinality({m \in memo : clock - m.at <= MO!Hour}) < MO!MaxPerHour
  <2> DEFINE M == {m \in memo : clock - m.at <= MO!Hour}
  <2>1. MO!Cardinality(M) < MO!MaxPerHour
    BY <1>2 DEF MO!MayMail
  <2> HIDE DEF M
  <2>2. Cardinality(M) < MO!MaxPerHour
    BY <2>1, MonitoringCardinality
  <2>. QED
    BY <2>2 DEF M
<1>6. letters' = letters \cup {new}
  BY <1>2
<1> HIDE DEF new, mail, k
<1>. QED
  BY Zenon, <1>2, <1>3, <1>4, <1>5, <1>6

\* Two emails of one process are told apart by what the notifier remembers of
\* them, so its memory counts them.
LEMMA HourCounts ==
  ASSUME LetterInv, LettersSpaced, clock \in Nat,
         Cardinality({m \in memo : clock - m.at <= MO!Hour}) < MO!MaxPerHour
  PROVE  LET W == {q \in letters : q.boot = boots /\ clock - q.mail.at \in 0 .. MO!Hour}
         IN IsFiniteSet(W) /\ Cardinality(W) + 1 <= MO!MaxPerHour
<1> DEFINE W == {q \in letters : q.boot = boots /\ clock - q.mail.at \in 0 .. MO!Hour}
           M == {m \in memo : clock - m.at <= MO!Hour}
           f == [q \in W |-> q.mail]
<1>1. IsFiniteSet(M) /\ Cardinality(M) \in Nat
  <2>1. M \in SUBSET memo /\ IsFiniteSet(memo)
    BY DEF LetterInv
  <2>. QED
    BY <2>1, FS_Subset, FS_CardinalityType
<1>2. f \in Injection(W, M)
  <2>1. \A q \in W : q.mail \in M
    BY DEF LetterInv, MO!Hour
  <2>2. ASSUME NEW p \in W, NEW q \in W, p # q
        PROVE  p.mail # q.mail
    <3>1. /\ p \in letters /\ q \in letters /\ p.boot = q.boot /\ p.mail.at \in Nat /\ q.mail.at \in Nat
      BY DEF LetterInv
    <3>2. SUFFICES ASSUME p.mail = q.mail PROVE FALSE
      OBVIOUS
    <3>3. p.mail.at - q.mail.at \notin (1 - MO!MailRepeat) .. (MO!MailRepeat - 1)
      BY <2>2, <3>1, <3>2 DEF LettersSpaced
    <3>4. p.mail.at - q.mail.at = 0
      BY <3>1, <3>2
    <3>. QED
      BY <3>3, <3>4 DEF MO!MailRepeat
  <2>3. f \in [W -> M] /\ \A q \in W : f[q] = q.mail
    BY <2>1
  <2> HIDE DEF f, W, M
  <2>. QED
    BY <2>2, <2>3 DEF Injection, IsInjective
<1>3. IsFiniteSet(W) /\ Cardinality(W) <= Cardinality(M)
  <2> HIDE DEF W, M, f
  <2>. QED
    BY <1>1, <1>2, FS_Injection
<1>4. Cardinality(W) \in Nat
  BY <1>3, FS_CardinalityType
<1>5. Cardinality(M) < MO!MaxPerHour
  OBVIOUS
<1> HIDE DEF W, M
<1>6. Cardinality(W) + 1 <= MO!MaxPerHour
  BY <1>1, <1>3, <1>4, <1>5 DEF MO!MaxPerHour
<1>. QED
  BY <1>3, <1>6 DEF W

\* The notifier takes the next alert it heard.
LEMMA HandleStep ==
  ASSUME MonitoringInv, MO!Handle
  PROVE  MonitoringInv'
<1>1. UNCHANGED <<clock, machine, consents, lows, highs, turn, alerts, raised, entries, losses, boots>>
  BY HandleFacts
<1>2. MonitoringType' /\ AlertedInv' /\ EntryInv' /\ EpisodesOnce'
  BY <1>1 DEF MonitoringInv, MonitoringType, AlertedInv, EntryInv, EpisodesOnce, MO!Said, MO!InLog, MO!Lost
<1>3. RoundInv'
  <2>1. \A c \in 1 .. 6 : MO!Findings(MO!Checks[c])' \subseteq MO!Findings(MO!Checks[c])
    BY <1>1, FindingsShrink DEF MonitoringInv, MonitoringType
  <2>. QED
    BY <1>1, <2>1 DEF MonitoringInv, RoundInv
<1>4. LetterInv' /\ LettersSpaced'
  <2>1. CASE UNCHANGED <<memo, letters>>
    BY Zenon, <1>1, <2>1 DEF MonitoringInv, LetterInv, LettersSpaced, Hourly
  <2>2. CASE ~UNCHANGED <<memo, letters>>
    <3>1. PICK new : /\ new.boot = boots /\ new.mail.at = clock
                     /\ memo' = memo \cup {new.mail} /\ letters' = letters \cup {new}
                     /\ ~\E m \in memo : /\ m.action = new.mail.action /\ m.subject = new.mail.subject
                                         /\ clock - m.at < MO!MailRepeat
                     /\ Cardinality({m \in memo : clock - m.at <= MO!Hour}) < MO!MaxPerHour
      BY Zenon, <2>2, HandleFacts
    <3>2. /\ clock \in Nat /\ boots \in Nat
          /\ \A q \in letters : /\ q.boot \in Nat /\ q.boot <= boots /\ q.mail.at \in Nat /\ q.mail.at <= clock
      BY DEF MonitoringInv, MonitoringType, LetterInv
    <3>3. LetterInv'
      <4>1. IsFiniteSet(memo') /\ IsFiniteSet(letters')
        BY Zenon, <3>1, FS_AddElement DEF MonitoringInv, LetterInv
      <4>2. memo' = {q.mail : q \in {q \in letters' : q.boot = boots}}
        BY <3>1 DEF MonitoringInv, LetterInv
      <4>. QED
        BY <1>1, <3>1, <3>2, <4>1, <4>2 DEF LetterInv
    <3> DEFINE W == {q \in letters : q.boot = boots /\ clock - q.mail.at \in 0 .. MO!Hour}
    <3>4. IsFiniteSet(W) /\ Cardinality(W) \in Nat /\ Cardinality(W) + 1 <= MO!MaxPerHour
      BY <3>1, <3>2, HourCounts, FS_CardinalityType DEF MonitoringInv
    <3>5. Cardinality(W \cup {new}) <= MO!MaxPerHour
      <4> HIDE DEF W
      <4>1. Cardinality(W \cup {new}) = Cardinality(W) \/ Cardinality(W \cup {new}) = Cardinality(W) + 1
        BY <3>4, FS_AddElement
      <4>. QED
        BY <3>4, <4>1 DEF MO!MaxPerHour
    <3>6. ASSUME NEW p \in letters'
          PROVE  Cardinality(Hourly(p)') <= MO!MaxPerHour
      <4>1. Hourly(p)' = {q \in letters' : q.boot = p.boot /\ p.mail.at - q.mail.at \in 0 .. MO!Hour}
        BY DEF Hourly
      <4>2. CASE p.boot = boots /\ p.mail.at = clock
        <5>1. Hourly(p)' = W \cup {new}
          BY <3>1, <3>2, <4>1, <4>2 DEF MO!Hour
        <5>. QED
          BY <3>5, <5>1
      <4>3. CASE ~(p.boot = boots /\ p.mail.at = clock)
        <5>1. p \in letters /\ (p.boot = boots => p.mail.at < clock)
          BY <3>1, <3>2, <4>3
        <5>2. ~(new.boot = p.boot /\ p.mail.at - new.mail.at \in 0 .. MO!Hour)
          BY <3>1, <3>2, <5>1
        <5>3. Hourly(p)' = Hourly(p)
          BY <3>1, <4>1, <5>2 DEF Hourly
        <5>. QED
          BY <5>1, <5>3 DEF MonitoringInv, LettersSpaced
      <4>. QED
        BY <4>2, <4>3
    <3>7. ASSUME NEW p \in letters', NEW q \in letters', q # p, q.boot = p.boot, q.mail.action = p.mail.action,
                 q.mail.subject = p.mail.subject
          PROVE  p.mail.at - q.mail.at \notin (1 - MO!MailRepeat) .. (MO!MailRepeat - 1)
      <4>1. ASSUME NEW x \in letters, x.boot = boots, x.mail.action = new.mail.action,
                   x.mail.subject = new.mail.subject
            PROVE  /\ x.mail.at - clock \notin (1 - MO!MailRepeat) .. (MO!MailRepeat - 1)
                   /\ clock - x.mail.at \notin (1 - MO!MailRepeat) .. (MO!MailRepeat - 1)
        <5>1. x.mail \in memo
          BY <4>1 DEF MonitoringInv, LetterInv
        <5>2. ~(clock - x.mail.at < MO!MailRepeat)
          BY <3>1, <4>1, <5>1
        <5>3. x.mail.at \in Nat
          BY <3>2
        <5>. QED
          BY <3>2, <5>2, <5>3 DEF MO!MailRepeat
      <4>2. CASE p \in letters /\ q \in letters
        BY <3>7, <4>2 DEF MonitoringInv, LettersSpaced
      <4>3. CASE p = new /\ q \in letters
        BY <3>1, <3>7, <4>1, <4>3
      <4>4. CASE q = new /\ p \in letters
        BY <3>1, <3>7, <4>1, <4>4
      <4>. QED
        BY <3>1, <3>7, <4>2, <4>3, <4>4
    <3>8. LettersSpaced'
      BY <3>6, <3>7 DEF LettersSpaced
    <3>. QED
      BY <3>3, <3>8
  <2>. QED
    BY <2>1, <2>2
<1>. QED
  BY <1>2, <1>3, <1>4 DEF MonitoringInv

\* The process starts again: what it remembered is gone, what it wrote is not.
LEMMA RestartStep ==
  ASSUME MonitoringInv, MO!Restart
  PROVE  MonitoringInv'
<1>1. /\ UNCHANGED <<clock, machine, highs, entries, letters, losses>> /\ boots' = boots + 1
      /\ turn' = 0 /\ alerts' = {} /\ memo' = {} /\ raised' = [k \in Levels |-> MO!Never]
  BY DEF MO!Restart
<1>2. boots \in Nat /\ boots' \in Nat /\ boots < boots'
  BY <1>1 DEF MonitoringInv, MonitoringType
<1>3. MonitoringType'
  BY <1>1, <1>2 DEF MonitoringInv, MonitoringType, MO!Never
<1>4. AlertedInv' /\ RoundInv'
  BY <1>1 DEF AlertedInv, RoundInv
<1>5. EntryInv'
  <2>1. \A e \in entries : e.boot \in Nat /\ e.boot <= boots' /\ e.boot # boots'
    BY <1>2 DEF MonitoringInv, EntryInv
  <2>. QED
    BY Zenon, <1>1, <2>1 DEF MonitoringInv, EntryInv, MO!Key
<1>6. EpisodesOnce' /\ LettersSpaced'
  BY <1>1 DEF MonitoringInv, EpisodesOnce, LettersSpaced, Hourly
<1>7. LetterInv'
  <2>1. \A q \in letters : q.boot \in Nat /\ q.boot <= boots' /\ q.boot # boots'
    BY <1>2 DEF MonitoringInv, LetterInv
  <2>. QED
    BY <1>1, <2>1, FS_EmptySet DEF MonitoringInv, LetterInv
<1>. QED
  BY <1>3, <1>4, <1>5, <1>6, <1>7 DEF MonitoringInv

\* The invariant over every step of the loop, the notifier and the platform.
LEMMA MonitoringStep ==
  ASSUME MonitoringInv, MO!Next
  PROVE  MonitoringInv'
BY ChangeStep, RoundStep, ReportStep, HandleStep, RestartStep DEF MO!Next

\* The invariant before the first round.
LEMMA MonitoringInitially ==
  ASSUME MO!Init
  PROVE  MonitoringInv
<1>1. /\ clock = 1 /\ machine = [i \in Instances |-> MO!Absent] /\ highs = {} /\ turn = 0 /\ alerts = {}
      /\ raised = [k \in Levels |-> MO!Never] /\ entries = {} /\ memo = {} /\ letters = {} /\ boots = 0
  BY DEF MO!Init
<1>2. MonitoringType
  BY <1>1 DEF MonitoringType, MO!Absent, MO!Never
<1>3. AlertedInv /\ EntryInv /\ EpisodesOnce /\ RoundInv /\ LettersSpaced
  BY <1>1 DEF AlertedInv, EntryInv, EpisodesOnce, RoundInv, LettersSpaced
<1>4. LetterInv
  BY <1>1, FS_EmptySet DEF LetterInv
<1>. QED
  BY <1>2, <1>3, <1>4 DEF MonitoringInv

\* What the invariant promises: an episode is alerted on once, and a round
\* that is over has said what it found.
LEMMA MonitoringPromise ==
  ASSUME MonitoringInv
  PROVE  MO!OncePerEpisode /\ MO!RoundsReport
<1>1. MO!OncePerEpisode
  <2>1. ASSUME NEW p \in letters
        PROVE  MO!Cardinality({q \in letters : q.boot = p.boot /\ p.mail.at - q.mail.at \in 0 .. MO!Hour})
                 <= MO!MaxPerHour
    <3>1. Cardinality(Hourly(p)) <= MO!MaxPerHour
      BY DEF MonitoringInv, LettersSpaced
    <3>2. MO!Cardinality(Hourly(p)) <= MO!MaxPerHour
      BY <3>1, MonitoringCardinality
    <3>. QED
      BY <3>2 DEF Hourly
  <2>2. ASSUME NEW p \in letters, NEW q \in letters, q # p, q.boot = p.boot,
               q.mail.action = p.mail.action, q.mail.subject = p.mail.subject
        PROVE  p.mail.at - q.mail.at \notin (1 - MO!MailRepeat) .. (MO!MailRepeat - 1)
    BY <2>2 DEF MonitoringInv, LettersSpaced
  <2>3. EpisodesOnce
    BY DEF MonitoringInv
  <2>. QED
    BY <2>1, <2>2, <2>3, Zenon DEF EpisodesOnce, MO!OncePerEpisode
<1>2. ASSUME turn = 7
      PROVE  /\ \A i \in MO!Started :
                  /\ machine[i].state = "running" /\ clock - machine[i].active >= MO!StuckAfter =>
                       MO!Said("alert_stuck_workflow", i)
                  /\ machine[i].state = "paused" /\ clock - machine[i].active >= MO!PausedAfter =>
                       MO!Said("alert_abandoned_pause", i)
             /\ \A k \in MO!Stale : MO!Said(k.action, k.subject)
             /\ \A k \in MO!Expiring : MO!InLog(k) \/ MO!Lost(k.action, k.subject)
             /\ MO!LowDisks = {} /\ MO!Leveled = {}
  <2>1. \A c \in 1 .. 6 : MO!Findings(MO!Checks[c]) = {}
    BY <1>2 DEF MonitoringInv, RoundInv
  <2>2. /\ \A k \in MO!Stuck : MO!Memory(k) \in alerts
        /\ \A k \in MO!Paused : MO!Memory(k) \in alerts
        /\ \A k \in MO!Leveled : MO!Memory(k) \in alerts
        /\ \A k \in MO!Stale : MO!Memory(k) \in alerts
        /\ \A k \in MO!Expiring : MO!Memory(k) \in alerts
        /\ \A k \in MO!LowDisks : MO!Memory(k) \in alerts
    BY <2>1, SixChecks, FindingsOf
  <2>3. \A i \in MO!Started : i \in Instances /\ machine[i].started <= machine[i].active
                              /\ machine[i].started \in Int /\ machine[i].active \in Int /\ clock \in Int
    BY DEF MonitoringInv, MonitoringType, MO!Started
  <2>4. ASSUME NEW i \in MO!Started, machine[i].state = "running", clock - machine[i].active >= MO!StuckAfter
        PROVE  MO!Said("alert_stuck_workflow", i)
    <3>1. MO!Idle(i, "running", MO!StuckAfter)
      BY <2>3, <2>4 DEF MO!Idle, MO!StuckAfter
    <3>2. MO!Key("alert_stuck_workflow", i, 0) \in MO!Stuck
      BY <2>3, <3>1 DEF MO!Stuck
    <3>. QED
      BY <2>2, <3>2, Remembered DEF MonitoringInv, AlertedInv
  <2>5. ASSUME NEW i \in MO!Started, machine[i].state = "paused", clock - machine[i].active >= MO!PausedAfter
        PROVE  MO!Said("alert_abandoned_pause", i)
    <3>1. MO!Idle(i, "paused", MO!PausedAfter)
      BY <2>3, <2>5 DEF MO!Idle, MO!PausedAfter
    <3>2. MO!Key("alert_abandoned_pause", i, 0) \in MO!Paused
      BY <2>3, <3>1 DEF MO!Paused
    <3>. QED
      BY <2>2, <3>2, Remembered DEF MonitoringInv, AlertedInv
  <2>6. \A k \in MO!Stale : MO!Said(k.action, k.subject)
    <3> TAKE k \in MO!Stale
    <3>1. PICK a, s, n : k = MO!Key(a, s, n)
      BY DEF MO!Stale, MO!StaleKey
    <3>2. k.action = a /\ k.subject = s
      BY <3>1 DEF MO!Key
    <3>. QED
      BY <2>2, <3>1, <3>2, Remembered DEF MonitoringInv, AlertedInv
  <2>7. \A k \in MO!Expiring : MO!InLog(k) \/ MO!Lost(k.action, k.subject)
    <3> TAKE k \in MO!Expiring
    <3>1. PICK s, n : k = MO!Key("alert_trigger_consent_expiring", s, n)
      BY DEF MO!Expiring, MO!ConsentKey
    <3>2. MO!Memory(k) = k /\ k.action = "alert_trigger_consent_expiring"
      BY <3>1, Remembered DEF MO!Key
    <3>. QED
      BY <2>2, <3>2 DEF MonitoringInv, AlertedInv
  <2>8. MO!LowDisks = {} /\ MO!Leveled = {}
    <3>1. ASSUME NEW k \in MO!LowDisks \cup MO!Leveled
          PROVE  FALSE
      <4>1. PICK a, s, n : k = MO!Key(a, s, n) /\ a \in {"alert_low_disk", "alert_high"}
        BY DEF MO!LowDisks, MO!Leveled, MO!DiskKey, MO!LevelKey
      <4>2. MO!Memory(k) \in alerts /\ MO!Memory(k).action = a
        BY <2>2, <4>1, Remembered
      <4>. QED
        BY <4>1, <4>2 DEF MonitoringInv, AlertedInv
    <3>. QED
      BY <3>1
  <2>. QED
    BY <2>4, <2>5, <2>6, <2>7, <2>8
<1>3. MO!RoundsReport
  <2>1. Len(MO!Checks) + 1 = 7
    BY SixChecks
  <2>. QED
    BY <1>2, <2>1 DEF MO!RoundsReport
<1>. QED
  BY <1>1, <1>3

\* However many instances, triggers and disks there are, whenever the process
\* restarts and whatever writes and sends fail: an episode is alerted on once,
\* a subject mailed about once in the repeat and within the hour's allowance,
\* and a round that is over has said what it found (MonitoringService,
\* MonitoringNotifier).
THEOREM AlertsOncePerEpisode == Spec => []AlertsAreAccountedFor
<1> DEFINE Inv == part = "monitoring" => MonitoringInv
<1>1. Init => Inv
  BY MonitoringInitially DEF Init
<1>2. Inv /\ [Next]_all => Inv'
  <2>1. ASSUME Inv, Next PROVE Inv'
    BY <2>1, MonitoringStep DEF Next
  <2>2. ASSUME Inv, UNCHANGED all PROVE Inv'
    <3> SUFFICES ASSUME MonitoringInv PROVE MonitoringInv'
      BY <2>2 DEF all
    <3>1. /\ UNCHANGED <<clock, machine, consents, lows, highs, turn, alerts, raised, entries>>
          /\ UNCHANGED <<losses, letters, memo, boots>>
      BY <2>2 DEF all
    <3>2. MonitoringType'
      BY <3>1 DEF MonitoringInv, MonitoringType
    <3>3. RoundInv'
      BY <3>1, FindingsShrink DEF MonitoringInv, RoundInv
    <3>4. clock' \in Nat /\ clock <= clock'
      BY <3>1 DEF MonitoringInv, MonitoringType
    <3>. QED
      BY <3>1, <3>2, <3>3, <3>4, AlertsStay DEF MonitoringInv
  <2>. QED
    BY <2>1, <2>2
<1>3. Inv => AlertsAreAccountedFor
  BY MonitoringPromise DEF AlertsAreAccountedFor
<1>. QED
  BY <1>1, <1>2, <1>3, PTL DEF Spec

-----------------------------------------------------------------------------
(* WorkflowAdmin.                                                          *)

definitions == v1   \* its defs
rows        == v2   \* its inst
completed   == v3   \* its done
made        == v4   \* its created
forked      == v6   \* its forks
drives      == v7   \* its drivers
requests    == v9   \* its calls
trail       == v10  \* its audit
acted       == v11  \* its changed
kills       == v13  \* its crashes

\* The tables, as far as ids have been given out.
AdminType ==
  /\ made \in Nat /\ made <= MaxInstances /\ kills \in Nat
  /\ DOMAIN rows = WA!Ids /\ DOMAIN completed = WA!Ids /\ DOMAIN drives = WA!Ids /\ DOMAIN requests = Clients
  /\ \A i \in WA!Ids : "org" \in DOMAIN rows[i] /\ (i > made => rows[i] = WA!None /\ drives[i] = {})

LifecycleOps == {"pause", "resume", "retry", "fork", "kill", "delete"}
Deleting     == {"rows", "instances", "definition", "record"}

\* The log names the Administrator who acted on an instance from outside.
BypassNoted(u, i) == \E e \in trail : i \in e.ids /\ e.by = u /\ e.bypass

\* What a call decided on is still so when it writes: the organization of the
\* row it read, the scope of the caller, and the note of a bypass.
Founded(q) ==
  /\ q.pc \in LifecycleOps =>
       /\ q.id \in 1 .. made /\ "org" \in DOMAIN q.row /\ WA!InScope(q.by, q.row.org)
       /\ WA!Exists(q.id) => rows[q.id].org = q.row.org
       /\ q.pc # "delete" /\ WA!Bypass(q.by, q.row.org) => BypassNoted(q.by, q.id)
  /\ q.pc = "bulk" => /\ q.todo \subseteq 1 .. made
                      /\ \A i \in q.todo : WA!Exists(i) => WA!InScope(q.by, rows[i].org)
  /\ q.pc \in Deleting =>
       /\ DOMAIN q = {"pc", "by", "wf", "org", "todo", "gone", "action"} /\ q.todo \subseteq 1 .. made
       /\ q.pc \in {"rows", "instances"} => q.action \in {"workflow_deleted", "instance_deleted"}
       /\ q.action = "instance_deleted" => /\ WA!InScope(q.by, q.org)
                                           /\ \A i \in q.todo : WA!Exists(i) => rows[i].org = q.org
  /\ q.pc = "launch" => "pc" \in DOMAIN q
FoundedInv == \A c \in Clients : \A q \in {requests[c]} : Founded(q)

\* Who changed an instance from outside is in the log, or its own call will
\* write so.
OnTrail(x) ==
  \/ \E e \in trail : x.id \in e.ids /\ e.by = x.by /\ (e.bypass \/ e.action = "instances_bulk_deleted")
  \/ \E c \in Clients :
       /\ requests[c].pc \in Deleting /\ x.id \in requests[c].gone /\ requests[c].by = x.by
       /\ WA!Bypass(x.by, requests[c].org) \/ requests[c].action = "instances_bulk_deleted"
TrailInv ==
  \A x \in acted : WA!InScope(x.by, x.org) /\ (Home[x.by] # x.org /\ kills = 0 => OnTrail(x))

\* A fork's past is done, or still to be copied, or being deleted.
Past(f) == {s \in WA!Steps : s \in WA!Ancestors(f.body, f.at)}
PastKept(i, todo) ==
  WA!Exists(i) => Past(forked[i]) \subseteq completed[i] \cup todo \/ WA!BeingDeleted(i)
PastInv ==
  /\ \A i \in DOMAIN forked : i \in 1 .. made /\ ("fork" \in drives[i] => PastKept(i, {}))
  /\ \A c \in Clients : requests[c].pc = "copy" =>
       /\ DOMAIN requests[c] = {"pc", "id", "todo"} /\ requests[c].id \in DOMAIN forked
       /\ \A i \in {requests[c].id}, todo \in {requests[c].todo} : PastKept(i, todo)

AdminInv == AdminType /\ FoundedInv /\ TrailInv /\ PastInv
USE DEF definitions, rows, completed, made, forked, drives, requests, trail, acted, kills

-----------------------------------------------------------------------------
\* An instance exists only under an id that was given out, and ids are few.
LEMMA GivenOut ==
  ASSUME AdminType
  PROVE  /\ 1 .. made \subseteq WA!Ids /\ \A i \in WA!Ids : WA!Exists(i) => i \in 1 .. made
         /\ made + 1 \notin 1 .. made
BY AdminAssumption DEF AdminType, WA!Ids, WA!Exists

\* No step gives an instance to another organization, brings one back or takes
\* an entry out of the log.
Onward ==
  /\ made' \in Nat /\ made <= made' /\ trail \subseteq trail'
  /\ \A i \in 1 .. made : WA!Exists(i)' => WA!Exists(i) /\ rows'[i].org = rows[i].org

\* What a call decided on stays so.
LEMMA FoundedStays ==
  ASSUME NEW q, Founded(q), made \in Nat, Onward
  PROVE  Founded(q)'
<1>1. \A i \in 1 .. made : i \in 1 .. made'
  BY DEF Onward
<1>2. \A u, i : BypassNoted(u, i) => BypassNoted(u, i)'
  BY DEF BypassNoted, Onward
<1>3. ASSUME q.pc \in LifecycleOps
      PROVE  /\ q.id \in 1 .. made' /\ "org" \in DOMAIN q.row /\ WA!InScope(q.by, q.row.org)
             /\ WA!Exists(q.id)' => rows'[q.id].org = q.row.org
             /\ q.pc # "delete" /\ WA!Bypass(q.by, q.row.org) => BypassNoted(q.by, q.id)'
  BY <1>1, <1>2, <1>3 DEF Founded, Onward
<1>4. ASSUME q.pc = "bulk"
      PROVE  /\ q.todo \subseteq 1 .. made'
             /\ \A i \in q.todo : WA!Exists(i)' => WA!InScope(q.by, rows'[i].org)
  <2>1. q.todo \subseteq 1 .. made /\ \A i \in q.todo : WA!Exists(i) => WA!InScope(q.by, rows[i].org)
    BY <1>4 DEF Founded
  <2>. QED
    BY <1>1, <2>1 DEF Onward
<1>5. ASSUME q.pc \in Deleting
      PROVE  /\ DOMAIN q = {"pc", "by", "wf", "org", "todo", "gone", "action"} /\ q.todo \subseteq 1 .. made'
             /\ q.pc \in {"rows", "instances"} => q.action \in {"workflow_deleted", "instance_deleted"}
             /\ q.action = "instance_deleted" =>
                  WA!InScope(q.by, q.org) /\ \A i \in q.todo : WA!Exists(i)' => rows'[i].org = q.org
  <2>1. /\ DOMAIN q = {"pc", "by", "wf", "org", "todo", "gone", "action"} /\ q.todo \subseteq 1 .. made
        /\ q.pc \in {"rows", "instances"} => q.action \in {"workflow_deleted", "instance_deleted"}
        /\ q.action = "instance_deleted" =>
             WA!InScope(q.by, q.org) /\ \A i \in q.todo : WA!Exists(i) => rows[i].org = q.org
    BY <1>5 DEF Founded
  <2>. QED
    BY <1>1, <2>1 DEF Onward
<1>. QED
  BY <1>3, <1>4, <1>5 DEF Founded, WA!InScope, WA!Bypass, WA!IsAdmin

\* The calls that do not move stay founded.
LEMMA FoundedStep ==
  ASSUME AdminInv, Onward, \A c \in Clients : \A q \in {requests'[c]} : q = requests[c] \/ Founded(q)'
  PROVE  FoundedInv'
<1> SUFFICES ASSUME NEW c \in Clients, NEW q, q = requests'[c] PROVE Founded(q)'
  BY DEF FoundedInv
<1>1. q = requests[c] => Founded(q)
  BY DEF AdminInv, FoundedInv
<1>. QED
  BY <1>1, FoundedStays DEF AdminInv, AdminType

\* Whoever acts is on the trail, and stays on it while its call goes on and
\* when its entry is written.
LEMMA TrailStep ==
  ASSUME AdminInv, trail \subseteq trail', kills' = kills,
         \A x \in acted' : x \in acted \/ (WA!InScope(x.by, x.org) /\ (Home[x.by] # x.org => OnTrail(x)')),
         \A c \in Clients : requests[c].pc \in Deleting =>
           LET p == requests[c]
               q == requests'[c]
           IN \/ /\ q.pc \in Deleting /\ p.gone \subseteq q.gone /\ q.by = p.by /\ q.org = p.org
                 /\ q.action = p.action
              \/ \E e \in trail' : e.ids = p.gone /\ e.by = p.by /\ e.bypass = WA!Bypass(p.by, p.org)
                                   /\ e.action = p.action
  PROVE  TrailInv'
<1>1. ASSUME NEW x \in acted, OnTrail(x)
      PROVE  OnTrail(x)'
  <2>1. CASE \E e \in trail : x.id \in e.ids /\ e.by = x.by /\ (e.bypass \/ e.action = "instances_bulk_deleted")
    BY <2>1 DEF OnTrail
  <2>2. CASE \E c \in Clients :
               /\ requests[c].pc \in Deleting /\ x.id \in requests[c].gone /\ requests[c].by = x.by
               /\ WA!Bypass(x.by, requests[c].org) \/ requests[c].action = "instances_bulk_deleted"
    <3>1. PICK c \in Clients :
               /\ requests[c].pc \in Deleting /\ x.id \in requests[c].gone /\ requests[c].by = x.by
               /\ WA!Bypass(x.by, requests[c].org) \/ requests[c].action = "instances_bulk_deleted"
      BY <2>2
    <3> DEFINE p == requests[c]
               q == requests'[c]
    <3>2. CASE /\ q.pc \in Deleting /\ p.gone \subseteq q.gone /\ q.by = p.by /\ q.org = p.org
               /\ q.action = p.action
      BY <3>1, <3>2 DEF OnTrail, WA!Bypass, WA!IsAdmin
    <3>3. CASE \E e \in trail' : e.ids = p.gone /\ e.by = p.by /\ e.bypass = WA!Bypass(p.by, p.org)
                                 /\ e.action = p.action
      <4>1. PICK e \in trail' : e.ids = p.gone /\ e.by = p.by /\ e.bypass = WA!Bypass(p.by, p.org)
                                /\ e.action = p.action
        BY <3>3
      <4>2. x.id \in e.ids /\ e.by = x.by /\ (e.bypass \/ e.action = "instances_bulk_deleted")
        BY <3>1, <4>1
      <4>. QED
        BY <4>2 DEF OnTrail
    <3>. QED
      BY <3>1, <3>2, <3>3
  <2>. QED
    BY <1>1, <2>1, <2>2 DEF OnTrail
<1>2. ASSUME NEW x \in acted'
      PROVE  WA!InScope(x.by, x.org) /\ (Home[x.by] # x.org /\ kills' = 0 => OnTrail(x)')
  BY <1>1, <1>2 DEF AdminInv, TrailInv
<1>. QED
  BY <1>2 DEF TrailInv, WA!InScope, WA!IsAdmin

\* No step but a deletion takes a step from a fork's past.
LEMMA PastStep ==
  ASSUME AdminInv, made' \in Nat, made <= made',
         \A i \in 1 .. made : WA!Exists(i)' =>
           /\ WA!Exists(i) /\ (WA!BeingDeleted(i) => WA!BeingDeleted(i)')
           /\ completed[i] \cap WA!Steps \subseteq completed'[i] \/ WA!BeingDeleted(i)',
         \A i \in DOMAIN forked : i \in DOMAIN forked' /\ forked'[i] = forked[i],
         \A i \in DOMAIN forked' : /\ i \in 1 .. made'
                                   /\ "fork" \in drives'[i] =>
                                        (i \in DOMAIN forked /\ "fork" \in drives[i]) \/ PastKept(i, {})',
         \A c \in Clients : requests'[c].pc = "copy" =>
           \/ requests'[c] = requests[c]
           \/ /\ DOMAIN requests'[c] = {"pc", "id", "todo"} /\ requests'[c].id \in DOMAIN forked'
              /\ \A i \in {requests'[c].id}, todo \in {requests'[c].todo} : PastKept(i, todo)'
  PROVE  PastInv'
<1>1. ASSUME NEW i \in DOMAIN forked, NEW todo, PastKept(i, todo)
      PROVE  PastKept(i, todo)'
  <2>1. i \in 1 .. made /\ forked'[i] = forked[i]
    BY DEF AdminInv, PastInv
  <2>2. Past(forked[i]) \subseteq WA!Steps /\ Past(forked'[i]) = Past(forked[i])
    BY <2>1 DEF Past
  <2>. QED
    BY <1>1, <2>1, <2>2 DEF PastKept
<1>2. ASSUME NEW i \in DOMAIN forked'
      PROVE  i \in 1 .. made' /\ ("fork" \in drives'[i] => PastKept(i, {})')
  BY <1>1 DEF AdminInv, PastInv
<1>3. ASSUME NEW c \in Clients, requests'[c].pc = "copy"
      PROVE  /\ DOMAIN requests'[c] = {"pc", "id", "todo"} /\ requests'[c].id \in DOMAIN forked'
             /\ \A i \in {requests'[c].id}, todo \in {requests'[c].todo} : PastKept(i, todo)'
  <2>1. CASE requests'[c] = requests[c]
    <3>1. /\ DOMAIN requests[c] = {"pc", "id", "todo"} /\ requests[c].id \in DOMAIN forked
          /\ \A i \in {requests[c].id}, todo \in {requests[c].todo} : PastKept(i, todo)
      BY <1>3, <2>1 DEF AdminInv, PastInv
    <3>. QED
      BY <1>1, <2>1, <3>1
  <2>. QED
    BY <1>3, <2>1
<1>. QED
  BY <1>2, <1>3 DEF PastInv

-----------------------------------------------------------------------------
\* A call goes on and nothing but the log changes with it.
LEMMA CallMoves ==
  ASSUME AdminInv, NEW c \in Clients, NEW new, requests' = [requests EXCEPT ![c] = new],
         UNCHANGED <<rows, completed, made, forked, drives, acted, kills>>, trail \subseteq trail',
         Founded(new)', new.pc # "copy",
         requests[c].pc = "instances" => requests[c].todo = {},
         requests[c].pc \in Deleting =>
           LET p == requests[c]
           IN \/ /\ new.pc \in Deleting /\ p.gone \subseteq new.gone /\ new.by = p.by /\ new.org = p.org
                 /\ new.action = p.action
              \/ \E e \in trail' : e.ids = p.gone /\ e.by = p.by /\ e.bypass = WA!Bypass(p.by, p.org)
                                   /\ e.action = p.action
  PROVE  AdminInv'
<1>1. /\ \A d \in Clients : requests'[d] = IF d = c THEN new ELSE requests[d]
      /\ DOMAIN requests' = Clients
  BY DEF AdminInv, AdminType
<1>2. AdminType'
  BY <1>1 DEF AdminInv, AdminType, WA!None
<1>3. Onward /\ \A i : WA!Exists(i)' <=> WA!Exists(i)
  BY <1>2 DEF Onward, WA!Exists, AdminType, WA!None
<1>4. FoundedInv'
  BY <1>1, <1>3, FoundedStep
<1>5. TrailInv'
  <2>1. \A d \in Clients : requests[d].pc \in Deleting =>
          LET p == requests[d]
              q == requests'[d]
          IN \/ /\ q.pc \in Deleting /\ p.gone \subseteq q.gone /\ q.by = p.by /\ q.org = p.org
                /\ q.action = p.action
             \/ \E e \in trail' : e.ids = p.gone /\ e.by = p.by /\ e.bypass = WA!Bypass(p.by, p.org)
                                  /\ e.action = p.action
    BY <1>1
  <2>. QED
    BY <2>1, TrailStep
<1>6. \A i : WA!BeingDeleted(i) => WA!BeingDeleted(i)'
  BY <1>1 DEF WA!BeingDeleted
<1>7. PastInv'
  <2>1. \A i \in DOMAIN forked : i \in 1 .. made
    BY DEF AdminInv, PastInv
  <2>2. \A d \in Clients : requests'[d].pc = "copy" => requests'[d] = requests[d]
    BY <1>1
  <2>3. made' \in Nat /\ made <= made'
    BY <1>3 DEF Onward
  <2>. QED
    BY <1>3, <1>6, <2>1, <2>2, <2>3, PastStep
<1>. QED
  BY <1>2, <1>4, <1>5, <1>7 DEF AdminInv

\* A client without a call has no deletion under way.
LEMMA IdleIsNoDeletion ==
  /\ WA!Idle.pc = "idle" /\ \A c : requests[c] = WA!Idle => requests[c].pc \notin Deleting \cup {"instances"}
  /\ Founded(WA!Idle)'
BY DEF WA!Idle, Deleting, Founded, LifecycleOps

\* A call begins about a definition.
LEMMA DefinitionStarts ==
  ASSUME AdminInv, NEW c \in Clients, NEW u \in Users,
         \/ \E n \in Names, b \in Shapes, o \in WA!Orgs : WA!Create(c, u, n, b, o)
         \/ \E b \in Shapes, o \in WA!Orgs : WA!Scaffold(c, u, b, o)
         \/ \E w \in WA!WorkflowIds, b \in Shapes, o \in WA!Orgs : WA!Import(c, u, w, b, o)
         \/ \E w \in WA!WorkflowIds, n \in 1 .. 2 : WA!Run(c, u, w, n)
         \/ \E w \in WA!WorkflowIds : WA!DryRun(c, u, w)
  PROVE  AdminInv'
<1>1. /\ UNCHANGED <<rows, completed, made, forked, drives, acted, kills, trail>> /\ requests[c] = WA!Idle
      /\ \E new : requests' = [requests EXCEPT ![c] = new] /\ new.pc \in {"save", "launch"} /\ "pc" \in DOMAIN new
  <2>1. UNCHANGED <<rows, completed, made, forked, drives, acted, kills, trail>> /\ requests[c] = WA!Idle
    BY Zenon DEF WA!Create, WA!Scaffold, WA!Import, WA!Run, WA!DryRun, WA!Accept
  <2>2. ASSUME NEW n \in Names, NEW b \in Shapes, NEW o \in WA!Orgs, WA!Create(c, u, n, b, o)
        PROVE  \E new : requests' = [requests EXCEPT ![c] = new] /\ new.pc \in {"save", "launch"} /\ "pc" \in DOMAIN new
    <3> DEFINE new == [pc |-> "save", wf |-> WA!UniqueId(n), row |-> [org |-> o, body |-> b]]
    <3>1. requests' = [requests EXCEPT ![c] = new]
      BY <2>2 DEF WA!Create, WA!Goes
    <3>2. new.pc \in {"save", "launch"} /\ "pc" \in DOMAIN new
      OBVIOUS
    <3> HIDE DEF new
    <3>. QED
      BY Zenon, <3>1, <3>2
  <2>3. ASSUME NEW b \in Shapes, NEW o \in WA!Orgs, WA!Scaffold(c, u, b, o)
        PROVE  \E new : requests' = [requests EXCEPT ![c] = new] /\ new.pc \in {"save", "launch"} /\ "pc" \in DOMAIN new
    <3> DEFINE new == [pc |-> "save", wf |-> WA!Minted, row |-> [org |-> o, body |-> b]]
    <3>1. requests' = [requests EXCEPT ![c] = new]
      BY <2>3 DEF WA!Scaffold, WA!Goes
    <3>2. new.pc \in {"save", "launch"} /\ "pc" \in DOMAIN new
      OBVIOUS
    <3> HIDE DEF new
    <3>. QED
      BY Zenon, <3>1, <3>2
  <2>4. ASSUME NEW w \in WA!WorkflowIds, NEW b \in Shapes, NEW o \in WA!Orgs, WA!Import(c, u, w, b, o)
        PROVE  \E new : requests' = [requests EXCEPT ![c] = new] /\ new.pc \in {"save", "launch"} /\ "pc" \in DOMAIN new
    <3> DEFINE new == [pc |-> "save", wf |-> w, row |-> [org |-> o, body |-> b]]
    <3>1. requests' = [requests EXCEPT ![c] = new]
      BY <2>4 DEF WA!Import, WA!Goes
    <3>2. new.pc \in {"save", "launch"} /\ "pc" \in DOMAIN new
      OBVIOUS
    <3> HIDE DEF new
    <3>. QED
      BY Zenon, <3>1, <3>2
  <2>5. ASSUME NEW w \in WA!WorkflowIds, NEW n \in 1 .. 2, WA!Run(c, u, w, n)
        PROVE  \E new : requests' = [requests EXCEPT ![c] = new] /\ new.pc \in {"save", "launch"} /\ "pc" \in DOMAIN new
    <3> DEFINE new == [pc |-> "launch", wf |-> w, body |-> definitions[w].body, left |-> n, dry |-> FALSE]
    <3>1. requests' = [requests EXCEPT ![c] = new]
      BY <2>5 DEF WA!Run, WA!Goes
    <3>2. new.pc \in {"save", "launch"} /\ "pc" \in DOMAIN new
      OBVIOUS
    <3> HIDE DEF new
    <3>. QED
      BY Zenon, <3>1, <3>2
  <2>6. ASSUME NEW w \in WA!WorkflowIds, WA!DryRun(c, u, w)
        PROVE  \E new : requests' = [requests EXCEPT ![c] = new] /\ new.pc \in {"save", "launch"} /\ "pc" \in DOMAIN new
    <3> DEFINE new == [pc |-> "launch", wf |-> w, body |-> definitions[w].body, left |-> 1, dry |-> TRUE]
    <3>1. requests' = [requests EXCEPT ![c] = new]
      BY <2>6 DEF WA!DryRun, WA!Goes
    <3>2. new.pc \in {"save", "launch"} /\ "pc" \in DOMAIN new
      OBVIOUS
    <3> HIDE DEF new
    <3>. QED
      BY Zenon, <3>1, <3>2
  <2>. QED
    BY <2>1, <2>2, <2>3, <2>4, <2>5, <2>6
<1>2. PICK new : requests' = [requests EXCEPT ![c] = new] /\ new.pc \in {"save", "launch"} /\ "pc" \in DOMAIN new
  BY Zenon, <1>1
<1>3. Founded(new)'
  BY <1>2 DEF Founded, LifecycleOps, Deleting
<1>. QED
  BY Zenon, <1>1, <1>2, <1>3, IdleIsNoDeletion, CallMoves

\* The deletion of a workflow, with its history, begins.
LEMMA DeleteWorkflowStep ==
  ASSUME AdminInv, NEW c \in Clients, NEW u \in Users, NEW w \in WA!WorkflowIds, NEW f \in BOOLEAN,
         WA!DeleteWorkflow(c, u, w, f)
  PROVE  AdminInv'
<1>1. /\ UNCHANGED <<rows, completed, made, forked, drives, acted, kills, trail>> /\ requests[c] = WA!Idle
      /\ requests' = [requests EXCEPT ![c] = [pc |-> "rows", by |-> u, wf |-> w, org |-> definitions[w].org,
                        todo |-> WA!History(w), gone |-> {}, action |-> "workflow_deleted"]]
  BY DEF WA!DeleteWorkflow, WA!Accept, WA!Goes
<1>2. PICK new : new = [pc |-> "rows", by |-> u, wf |-> w, org |-> definitions[w].org,
                        todo |-> WA!History(w), gone |-> {}, action |-> "workflow_deleted"]
  BY Zenon
<1>3. new.todo \subseteq 1 .. made'
  BY <1>1, <1>2, GivenOut DEF WA!History, AdminInv
<1>4. Founded(new)'
  BY <1>2, <1>3 DEF Founded, LifecycleOps, Deleting
<1>5. requests' = [requests EXCEPT ![c] = new] /\ new.pc # "copy"
  BY <1>1, <1>2
<1>. QED
  BY Zenon, <1>1, <1>4, <1>5, IdleIsNoDeletion, CallMoves

\* A call about an instance reads its row, leaves its note and is decided.
LEMMA LifecycleStep ==
  ASSUME AdminInv, NEW c \in Clients, NEW u \in Users, NEW i \in WA!Ids, NEW op \in LifecycleOps,
         WA!Lifecycle(c, u, op, i)
  PROVE  AdminInv'
<1>1. /\ UNCHANGED <<rows, completed, made, forked, drives, acted, kills>> /\ requests[c] = WA!Idle
      /\ WA!Exists(i) /\ WA!InScope(u, rows[i].org) /\ trail \subseteq trail'
      /\ op # "delete" /\ WA!Bypass(u, rows[i].org) => WA!Entry(op, {i}, u, TRUE) \in trail'
      /\ \E body : \/ requests' = [requests EXCEPT ![c] =
                        [pc |-> op, by |-> u, id |-> i, row |-> rows[i], body |-> body]]
                   \/ requests' = [requests EXCEPT ![c] = WA!Idle]
  BY Zenon DEF WA!Lifecycle, WA!Accept, WA!VisibleInst, WA!NoteBypass, WA!Goes
<1>2. CASE requests' = [requests EXCEPT ![c] = WA!Idle]
  <2>1. PICK new : new = WA!Idle
    OBVIOUS
  <2>2. Founded(new)'
    BY <2>1, IdleIsNoDeletion
  <2>3. new.pc # "copy"
    BY <2>1, IdleIsNoDeletion
  <2>. QED
    BY Zenon, <1>1, <1>2, <2>1, <2>2, <2>3, IdleIsNoDeletion, CallMoves
<1>3. ASSUME NEW body,
             requests' = [requests EXCEPT ![c] = [pc |-> op, by |-> u, id |-> i, row |-> rows[i], body |-> body]]
      PROVE  AdminInv'
  <2>1. PICK new : new = [pc |-> op, by |-> u, id |-> i, row |-> rows[i], body |-> body]
    BY Zenon
  <2>2. i \in 1 .. made' /\ "org" \in DOMAIN rows[i]
    BY <1>1, GivenOut DEF AdminInv, AdminType
  <2>3. op # "delete" /\ WA!Bypass(u, rows[i].org) => BypassNoted(u, i)'
    <3> SUFFICES ASSUME op # "delete", WA!Bypass(u, rows[i].org) PROVE BypassNoted(u, i)'
      OBVIOUS
    <3>1. WA!Entry(op, {i}, u, TRUE) \in trail'
      BY Zenon, <1>1
    <3>. QED
      BY <3>1 DEF BypassNoted, WA!Entry
  <2>4. /\ new.pc = op /\ new.by = u /\ new.id = i /\ new.row = rows[i] /\ rows' = rows
        /\ op \notin Deleting /\ op # "bulk" /\ op # "copy" /\ op # "launch"
    BY <1>1, <2>1 DEF LifecycleOps, Deleting
  <2>5. Founded(new)'
    BY <1>1, <2>2, <2>3, <2>4 DEF Founded, WA!InScope, WA!Bypass, WA!IsAdmin
  <2>. QED
    BY Zenon, <1>1, <1>3, <2>1, <2>4, <2>5, IdleIsNoDeletion, CallMoves
<1>. QED
  BY <1>1, <1>2, <1>3

\* Bulk deletion reads the ids in the caller's scope.
LEMMA DeleteBulkStep ==
  ASSUME AdminInv, NEW c \in Clients, NEW u \in Users, NEW states, WA!DeleteBulk(c, u, states)
  PROVE  AdminInv'
<1> DEFINE ids == {i \in WA!Ids : WA!Exists(i) /\ rows[i].state \in states /\ WA!InScope(u, rows[i].org)}
<1>1. /\ UNCHANGED <<rows, completed, made, forked, drives, acted, kills, trail>> /\ requests[c] = WA!Idle
      /\ requests' = [requests EXCEPT ![c] = [pc |-> "bulk", by |-> u, todo |-> ids]]
  BY DEF WA!DeleteBulk, WA!Accept, WA!Goes
<1>2. PICK new : new = [pc |-> "bulk", by |-> u, todo |-> ids]
  BY Zenon
<1>3. ids \subseteq 1 .. made /\ \A i \in ids : WA!InScope(u, rows[i].org)
  BY GivenOut DEF AdminInv
<1>4. new.pc = "bulk" /\ new.by = u /\ new.todo = ids
  BY <1>2
<1>5. requests' = [requests EXCEPT ![c] = new]
  BY <1>1, <1>2
<1> HIDE DEF ids
<1>6. Founded(new)'
  BY <1>1, <1>3, <1>4 DEF Founded, LifecycleOps, Deleting, WA!InScope, WA!IsAdmin
<1>. QED
  BY Zenon, <1>1, <1>4, <1>5, <1>6, IdleIsNoDeletion, CallMoves

\* A call that wrote its definition, its entry or its task is over.
LEMMA CallEnds ==
  ASSUME AdminInv, NEW c \in Clients, WA!Save(c) \/ WA!Audited(c) \/ WA!Resume(c)
  PROVE  AdminInv'
<1>1. /\ UNCHANGED <<rows, completed, made, forked, drives, acted, kills>> /\ trail \subseteq trail'
      /\ requests[c].pc \in {"save", "audit", "resume"} /\ requests' = [requests EXCEPT ![c] = WA!Idle]
  BY Zenon DEF WA!Save, WA!Audited, WA!Resume, WA!Ends, WA!Goes, WA!AuditAdmin
<1>2. PICK new : new = WA!Idle
  OBVIOUS
<1>3. Founded(new)' /\ new.pc # "copy"
  BY <1>2, IdleIsNoDeletion
<1>4. requests[c].pc \notin Deleting /\ requests[c].pc # "instances"
  BY <1>1 DEF Deleting
<1>. QED
  BY Zenon, <1>1, <1>2, <1>3, <1>4, CallMoves

\* The deletion of an instance goes on as the deletion of its one id.
LEMMA DeleteStep ==
  ASSUME AdminInv, NEW c \in Clients, WA!Delete(c)
  PROVE  AdminInv'
<1>1. PICK p : p = requests[c]
  OBVIOUS
<1>2. PICK new : new = [pc |-> "rows", by |-> p.by, wf |-> p.row.wf, org |-> p.row.org, todo |-> {p.id},
                        gone |-> {}, action |-> "instance_deleted"]
  BY Zenon
<1>3. /\ UNCHANGED <<rows, completed, made, forked, drives, acted, kills, trail>> /\ p.pc = "delete"
      /\ requests' = [requests EXCEPT ![c] = new]
  BY <1>1, <1>2 DEF WA!Delete, WA!Goes
<1>4. /\ p.id \in 1 .. made' /\ WA!InScope(p.by, p.row.org)
      /\ WA!Exists(p.id)' => rows'[p.id].org = p.row.org
  <2>1. Founded(p)
    BY <1>1 DEF AdminInv, FoundedInv
  <2>. QED
    BY <1>3, <2>1 DEF Founded, LifecycleOps, WA!Exists, WA!None
<1>5. /\ new.pc = "rows" /\ new.by = p.by /\ new.org = p.row.org /\ new.todo = {p.id}
      /\ new.action = "instance_deleted" /\ DOMAIN new = {"pc", "by", "wf", "org", "todo", "gone", "action"}
  BY <1>2
<1>6. Founded(new)'
  BY <1>4, <1>5 DEF Founded, LifecycleOps, Deleting, WA!InScope, WA!IsAdmin
<1>7. requests[c].pc \notin Deleting /\ requests[c].pc # "instances" /\ new.pc # "copy"
  BY <1>1, <1>3, <1>5 DEF Deleting
<1>. QED
  BY Zenon, <1>3, <1>6, <1>7, CallMoves

\* The definition of a deleted workflow goes; a deletion's entry is written.
LEMMA DeletionEnds ==
  ASSUME AdminInv, NEW c \in Clients, WA!DeleteDefinition(c) \/ WA!Record(c)
  PROVE  AdminInv'
<1>1. PICK p : p = requests[c]
  OBVIOUS
<1>2. Founded(p)
  BY <1>1 DEF AdminInv, FoundedInv
<1>3. CASE WA!DeleteDefinition(c)
  <2>1. PICK new : new = [p EXCEPT !.pc = "record"]
    BY Zenon
  <2>2. /\ UNCHANGED <<rows, completed, made, forked, drives, acted, kills, trail>> /\ p.pc = "definition"
        /\ requests' = [requests EXCEPT ![c] = new]
    BY <1>1, <1>3, <2>1 DEF WA!DeleteDefinition, WA!Goes
  <2>3. DOMAIN p = {"pc", "by", "wf", "org", "todo", "gone", "action"}
    BY <1>2, <2>2 DEF Founded, Deleting
  <2>4. /\ DOMAIN new = DOMAIN p /\ new.pc = "record" /\ new.by = p.by /\ new.org = p.org
        /\ new.todo = p.todo /\ new.gone = p.gone /\ new.action = p.action
    BY <2>1, <2>3
  <2>5. Founded(new)
    BY <1>2, <2>2, <2>4 DEF Founded, LifecycleOps, Deleting
  <2>6. Founded(new)'
    <3>1. Onward /\ made \in Nat
      BY <2>2 DEF Onward, AdminInv, AdminType, WA!Exists, WA!None
    <3>. QED
      BY <2>5, <3>1, FoundedStays
  <2>7. /\ requests[c].pc # "instances" /\ new.pc # "copy" /\ new.pc \in Deleting
        /\ requests[c].gone \subseteq new.gone
        /\ new.by = requests[c].by /\ new.org = requests[c].org /\ new.action = requests[c].action
    BY <1>1, <2>2, <2>4 DEF Deleting
  <2>. QED
    BY Zenon, <2>2, <2>6, <2>7, CallMoves
<1>4. CASE WA!Record(c)
  <2>1. PICK new : new = WA!Idle
    OBVIOUS
  <2>2. PICK e : e = WA!Entry(p.action, p.gone, p.by, WA!Bypass(p.by, p.org))
    OBVIOUS
  <2>3. /\ UNCHANGED <<rows, completed, made, forked, drives, acted, kills>> /\ p.pc = "record"
        /\ requests' = [requests EXCEPT ![c] = new] /\ trail' = trail \cup {e}
    BY <1>1, <1>4, <2>1, <2>2 DEF WA!Record, WA!Ends, WA!Goes, WA!AuditAdmin
  <2>4. e.ids = p.gone /\ e.by = p.by /\ e.bypass = WA!Bypass(p.by, p.org) /\ e.action = p.action
    BY <2>2 DEF WA!Entry
  <2>5. Founded(new)' /\ new.pc # "copy"
    BY <2>1, IdleIsNoDeletion
  <2>6. requests[c].pc # "instances" /\ e \in trail' /\ trail \subseteq trail'
    BY <1>1, <2>3
  <2>. QED
    BY Zenon, <1>1, <2>3, <2>4, <2>5, <2>6, CallMoves
<1>. QED
  BY <1>3, <1>4

-----------------------------------------------------------------------------
\* What is said of a table whose rows change in place.
LEMMA RowsMove ==
  ASSUME AdminInv, UNCHANGED <<completed, made, forked, kills>>, trail \subseteq trail',
         DOMAIN rows' = WA!Ids, DOMAIN requests' = Clients, DOMAIN drives' = WA!Ids,
         \A i \in WA!Ids : /\ rows[i] = WA!None => rows'[i] = WA!None
                           /\ "org" \in DOMAIN rows'[i] /\ rows'[i].org = rows[i].org
                           /\ drives[i] = {} /\ rows[i] = WA!None => drives'[i] = {}
                           /\ "fork" \in drives'[i] => "fork" \in drives[i],
         \A c \in Clients : \A q \in {requests'[c]} :
           \/ q = requests[c]
           \/ /\ q.pc \notin LifecycleOps \cup Deleting \cup {"bulk", "copy", "launch"}
              /\ requests[c].pc \notin Deleting,
         \A x \in acted' : x \in acted \/ (WA!InScope(x.by, x.org) /\ (Home[x.by] # x.org => OnTrail(x)'))
  PROVE  AdminInv'
<1>1. AdminType'
  BY DEF AdminInv, AdminType, WA!None
<1>2. Onward /\ \A i \in 1 .. made : WA!Exists(i)' => WA!Exists(i)
  BY <1>1, GivenOut DEF Onward, WA!Exists, AdminInv, AdminType, WA!None
<1>3. FoundedInv'
  <2>1. \A c \in Clients : \A q \in {requests'[c]} : q = requests[c] \/ Founded(q)'
    BY DEF Founded
  <2>. QED
    BY <1>2, <2>1, FoundedStep
<1>4. \A c \in Clients : requests'[c] = requests[c] \/ requests[c].pc \notin Deleting
  OBVIOUS
<1>5. TrailInv'
  <2>1. \A c \in Clients : requests[c].pc \in Deleting =>
          LET p == requests[c]
              q == requests'[c]
          IN \/ /\ q.pc \in Deleting /\ p.gone \subseteq q.gone /\ q.by = p.by /\ q.org = p.org
                /\ q.action = p.action
             \/ \E e \in trail' : e.ids = p.gone /\ e.by = p.by /\ e.bypass = WA!Bypass(p.by, p.org)
                                  /\ e.action = p.action
    BY <1>4
  <2>. QED
    BY <2>1, TrailStep
<1>6. \A i : WA!BeingDeleted(i) => WA!BeingDeleted(i)'
  BY <1>4 DEF WA!BeingDeleted, Deleting
<1>7. PastInv'
  <2>1. \A i \in DOMAIN forked : i \in 1 .. made /\ i \in WA!Ids
    BY GivenOut DEF AdminInv, PastInv
  <2>2. \A d \in Clients : requests'[d].pc = "copy" => requests'[d] = requests[d]
    OBVIOUS
  <2>3. made' \in Nat /\ made <= made'
    BY <1>2 DEF Onward
  <2>. QED
    BY <1>2, <1>6, <2>1, <2>2, <2>3, PastStep
<1>. QED
  BY <1>1, <1>3, <1>5, <1>7 DEF AdminInv

\* A pause, a kill or a retry writes the row it read back, or finds it gone.
LEMMA WriteBackStep ==
  ASSUME AdminInv, NEW c \in Clients, WA!Pause(c) \/ WA!Kill(c) \/ WA!Retry(c)
  PROVE  AdminInv'
<1>1. PICK p : p = requests[c]
  OBVIOUS
<1>2. /\ p.pc \in {"pause", "kill", "retry"} /\ UNCHANGED <<completed, made, forked, drives, trail, kills>>
      /\ \E state : WA!WriteBack(c, state)
  BY <1>1 DEF WA!Pause, WA!Kill, WA!Retry
<1>3. /\ p.id \in 1 .. made /\ "org" \in DOMAIN p.row /\ WA!InScope(p.by, p.row.org)
      /\ WA!Exists(p.id) => rows[p.id].org = p.row.org
      /\ WA!Bypass(p.by, p.row.org) => BypassNoted(p.by, p.id)
  <2>1. Founded(p)
    BY <1>1 DEF AdminInv, FoundedInv
  <2>. QED
    BY <1>2, <2>1 DEF Founded, LifecycleOps
<1>4. CASE ~WA!Exists(p.id)
  <2>1. PICK new : new = WA!Idle
    OBVIOUS
  <2>2. UNCHANGED <<rows, acted>> /\ requests' = [requests EXCEPT ![c] = new]
    BY <1>1, <1>2, <1>4, <2>1 DEF WA!WriteBack, WA!Ends, WA!Goes
  <2>3. Founded(new)' /\ new.pc # "copy"
    BY <2>1, IdleIsNoDeletion
  <2>4. requests[c].pc # "instances" /\ requests[c].pc \notin Deleting
    BY <1>1, <1>2 DEF Deleting
  <2>. QED
    BY Zenon, <1>2, <2>2, <2>3, <2>4, CallMoves
<1>5. CASE WA!Exists(p.id)
  <2>1. PICK new : new = [pc |-> "audit", op |-> p.pc, by |-> p.by, id |-> p.id, body |-> p.body]
    BY Zenon
  <2>2. PICK state : WA!WriteBack(c, state)
    BY <1>2
  <2>3. PICK row : row = [p.row EXCEPT !.state = state]
    BY Zenon
  <2>4. PICK x : x = [id |-> p.id, org |-> rows[p.id].org, by |-> p.by]
    BY Zenon
  <2>5. /\ rows' = [rows EXCEPT ![p.id] = row] /\ requests' = [requests EXCEPT ![c] = new]
        /\ acted' = acted \cup {x}
    BY <1>1, <1>5, <2>1, <2>2, <2>3, <2>4 DEF WA!WriteBack, WA!Goes, WA!Did
  <2>6. "org" \in DOMAIN row /\ row.org = rows[p.id].org
    BY <1>3, <1>5, <2>3
  <2>7. WA!InScope(x.by, x.org) /\ (Home[x.by] # x.org => OnTrail(x)')
    <3>1. x.id = p.id /\ x.by = p.by /\ x.org = p.row.org
      BY <1>3, <1>5, <2>4
    <3>2. ASSUME Home[x.by] # x.org PROVE OnTrail(x)'
      <4>1. BypassNoted(x.by, x.id)
        BY <1>3, <3>1, <3>2 DEF WA!Bypass, WA!InScope
      <4>. QED
        BY <1>2, <4>1 DEF BypassNoted, OnTrail
    <3>. QED
      BY <1>3, <3>1, <3>2
  <2>8. new.pc = "audit"
    BY <2>1
  <2>9. /\ DOMAIN rows = WA!Ids /\ DOMAIN requests = Clients /\ DOMAIN drives = WA!Ids
        /\ p.id \in WA!Ids /\ rows[p.id] # WA!None /\ \A i \in WA!Ids : "org" \in DOMAIN rows[i]
    BY <1>3, <1>5, GivenOut DEF AdminInv, AdminType, WA!Exists
  <2>10. DOMAIN rows' = WA!Ids /\ DOMAIN requests' = Clients /\ DOMAIN drives' = WA!Ids
    BY <1>2, <2>5, <2>9
  <2>11. \A i \in WA!Ids : /\ rows[i] = WA!None => rows'[i] = WA!None
                           /\ "org" \in DOMAIN rows'[i] /\ rows'[i].org = rows[i].org
                           /\ drives'[i] = drives[i]
    BY <1>2, <2>5, <2>6, <2>9 DEF WA!None
  <2>12. \A d \in Clients : \A q \in {requests'[d]} :
           \/ q = requests[d]
           \/ /\ q.pc \notin LifecycleOps \cup Deleting \cup {"bulk", "copy", "launch"}
              /\ requests[d].pc \notin Deleting
    BY <1>1, <1>2, <2>5, <2>8, <2>9 DEF LifecycleOps, Deleting
  <2>. QED
    BY <1>2, <2>5, <2>7, <2>10, <2>11, <2>12, RowsMove
<1>. QED
  BY <1>4, <1>5

\* A resume in the background takes the instance as it is now, or leaves it.
LEMMA ResumeTaskStep ==
  ASSUME AdminInv, NEW t, WA!ResumeTask(t)
  PROVE  AdminInv'
<1>1. UNCHANGED <<completed, made, forked, trail, kills, acted, requests>>
  BY DEF WA!ResumeTask
<1>2. /\ DOMAIN rows = WA!Ids /\ DOMAIN requests = Clients /\ DOMAIN drives = WA!Ids
      /\ \A i \in WA!Ids : "org" \in DOMAIN rows[i]
  BY DEF AdminInv, AdminType
<1>3. CASE UNCHANGED <<rows, drives>>
  BY <1>1, <1>2, <1>3, RowsMove
<1>4. CASE /\ WA!Exists(t.id) /\ rows' = [rows EXCEPT ![t.id].state = "RUNNING", ![t.id].body = t.body]
           /\ drives' = [drives EXCEPT ![t.id] = @ \cup {"real"}]
  <2>1. PICK row : row = [rows[t.id] EXCEPT !.state = "RUNNING", !.body = t.body]
    OBVIOUS
  <2>2. rows' = [rows EXCEPT ![t.id] = row]
    BY Zenon, <1>4, <2>1
  <2>3. t.id \in WA!Ids => "org" \in DOMAIN row /\ row.org = rows[t.id].org /\ rows[t.id] # WA!None
    BY <1>2, <1>4, <2>1 DEF WA!Exists
  <2>4. DOMAIN rows' = WA!Ids /\ DOMAIN drives' = WA!Ids
    BY <1>2, <1>4, <2>2
  <2>5. \A i \in WA!Ids : /\ rows[i] = WA!None => rows'[i] = WA!None
                          /\ "org" \in DOMAIN rows'[i] /\ rows'[i].org = rows[i].org
    BY <1>2, <2>2, <2>3
  <2>6. \A i \in WA!Ids : /\ drives[i] = {} /\ rows[i] = WA!None => drives'[i] = {}
                          /\ "fork" \in drives'[i] => "fork" \in drives[i]
    BY <1>2, <1>4, <2>3
  <2>. QED
    BY <1>1, <1>2, <2>4, <2>5, <2>6, RowsMove
<1>. QED
  BY <1>3, <1>4 DEF WA!ResumeTask

\* A drive settles: it is over, and only adds to what is done.
LEMMA SettleStep ==
  ASSUME AdminInv, NEW i \in WA!Ids, NEW d, WA!Settle(i, d)
  PROVE  AdminInv'
<1>1. /\ UNCHANGED <<made, forked, requests, trail, acted, kills>>
      /\ drives' = [drives EXCEPT ![i] = @ \ {d}]
  BY DEF WA!Settle
<1>2. /\ DOMAIN rows = WA!Ids /\ DOMAIN completed = WA!Ids /\ DOMAIN drives = WA!Ids
      /\ \A j \in WA!Ids : "org" \in DOMAIN rows[j]
  BY DEF AdminInv, AdminType
<1>3. /\ DOMAIN rows' = WA!Ids /\ DOMAIN completed' = WA!Ids /\ DOMAIN drives' = WA!Ids
      /\ \A j \in WA!Ids : /\ rows[j] = WA!None => rows'[j] = WA!None
                           /\ "org" \in DOMAIN rows'[j] /\ rows'[j].org = rows[j].org
                           /\ completed[j] \cap WA!Steps \subseteq completed'[j]
  <2>1. CASE UNCHANGED <<rows, completed>>
    <3>1. rows' = rows /\ completed' = completed
      BY <2>1
    <3>2. \A j \in WA!Ids : completed[j] \cap WA!Steps \subseteq completed'[j]
      BY <3>1
    <3>3. DOMAIN rows' = WA!Ids /\ DOMAIN completed' = WA!Ids /\ DOMAIN drives' = WA!Ids
      BY <1>1, <1>2, <3>1
    <3>. QED
      BY <1>2, <3>1, <3>2, <3>3
  <2>2. CASE WA!Exists(i) /\ ~UNCHANGED <<rows, completed>>
    <3> DEFINE Result(to, more) ==
                 /\ IF to = "COMPLETED" THEN more = WA!Steps ELSE completed[i] \subseteq more
                 /\ completed' = [completed EXCEPT ![i] = more]
                 /\ rows' = [rows EXCEPT ![i].state = to, ![i].tag = (d = "dry")]
    <3>0. \E to \in IF rows[i].state = "RUNNING" THEN {"FAILED", "COMPLETED"} ELSE {rows[i].state},
             more \in {m \in SUBSET WA!Steps : WA!Closed(rows[i].body, m)} : Result(to, more)
      BY <2>2, Zenon DEF WA!Settle
    <3> HIDE DEF Result
    <3>1a. PICK to, more : more \subseteq WA!Steps /\ Result(to, more)
      BY <3>0
    <3>2. PICK tag : tag = (d = "dry")
      OBVIOUS
    <3>1. /\ IF to = "COMPLETED" THEN more = WA!Steps ELSE completed[i] \subseteq more
          /\ completed' = [completed EXCEPT ![i] = more]
          /\ rows' = [rows EXCEPT ![i].state = to, ![i].tag = tag]
      BY <3>1a, <3>2, Zenon DEF Result
    <3>3. PICK row : row = [rows[i] EXCEPT !.state = to, !.tag = tag]
      OBVIOUS
    <3>4. rows' = [rows EXCEPT ![i] = row]
      BY Zenon, <3>1, <3>3
    <3>5. "org" \in DOMAIN row /\ row.org = rows[i].org /\ rows[i] # WA!None
      BY <1>2, <2>2, <3>3 DEF WA!Exists
    <3>6. completed[i] \cap WA!Steps \subseteq more
      BY <3>1
    <3>7. \A j \in WA!Ids : completed[j] \cap WA!Steps \subseteq completed'[j]
      BY <1>2, <3>1, <3>6
    <3>8. DOMAIN rows' = WA!Ids /\ DOMAIN completed' = WA!Ids /\ DOMAIN drives' = WA!Ids
      BY <1>1, <1>2, <3>1, <3>4
    <3>9. \A j \in WA!Ids : /\ rows[j] = WA!None => rows'[j] = WA!None
                            /\ "org" \in DOMAIN rows'[j] /\ rows'[j].org = rows[j].org
      BY <1>2, <3>4, <3>5
    <3>. QED
      BY <3>7, <3>8, <3>9
  <2>. QED
    BY <2>1, <2>2 DEF WA!Settle
<1>4. \A j \in WA!Ids : drives'[j] \subseteq drives[j]
  BY <1>1, <1>2
<1>5. AdminType'
  BY <1>1, <1>3, <1>4 DEF AdminInv, AdminType, WA!None
<1>6. Onward /\ \A j \in 1 .. made : WA!Exists(j)' => WA!Exists(j)
  BY <1>1, <1>3, <1>5, GivenOut DEF Onward, WA!Exists, AdminInv, AdminType, WA!None
<1>7. FoundedInv'
  BY <1>1, <1>6, FoundedStep
<1>8. TrailInv'
  BY <1>1 DEF AdminInv, TrailInv, OnTrail, WA!InScope, WA!IsAdmin, WA!Bypass
<1>9. \A j : WA!BeingDeleted(j) => WA!BeingDeleted(j)'
  BY <1>1 DEF WA!BeingDeleted
<1>10. PastInv'
  <2>1. \A j \in DOMAIN forked : j \in 1 .. made /\ j \in WA!Ids
    BY GivenOut DEF AdminInv, PastInv
  <2>2. 1 .. made \subseteq WA!Ids
    BY GivenOut DEF AdminInv
  <2>3. made' \in Nat /\ made <= made'
    BY <1>6 DEF Onward
  <2>4. \A c \in Clients : requests'[c] = requests[c]
    BY <1>1
  <2>5. \A j \in 1 .. made : WA!Exists(j)' =>
           /\ WA!Exists(j) /\ (WA!BeingDeleted(j) => WA!BeingDeleted(j)')
           /\ completed[j] \cap WA!Steps \subseteq completed'[j] \/ WA!BeingDeleted(j)'
    BY <1>3, <1>6, <1>9, <2>2
  <2>6. \A j \in DOMAIN forked' : j \in 1 .. made' /\ ("fork" \in drives'[j] => j \in DOMAIN forked /\ "fork" \in drives[j])
    BY <1>1, <1>4, <2>1
  <2>7. \A j \in DOMAIN forked : j \in DOMAIN forked' /\ forked'[j] = forked[j]
    BY <1>1
  <2>. QED
    BY <2>3, <2>4, <2>5, <2>6, <2>7, PastStep
<1>. QED
  BY <1>5, <1>7, <1>8, <1>10 DEF AdminInv

-----------------------------------------------------------------------------
\* A new row gets an id that nothing refers to.
LEMMA RowMade ==
  ASSUME AdminInv, made < MaxInstances, made' = made + 1, NEW row, rows' = [rows EXCEPT ![made + 1] = row],
         UNCHANGED <<completed, trail, kills>>, "org" \in DOMAIN row,
         DOMAIN requests' = Clients, DOMAIN drives' = WA!Ids,
         \A j \in WA!Ids : drives'[j] # drives[j] => j = made + 1
  PROVE  /\ AdminType' /\ Onward /\ made + 1 \in WA!Ids /\ drives[made + 1] = {}
         /\ \A j \in 1 .. made : j \in 1 .. made' /\ j \in WA!Ids /\ (WA!Exists(j)' <=> WA!Exists(j))
<1>1. made \in Nat /\ made + 1 \in WA!Ids /\ made' \in Nat /\ made' <= MaxInstances /\ made <= made'
  BY AdminAssumption DEF AdminInv, AdminType, WA!Ids
<1>2. drives[made + 1] = {} /\ DOMAIN rows = WA!Ids
  BY <1>1 DEF AdminInv, AdminType
<1>3. \A j \in WA!Ids : j # made + 1 => rows'[j] = rows[j] /\ drives'[j] = drives[j]
  BY <1>1, <1>2
<1>4. \A j \in 1 .. made : j \in 1 .. made' /\ j \in WA!Ids /\ j # made + 1
  BY <1>1, GivenOut DEF AdminInv
<1>5. \A j \in 1 .. made : WA!Exists(j)' <=> WA!Exists(j)
  BY <1>3, <1>4 DEF WA!Exists, WA!None
<1>6. AdminType'
  <2>1. \A j \in WA!Ids : "org" \in DOMAIN rows'[j]
    BY <1>2, <1>3 DEF AdminInv, AdminType
  <2>2. \A j \in WA!Ids : j > made' => j # made + 1 /\ j > made /\ j \in Nat
    BY <1>1 DEF WA!Ids
  <2>3. \A j \in WA!Ids : j > made' => rows'[j] = WA!None /\ drives'[j] = {}
    BY <1>3, <2>2 DEF AdminInv, AdminType
  <2>4. DOMAIN rows' = WA!Ids /\ DOMAIN completed' = WA!Ids /\ kills' \in Nat
    BY <1>2 DEF AdminInv, AdminType
  <2>. QED
    BY <1>1, <2>1, <2>3, <2>4 DEF AdminType, WA!None
<1>7. Onward
  BY <1>1, <1>3, <1>4, <1>5 DEF Onward
<1>. QED
  BY <1>1, <1>2, <1>4, <1>5, <1>6, <1>7

\* A run, or a dry run, is launched.
LEMMA RunLaunchStep ==
  ASSUME AdminInv, NEW c \in Clients, WA!Launch(c)
  PROVE  AdminInv'
<1>1. PICK p : p = requests[c]
  OBVIOUS
<1>2. PICK new : new = IF p.left = 1 THEN WA!Idle ELSE [p EXCEPT !.left = @ - 1]
  BY Zenon
<1>3. PICK row : row = WA!NewInstance(WA!OrgOf(p.wf), p.wf, p.body)
  OBVIOUS
<1>4. PICK kind \in {"dry", "real"} : kind = IF p.dry THEN "dry" ELSE "real"
  OBVIOUS
<1>5. /\ p.pc = "launch" /\ made < MaxInstances /\ made' = made + 1 /\ rows' = [rows EXCEPT ![made + 1] = row]
      /\ drives' = [drives EXCEPT ![made + 1] = {kind}] /\ requests' = [requests EXCEPT ![c] = new]
      /\ UNCHANGED <<completed, forked, trail, acted, kills>>
  BY <1>1, <1>2, <1>3, <1>4 DEF WA!Launch, WA!Goes
<1>6. "org" \in DOMAIN row
  BY <1>3 DEF WA!NewInstance
<1>7. new.pc \in {"idle", "launch"} /\ "pc" \in DOMAIN new
  <2>1. "pc" \in DOMAIN p
    BY <1>1, <1>5 DEF AdminInv, FoundedInv, Founded
  <2>. QED
    BY <1>2, <1>5, <2>1 DEF WA!Idle
<1>8. /\ DOMAIN requests' = Clients /\ \A d \in Clients : requests'[d] = IF d = c THEN new ELSE requests[d]
      /\ DOMAIN drives' = WA!Ids /\ \A j \in WA!Ids : drives'[j] = IF j = made + 1 THEN {kind} ELSE drives[j]
  BY <1>5 DEF AdminInv, AdminType
<1>9. /\ AdminType' /\ Onward
      /\ \A j \in 1 .. made : j \in 1 .. made' /\ j \in WA!Ids /\ (WA!Exists(j)' <=> WA!Exists(j))
  BY Zenon, <1>5, <1>6, <1>8, RowMade
<1>10. FoundedInv'
  <2>1. Founded(new)'
    BY <1>7 DEF Founded, LifecycleOps, Deleting
  <2>. QED
    BY <1>8, <1>9, <2>1, FoundedStep
<1>11. \A d \in Clients : requests[d].pc \in Deleting => requests'[d] = requests[d]
  BY <1>1, <1>5, <1>8 DEF Deleting
<1>12. TrailInv'
  BY <1>5, <1>11, TrailStep
<1>13. \A j : WA!BeingDeleted(j) => WA!BeingDeleted(j)'
  BY <1>11 DEF WA!BeingDeleted, Deleting
<1>14. PastInv'
  <2>1. \A j \in DOMAIN forked : j \in 1 .. made
    BY DEF AdminInv, PastInv
  <2>2. \A d \in Clients : requests'[d].pc = "copy" => requests'[d] = requests[d]
    BY <1>7, <1>8
  <2>3. made' \in Nat /\ made <= made'
    BY <1>9 DEF Onward
  <2>4. \A j \in DOMAIN forked' : "fork" \in drives'[j] => j \in DOMAIN forked /\ "fork" \in drives[j]
    BY <1>5, <1>8, <1>9, <2>1
  <2>5. \A j \in 1 .. made : completed[j] \cap WA!Steps \subseteq completed'[j]
    BY <1>5
  <2>. QED
    BY <1>5, <1>9, <1>13, <2>1, <2>2, <2>3, <2>4, <2>5, PastStep
<1>. QED
  BY <1>9, <1>10, <1>12, <1>14 DEF AdminInv

\* What of the fork's past there is to copy: a row for every ancestor.
LEMMA ForkFacts ==
  ASSUME AdminInv, NEW c \in Clients, NEW s, WA!Fork(c, s)
  PROVE  /\ requests[c].pc = "fork" /\ UNCHANGED <<completed, drives, trail, kills>>
         /\ \/ UNCHANGED <<made, rows, forked, acted>> /\ requests' = [requests EXCEPT ![c] = WA!Idle]
            \/ \E p \in {requests[c]} :
                 /\ made < MaxInstances /\ made' = made + 1 /\ WA!Exists(p.id)
                 /\ rows' = [rows EXCEPT ![made + 1] = WA!NewInstance(rows[p.id].org, rows[p.id].wf, p.body)]
                 /\ forked' = [k \in DOMAIN forked \cup {made + 1} |->
                                 IF k = made + 1 THEN [at |-> s, body |-> p.body] ELSE forked[k]]
                 /\ acted' = acted \cup {[id |-> p.id, org |-> rows[p.id].org, by |-> p.by]}
                 /\ requests' = [requests EXCEPT ![c] =
                                   [pc |-> "copy", id |-> made + 1, todo |-> WA!Ancestors(p.body, s)]]
<1>1. \A u, j : {[id |-> i, org |-> rows[i].org, by |-> u] : i \in {j}} = {[id |-> j, org |-> rows[j].org, by |-> u]}
  OBVIOUS
<1>. QED
  BY <1>1 DEF WA!Fork, WA!Goes, WA!Ends, WA!Did

\* A fork is made, with its past to be copied, or refused.
LEMMA ForkStep ==
  ASSUME AdminInv, NEW c \in Clients, NEW s, WA!Fork(c, s)
  PROVE  AdminInv'
<1>1. PICK p : p = requests[c]
  OBVIOUS
<1>2. p.pc = "fork" /\ UNCHANGED <<completed, drives, trail, kills>>
  BY <1>1, ForkFacts
<1>3. CASE UNCHANGED <<made, rows, forked, acted>> /\ requests' = [requests EXCEPT ![c] = WA!Idle]
  <2>1. PICK new : new = WA!Idle
    OBVIOUS
  <2>2. Founded(new)' /\ new.pc # "copy"
    BY <2>1, IdleIsNoDeletion
  <2>3. requests[c].pc # "instances" /\ requests[c].pc \notin Deleting
    BY <1>1, <1>2 DEF Deleting
  <2>. QED
    BY Zenon, <1>2, <1>3, <2>1, <2>2, <2>3, CallMoves
<1>4. CASE \E r \in {requests[c]} :
            /\ made < MaxInstances /\ made' = made + 1 /\ WA!Exists(r.id)
            /\ rows' = [rows EXCEPT ![made + 1] = WA!NewInstance(rows[r.id].org, rows[r.id].wf, r.body)]
            /\ forked' = [k \in DOMAIN forked \cup {made + 1} |->
                                IF k = made + 1 THEN [at |-> s, body |-> r.body] ELSE forked[k]]
            /\ acted' = acted \cup {[id |-> r.id, org |-> rows[r.id].org, by |-> r.by]}
            /\ requests' = [requests EXCEPT ![c] =
                                [pc |-> "copy", id |-> made + 1, todo |-> WA!Ancestors(r.body, s)]]
  <2>0. /\ made < MaxInstances /\ made' = made + 1 /\ WA!Exists(p.id)
        /\ rows' = [rows EXCEPT ![made + 1] = WA!NewInstance(rows[p.id].org, rows[p.id].wf, p.body)]
        /\ forked' = [k \in DOMAIN forked \cup {made + 1} |->
                            IF k = made + 1 THEN [at |-> s, body |-> p.body] ELSE forked[k]]
        /\ acted' = acted \cup {[id |-> p.id, org |-> rows[p.id].org, by |-> p.by]}
        /\ requests' = [requests EXCEPT ![c] =
                            [pc |-> "copy", id |-> made + 1, todo |-> WA!Ancestors(p.body, s)]]
    BY Zenon, <1>1, <1>4
  <2>1. PICK i : i = made + 1
    OBVIOUS
  <2>2. PICK row : row = WA!NewInstance(rows[p.id].org, rows[p.id].wf, p.body)
    OBVIOUS
  <2>3. PICK new : new = [pc |-> "copy", id |-> i, todo |-> WA!Ancestors(p.body, s)]
    BY Zenon
  <2>4. PICK x : x = [id |-> p.id, org |-> rows[p.id].org, by |-> p.by]
    BY Zenon
  <2>5. PICK f : f = [at |-> s, body |-> p.body]
    BY Zenon
  <2>6. /\ made < MaxInstances /\ made' = i /\ WA!Exists(p.id) /\ rows' = [rows EXCEPT ![i] = row]
        /\ forked' = [k \in DOMAIN forked \cup {i} |-> IF k = i THEN f ELSE forked[k]]
        /\ acted' = acted \cup {x} /\ requests' = [requests EXCEPT ![c] = new]
    BY <2>0, <2>1, <2>2, <2>3, <2>4, <2>5
  <2>7. /\ p.id \in 1 .. made /\ WA!InScope(p.by, rows[p.id].org)
        /\ WA!Bypass(p.by, rows[p.id].org) => BypassNoted(p.by, p.id)
    <3>1. Founded(p)
      BY <1>1 DEF AdminInv, FoundedInv
    <3>. QED
      BY <1>2, <2>6, <3>1 DEF Founded, LifecycleOps
  <2>8. "org" \in DOMAIN row
    BY <2>2 DEF WA!NewInstance
  <2>9. /\ DOMAIN requests' = Clients /\ \A d \in Clients : requests'[d] = IF d = c THEN new ELSE requests[d]
        /\ DOMAIN drives' = WA!Ids /\ drives' = drives
    BY <1>2, <2>6 DEF AdminInv, AdminType
  <2>10. /\ AdminType' /\ Onward /\ i \in WA!Ids /\ drives[i] = {}
         /\ \A j \in 1 .. made : j \in 1 .. made' /\ j \in WA!Ids /\ (WA!Exists(j)' <=> WA!Exists(j))
    BY Zenon, <1>2, <2>1, <2>6, <2>8, <2>9, RowMade
  <2>11. new.pc = "copy" /\ new.id = i /\ new.todo = WA!Ancestors(p.body, s) /\ DOMAIN new = {"pc", "id", "todo"}
    BY <2>3
  <2>12. FoundedInv'
    <3>1. Founded(new)'
      BY <2>11 DEF Founded, LifecycleOps, Deleting
    <3>. QED
      BY <2>9, <2>10, <3>1, FoundedStep
  <2>13. \A d \in Clients : requests[d].pc \in Deleting => requests'[d] = requests[d]
    BY <1>1, <1>2, <2>9 DEF Deleting
  <2>14. TrailInv'
    <3>1. x.id = p.id /\ x.by = p.by /\ x.org = rows[p.id].org
      BY <2>4
    <3>2. WA!InScope(x.by, x.org) /\ (Home[x.by] # x.org => OnTrail(x)')
      <4>1. ASSUME Home[x.by] # x.org PROVE OnTrail(x)'
        <5>1. BypassNoted(x.by, x.id)
          BY <2>7, <3>1, <4>1 DEF WA!Bypass, WA!InScope
        <5>. QED
          BY <1>2, <5>1 DEF BypassNoted, OnTrail
      <4>. QED
        BY <2>7, <3>1, <4>1
    <3>3. \A y \in acted' : y \in acted \/ (WA!InScope(y.by, y.org) /\ (Home[y.by] # y.org => OnTrail(y)'))
      BY <2>6, <3>2
    <3>. QED
      BY <1>2, <2>13, <3>3, TrailStep
  <2>15. \A j : WA!BeingDeleted(j) => WA!BeingDeleted(j)'
    BY <2>13 DEF WA!BeingDeleted, Deleting
  <2>16. PastInv'
    <3>1. /\ \A j \in DOMAIN forked : j \in 1 .. made /\ j # i
          /\ made' \in Nat /\ made <= made' /\ i \in 1 .. made'
      BY <2>1, <2>6, <2>10 DEF AdminInv, AdminType, PastInv, Onward
    <3>2. /\ DOMAIN forked' = DOMAIN forked \cup {i} /\ forked'[i] = f
          /\ \A j \in DOMAIN forked : forked'[j] = forked[j]
      BY <2>6, <3>1
    <3>3. Past(forked'[i]) \subseteq new.todo
      BY <2>5, <2>11, <3>2 DEF Past
    <3>4. \A j \in {new.id}, todo \in {new.todo} : PastKept(j, todo)'
      BY <2>11, <3>3 DEF PastKept
    <3>5. \A d \in Clients : requests'[d].pc = "copy" =>
            \/ requests'[d] = requests[d]
            \/ /\ DOMAIN requests'[d] = {"pc", "id", "todo"} /\ requests'[d].id \in DOMAIN forked'
               /\ \A j \in {requests'[d].id}, todo \in {requests'[d].todo} : PastKept(j, todo)'
      BY <2>9, <2>11, <3>2, <3>4
    <3>6. \A j \in 1 .. made : completed[j] \cap WA!Steps \subseteq completed'[j]
      BY <1>2
    <3>7. \A j \in DOMAIN forked' : /\ j \in 1 .. made'
                                    /\ "fork" \in drives'[j] => j \in DOMAIN forked /\ "fork" \in drives[j]
      BY <2>9, <2>10, <3>1, <3>2
    <3>. QED
      BY <2>10, <2>15, <3>1, <3>2, <3>5, <3>6, <3>7, PastStep
  <2>. QED
    BY <2>10, <2>12, <2>14, <2>16 DEF AdminInv
<1>. QED
  BY Zenon, <1>1, <1>3, <1>4, ForkFacts

-----------------------------------------------------------------------------
\* A copy goes on or is over, and only adds to what is done.
LEMMA CopyMoves ==
  ASSUME AdminInv, NEW c \in Clients, NEW new, requests' = [requests EXCEPT ![c] = new],
         requests[c].pc = "copy", new.pc \in {"idle", "copy"},
         UNCHANGED <<rows, made, forked, trail, acted, kills>>,
         DOMAIN completed' = WA!Ids, DOMAIN drives' = WA!Ids,
         \A j \in WA!Ids : /\ completed[j] \subseteq completed'[j]
                           /\ drives'[j] = drives[j] \/ (j \in 1 .. made /\ PastKept(j, {})'),
         new.pc = "copy" => /\ DOMAIN new = {"pc", "id", "todo"} /\ new.id \in DOMAIN forked
                            /\ PastKept(new.id, new.todo)'
  PROVE  AdminInv'
<1>1. /\ \A d \in Clients : requests'[d] = IF d = c THEN new ELSE requests[d]
      /\ DOMAIN requests' = Clients
  BY DEF AdminInv, AdminType
<1>2. AdminType'
  <2>1. \A i \in WA!Ids : i > made => i \notin 1 .. made
    BY DEF AdminInv, AdminType, WA!Ids
  <2>. QED
    BY <1>1, <2>1 DEF AdminInv, AdminType, WA!None
<1>3. Onward /\ \A i : WA!Exists(i)' <=> WA!Exists(i)
  BY <1>2 DEF Onward, WA!Exists, AdminType, WA!None
<1>4. FoundedInv'
  <2>1. Founded(new)'
    BY DEF Founded, LifecycleOps, Deleting
  <2>. QED
    BY <1>1, <1>3, <2>1, FoundedStep
<1>5. \A d \in Clients : requests[d].pc \in Deleting => requests'[d] = requests[d]
  BY <1>1 DEF Deleting
<1>6. TrailInv'
  BY <1>5, TrailStep
<1>7. \A i : WA!BeingDeleted(i) => WA!BeingDeleted(i)'
  BY <1>5 DEF WA!BeingDeleted, Deleting
<1>8. PastInv'
  <2>1. \A i \in DOMAIN forked : i \in 1 .. made /\ i \in WA!Ids
    BY GivenOut DEF AdminInv, PastInv
  <2>2. made' \in Nat /\ made <= made' /\ 1 .. made \subseteq WA!Ids
    BY <1>3, GivenOut DEF Onward, AdminInv
  <2>3. \A i \in 1 .. made : completed[i] \cap WA!Steps \subseteq completed'[i]
    BY <2>2
  <2>4. \A i \in DOMAIN forked' : /\ i \in 1 .. made'
                                  /\ "fork" \in drives'[i] =>
                                       (i \in DOMAIN forked /\ "fork" \in drives[i]) \/ PastKept(i, {})'
    BY <2>1
  <2>5. \A d \in Clients : requests'[d].pc = "copy" =>
           \/ requests'[d] = requests[d]
           \/ /\ DOMAIN requests'[d] = {"pc", "id", "todo"} /\ requests'[d].id \in DOMAIN forked'
              /\ \A i \in {requests'[d].id}, todo \in {requests'[d].todo} : PastKept(i, todo)'
    BY <1>1
  <2>. QED
    BY <1>3, <1>7, <2>2, <2>3, <2>4, <2>5, PastStep
<1>. QED
  BY <1>2, <1>4, <1>6, <1>8 DEF AdminInv

\* A step of the past is copied, the drive begins, or the fork is gone.
LEMMA CopyStep ==
  ASSUME AdminInv, NEW c \in Clients, WA!Copy(c)
  PROVE  AdminInv'
<1>1. PICK p : p = requests[c]
  OBVIOUS
<1>2. p.pc = "copy" /\ UNCHANGED <<rows, made, forked, trail, acted, kills>>
  BY <1>1 DEF WA!Copy
<1>3. DOMAIN p = {"pc", "id", "todo"} /\ p.id \in DOMAIN forked /\ PastKept(p.id, p.todo)
  BY <1>1, <1>2 DEF AdminInv, PastInv
<1>4. /\ p.id \in 1 .. made /\ p.id \in WA!Ids
      /\ DOMAIN completed = WA!Ids /\ DOMAIN drives = WA!Ids
  BY <1>3, GivenOut DEF AdminInv, AdminType, PastInv
<1>5. CASE ~WA!Exists(p.id)
  <2>1. PICK new : new = WA!Idle
    OBVIOUS
  <2>2. UNCHANGED <<completed, drives>> /\ requests' = [requests EXCEPT ![c] = new]
    BY <1>1, <1>5, <2>1 DEF WA!Copy, WA!Ends, WA!Goes
  <2>3. Founded(new)' /\ new.pc # "copy"
    BY <2>1, IdleIsNoDeletion
  <2>4. requests[c].pc # "instances" /\ requests[c].pc \notin Deleting
    BY <1>1, <1>2 DEF Deleting
  <2>. QED
    BY Zenon, <1>2, <2>2, <2>3, <2>4, CallMoves
<1>6. CASE WA!Exists(p.id) /\ p.todo = {}
  <2>1. PICK new : new = WA!Idle
    OBVIOUS
  <2>2. /\ requests' = [requests EXCEPT ![c] = new] /\ drives' = [drives EXCEPT ![p.id] = @ \cup {"fork"}]
        /\ completed' = completed
    BY <1>1, <1>6, <2>1 DEF WA!Copy, WA!Ends, WA!Goes
  <2>3. new.pc = "idle"
    BY <2>1, IdleIsNoDeletion
  <2>4. PastKept(p.id, {})'
    <3>1. Past(forked[p.id]) \subseteq completed[p.id] \/ WA!BeingDeleted(p.id)
      BY <1>3, <1>6 DEF PastKept
    <3>2. WA!BeingDeleted(p.id) => WA!BeingDeleted(p.id)'
      BY <1>1, <1>2, <2>2 DEF WA!BeingDeleted, AdminInv, AdminType
    <3>. QED
      BY <1>2, <2>2, <3>1, <3>2 DEF PastKept, Past
  <2>5. DOMAIN drives' = WA!Ids /\ \A j \in WA!Ids : j # p.id => drives'[j] = drives[j]
    BY <1>4, <2>2
  <2>6. \A j \in WA!Ids : /\ completed[j] \subseteq completed'[j]
                          /\ drives'[j] = drives[j] \/ (j \in 1 .. made /\ PastKept(j, {})')
    BY <1>4, <2>2, <2>4, <2>5
  <2>. QED
    BY Zenon, <1>1, <1>2, <1>4, <2>2, <2>3, <2>5, <2>6, CopyMoves
<1>7. CASE WA!Exists(p.id) /\ p.todo # {}
  <2>1. PICK s \in p.todo : /\ completed' = [completed EXCEPT ![p.id] = @ \cup {s}] /\ drives' = drives
                            /\ requests' = [requests EXCEPT ![c] = [p EXCEPT !.todo = @ \ {s}]]
    BY <1>1, <1>7 DEF WA!Copy, WA!Goes
  <2>2. PICK new : new = [p EXCEPT !.todo = @ \ {s}]
    BY Zenon
  <2>3. /\ requests' = [requests EXCEPT ![c] = new] /\ new.pc = "copy" /\ new.id = p.id
        /\ new.todo = p.todo \ {s} /\ DOMAIN new = {"pc", "id", "todo"}
    BY <1>2, <1>3, <2>1, <2>2
  <2>4. DOMAIN completed' = WA!Ids /\ \A j \in WA!Ids : completed'[j] = IF j = p.id THEN completed[j] \cup {s} ELSE completed[j]
    BY <1>4, <2>1
  <2>5. PastKept(new.id, new.todo)'
    <3>1. Past(forked[p.id]) \subseteq completed[p.id] \cup p.todo \/ WA!BeingDeleted(p.id)
      BY <1>3, <1>7 DEF PastKept
    <3>2. WA!BeingDeleted(p.id) => WA!BeingDeleted(p.id)'
      BY <1>1, <1>2, <2>3 DEF WA!BeingDeleted, AdminInv, AdminType
    <3>3. Past(forked[p.id]) \subseteq completed'[p.id] \cup new.todo \/ WA!BeingDeleted(p.id)'
      BY <1>4, <2>3, <2>4, <3>1, <3>2
    <3>. QED
      BY <1>2, <2>3, <3>3 DEF PastKept, Past
  <2>6. DOMAIN drives' = WA!Ids /\ \A j \in WA!Ids : completed[j] \subseteq completed'[j] /\ drives'[j] = drives[j]
    BY <1>4, <2>1, <2>4
  <2>. QED
    BY Zenon, <1>1, <1>2, <1>3, <2>3, <2>4, <2>5, <2>6, CopyMoves
<1>. QED
  BY <1>5, <1>6, <1>7

-----------------------------------------------------------------------------
\* A deletion takes rows away, its instances' first, and remembers which.
LEMMA DeletionMoves ==
  ASSUME AdminInv, NEW c \in Clients, NEW new, requests' = [requests EXCEPT ![c] = new],
         UNCHANGED <<made, forked, drives, trail, kills>>, Founded(new)', new.pc \in Deleting,
         DOMAIN rows' = WA!Ids, DOMAIN completed' = WA!Ids,
         \A j \in WA!Ids : /\ rows'[j] = rows[j] \/ rows'[j] = WA!None
                           /\ WA!Exists(j)' => completed'[j] = completed[j] \/ WA!BeingDeleted(j)',
         requests[c].pc = "instances" =>
           /\ new.pc = "instances"
           /\ \A j \in requests[c].todo : j \in WA!Ids /\ WA!Exists(j)' => j \in new.todo,
         requests[c].pc \in Deleting =>
           LET p == requests[c]
           IN p.gone \subseteq new.gone /\ new.by = p.by /\ new.org = p.org /\ new.action = p.action,
         \A x \in acted' : x \in acted \/ (WA!InScope(x.by, x.org) /\ (Home[x.by] # x.org => OnTrail(x)'))
  PROVE  AdminInv'
<1>1. /\ \A d \in Clients : requests'[d] = IF d = c THEN new ELSE requests[d]
      /\ DOMAIN requests' = Clients
  BY DEF AdminInv, AdminType
<1>2. AdminType'
  BY <1>1 DEF AdminInv, AdminType, WA!None
<1>3. Onward /\ \A i \in 1 .. made : i \in WA!Ids /\ (WA!Exists(i)' => WA!Exists(i))
  BY <1>2, GivenOut DEF Onward, WA!Exists, AdminInv, AdminType, WA!None
<1>4. FoundedInv'
  BY <1>1, <1>3, FoundedStep
<1>5. TrailInv'
  <2>1. \A d \in Clients : requests[d].pc \in Deleting =>
          LET p == requests[d]
              q == requests'[d]
          IN \/ /\ q.pc \in Deleting /\ p.gone \subseteq q.gone /\ q.by = p.by /\ q.org = p.org
                /\ q.action = p.action
             \/ \E e \in trail' : e.ids = p.gone /\ e.by = p.by /\ e.bypass = WA!Bypass(p.by, p.org)
                                  /\ e.action = p.action
    BY <1>1
  <2>. QED
    BY <2>1, TrailStep
<1>6. \A i \in WA!Ids : WA!Exists(i)' /\ WA!BeingDeleted(i) => WA!BeingDeleted(i)'
  BY <1>1 DEF WA!BeingDeleted
<1>7. PastInv'
  <2>1. \A i \in DOMAIN forked : i \in 1 .. made
    BY DEF AdminInv, PastInv
  <2>2. \A d \in Clients : requests'[d].pc = "copy" => requests'[d] = requests[d]
    BY <1>1 DEF Deleting
  <2>3. made' \in Nat /\ made <= made'
    BY <1>3 DEF Onward
  <2>4. \A i \in 1 .. made : WA!Exists(i)' =>
           /\ WA!Exists(i) /\ (WA!BeingDeleted(i) => WA!BeingDeleted(i)')
           /\ completed[i] \cap WA!Steps \subseteq completed'[i] \/ WA!BeingDeleted(i)'
    BY <1>3, <1>6
  <2>. QED
    BY <2>1, <2>2, <2>3, <2>4, PastStep
<1>. QED
  BY <1>2, <1>4, <1>5, <1>7 DEF AdminInv

\* The step rows of what is to be deleted go.
LEMMA DeleteRowsStep ==
  ASSUME AdminInv, NEW c \in Clients, WA!DeleteRows(c)
  PROVE  AdminInv'
<1>1. PICK p : p = requests[c]
  OBVIOUS
<1>2. PICK new : new = [p EXCEPT !.pc = "instances"]
  BY Zenon
<1>3. /\ UNCHANGED <<rows, made, forked, drives, trail, acted, kills>> /\ p.pc = "rows"
      /\ completed' = [i \in WA!Ids |-> IF i \in p.todo THEN {} ELSE completed[i]]
      /\ requests' = [requests EXCEPT ![c] = new]
  BY <1>1, <1>2 DEF WA!DeleteRows, WA!Goes
<1>4. Founded(p)
  BY <1>1 DEF AdminInv, FoundedInv
<1>5. DOMAIN p = {"pc", "by", "wf", "org", "todo", "gone", "action"}
  BY <1>3, <1>4 DEF Founded, Deleting
<1>6. /\ DOMAIN new = DOMAIN p /\ new.pc = "instances" /\ new.by = p.by /\ new.org = p.org
      /\ new.todo = p.todo /\ new.gone = p.gone /\ new.action = p.action
  BY <1>2, <1>5
<1>7. Founded(new)'
  <2>1. Founded(new)
    BY <1>3, <1>4, <1>6 DEF Founded, LifecycleOps, Deleting
  <2>2. Onward /\ made \in Nat
    BY <1>3 DEF Onward, AdminInv, AdminType, WA!Exists, WA!None
  <2>. QED
    BY <2>1, <2>2, FoundedStays
<1>8. DOMAIN rows' = WA!Ids /\ DOMAIN completed' = WA!Ids
  BY <1>3 DEF AdminInv, AdminType
<1>9. \A j \in WA!Ids : completed'[j] = completed[j] \/ WA!BeingDeleted(j)'
  <2>1. requests'[c] = new
    BY <1>3 DEF AdminInv, AdminType
  <2>. QED
    BY <1>3, <1>6, <2>1 DEF WA!BeingDeleted
<1>10. /\ requests[c].pc # "instances" /\ new.pc \in Deleting
       /\ requests[c].gone \subseteq new.gone /\ new.by = requests[c].by
       /\ new.org = requests[c].org /\ new.action = requests[c].action
  BY <1>1, <1>3, <1>6 DEF Deleting
<1>. QED
  BY Zenon, <1>3, <1>7, <1>8, <1>9, <1>10, DeletionMoves

\* Bulk deletion takes the instances it read, all within the caller's scope.
LEMMA DeleteStatesStep ==
  ASSUME AdminInv, NEW c \in Clients, WA!DeleteStates(c)
  PROVE  AdminInv'
<1>1. PICK p : p = requests[c]
  OBVIOUS
<1>2. PICK new : new = [pc |-> "record", by |-> p.by, wf |-> "none", org |-> Home[p.by],
                        todo |-> {}, gone |-> p.todo, action |-> "instances_bulk_deleted"]
  BY Zenon
<1>3. p.pc = "bulk" /\ WA!Remove(c, p.todo)
  BY <1>1 DEF WA!DeleteStates
<1>4. /\ UNCHANGED <<made, forked, drives, trail, kills>> /\ requests' = [requests EXCEPT ![c] = new]
  BY <1>1, <1>2 DEF WA!DeleteStates, WA!Goes
<1>5. /\ rows' = [i \in WA!Ids |-> IF i \in p.todo THEN WA!None ELSE rows[i]]
      /\ completed' = [i \in WA!Ids |-> IF i \in p.todo THEN {} ELSE completed[i]]
      /\ acted' = acted \cup {[id |-> i, org |-> rows[i].org, by |-> p.by] : i \in {j \in p.todo : WA!Exists(j)}}
  BY <1>1, <1>3 DEF WA!Remove, WA!Did
<1>6. \A i \in p.todo : WA!Exists(i) => WA!InScope(p.by, rows[i].org)
  <2>1. Founded(p)
    BY <1>1 DEF AdminInv, FoundedInv
  <2>. QED
    BY <1>3, <2>1 DEF Founded
<1>7. /\ new.pc = "record" /\ new.by = p.by /\ new.todo = {} /\ new.gone = p.todo
      /\ new.action = "instances_bulk_deleted"
      /\ DOMAIN new = {"pc", "by", "wf", "org", "todo", "gone", "action"}
  BY <1>2
<1>8. Founded(new)' /\ new.pc \in Deleting
  BY <1>7 DEF Founded, LifecycleOps, Deleting
<1>9. /\ DOMAIN rows' = WA!Ids /\ DOMAIN completed' = WA!Ids
      /\ \A j \in WA!Ids : /\ rows'[j] = rows[j] \/ rows'[j] = WA!None
                           /\ WA!Exists(j)' => completed'[j] = completed[j]
  BY <1>5 DEF WA!Exists, WA!None
<1>10. requests[c].pc # "instances" /\ requests[c].pc \notin Deleting
  BY <1>1, <1>3 DEF Deleting
<1>11. ASSUME NEW x \in acted', x \notin acted
       PROVE  WA!InScope(x.by, x.org) /\ OnTrail(x)'
  <2>1. PICK i \in p.todo : WA!Exists(i) /\ x = [id |-> i, org |-> rows[i].org, by |-> p.by]
    BY <1>5, <1>11
  <2>2. x.id = i /\ x.org = rows[i].org /\ x.by = p.by
    BY <2>1
  <2>3. requests'[c] = new
    BY <1>4 DEF AdminInv, AdminType
  <2>. QED
    BY <1>6, <1>7, <1>8, <2>1, <2>2, <2>3 DEF OnTrail
<1>. QED
  BY Zenon, <1>4, <1>8, <1>9, <1>10, <1>11, DeletionMoves

\* A deletion takes its next instance: of its own organization's, when it is
\* of one instance.
LEMMA DeleteInstanceStep ==
  ASSUME AdminInv, NEW c \in Clients, WA!DeleteInstance(c)
  PROVE  AdminInv'
<1>1. PICK p : p = requests[c]
  OBVIOUS
<1>2. p.pc = "instances" /\ UNCHANGED <<made, forked, drives, trail, kills>>
  BY <1>1 DEF WA!DeleteInstance
<1>3. Founded(p) /\ p.pc \in Deleting
  BY <1>1, <1>2 DEF AdminInv, FoundedInv, Deleting
<1>4. /\ DOMAIN p = {"pc", "by", "wf", "org", "todo", "gone", "action"} /\ p.todo \subseteq 1 .. made
      /\ p.action = "workflow_deleted" \/ p.action = "instance_deleted"
      /\ p.action = "instance_deleted" =>
           WA!InScope(p.by, p.org) /\ \A i \in p.todo : WA!Exists(i) => rows[i].org = p.org
  BY <1>2, <1>3 DEF Founded
<1>5. CASE p.todo = {}
  <2>1. PICK new : new = [p EXCEPT !.pc = "definition"]
    BY Zenon
  <2>2. UNCHANGED <<rows, completed, acted>> /\ requests' = [requests EXCEPT ![c] = new]
    BY <1>1, <1>5, <2>1 DEF WA!DeleteInstance, WA!Goes
  <2>3. /\ DOMAIN new = DOMAIN p /\ new.pc = "definition" /\ new.by = p.by /\ new.org = p.org
        /\ new.todo = {} /\ new.gone = p.gone /\ new.action = p.action
    BY <1>4, <1>5, <2>1
  <2>4. Founded(new)'
    BY <1>4, <2>3 DEF Founded, LifecycleOps, Deleting, WA!InScope, WA!IsAdmin
  <2>5. /\ requests[c].todo = {} /\ new.pc # "copy" /\ new.pc \in Deleting /\ requests[c].gone \subseteq new.gone
        /\ new.by = requests[c].by /\ new.org = requests[c].org /\ new.action = requests[c].action
    BY <1>1, <1>5, <2>3 DEF Deleting
  <2>. QED
    BY Zenon, <1>2, <2>2, <2>4, <2>5, CallMoves
<1>6. CASE p.todo # {}
  <2>1. PICK i : i = CHOOSE x \in p.todo : \A y \in p.todo : x <= y
    OBVIOUS
  <2>2. i \in p.todo
    BY <1>4, <1>6, <2>1, SmallestOf
  <2>3. PICK new : new = [p EXCEPT !.todo = @ \ {i}, !.gone = @ \cup {i}]
    OBVIOUS
  <2>4. requests' = [requests EXCEPT ![c] = new] /\ WA!Remove(c, {i})
    BY <1>1, <1>6, <2>1, <2>3 DEF WA!DeleteInstance, WA!Goes
  <2>5. /\ DOMAIN new = DOMAIN p /\ new.pc = "instances" /\ new.by = p.by /\ new.org = p.org
        /\ new.todo = p.todo \ {i} /\ new.gone = p.gone \cup {i} /\ new.action = p.action
    BY <1>2, <1>4, <2>3
  <2>6. /\ rows' = [j \in WA!Ids |-> IF j \in {i} THEN WA!None ELSE rows[j]]
        /\ completed' = [j \in WA!Ids |-> IF j \in {i} THEN {} ELSE completed[j]]
    BY <2>4 DEF WA!Remove
  <2>7. /\ DOMAIN rows' = WA!Ids /\ DOMAIN completed' = WA!Ids
        /\ \A j \in WA!Ids : /\ rows'[j] = rows[j] \/ rows'[j] = WA!None
                             /\ WA!Exists(j)' => completed'[j] = completed[j] /\ j # i /\ WA!Exists(j)
                             /\ WA!Exists(j)' => rows'[j] = rows[j]
    BY <2>6 DEF WA!Exists, WA!None
  <2>8. Founded(new)'
    <3>1. \A j \in new.todo : j \in 1 .. made /\ j \in WA!Ids /\ j \in p.todo
      BY <1>4, <2>5, GivenOut DEF AdminInv
    <3>2. p.action = "instance_deleted" => \A j \in new.todo : WA!Exists(j)' => rows'[j].org = p.org
      BY <1>4, <2>7, <3>1
    <3>. QED
      BY <1>2, <1>4, <2>5, <3>1, <3>2 DEF Founded, LifecycleOps, Deleting, WA!InScope, WA!IsAdmin
  <2>9. ASSUME NEW x \in acted', x \notin acted
        PROVE  WA!InScope(x.by, x.org) /\ (Home[x.by] # x.org => OnTrail(x)')
    <3>1. /\ p.action = "instance_deleted"
          /\ acted' = acted \cup {[id |-> j, org |-> rows[j].org, by |-> p.by] : j \in {k \in {i} : WA!Exists(k)}}
      BY <1>1, <1>2, <1>4, <2>4, <2>9 DEF WA!Remove, WA!Did
    <3>2. WA!Exists(i) /\ x = [id |-> i, org |-> rows[i].org, by |-> p.by]
      BY <2>9, <3>1
    <3>3. x.id = i /\ x.org = p.org /\ x.by = p.by /\ WA!InScope(p.by, p.org)
      BY <1>4, <2>2, <3>1, <3>2
    <3>4. requests'[c] = new
      BY <2>4 DEF AdminInv, AdminType
    <3>5. Home[x.by] # x.org => WA!Bypass(x.by, x.org)
      BY <3>3 DEF WA!Bypass, WA!InScope
    <3>6. Home[x.by] # x.org => OnTrail(x)'
      BY <2>5, <3>3, <3>4, <3>5 DEF OnTrail, Deleting, WA!Bypass, WA!IsAdmin
    <3>. QED
      BY <3>3, <3>6
  <2>10. /\ new.pc \in Deleting /\ requests[c].gone \subseteq new.gone /\ new.by = requests[c].by
         /\ new.org = requests[c].org /\ new.action = requests[c].action /\ new.pc = "instances"
         /\ \A j \in requests[c].todo : j \in WA!Ids /\ WA!Exists(j)' => j \in new.todo
    BY <1>1, <2>5, <2>7 DEF Deleting
  <2>. QED
    BY Zenon, <1>2, <2>4, <2>7, <2>8, <2>9, <2>10, DeletionMoves
<1>. QED
  BY <1>5, <1>6

-----------------------------------------------------------------------------
\* The process dies: no call and no drive is left, and the sweep pauses.
LEMMA CrashStep ==
  ASSUME AdminInv, WA!Crash
  PROVE  AdminInv'
<1>1. /\ UNCHANGED <<completed, made, forked, trail, acted>> /\ kills' = kills + 1
      /\ drives' = [i \in WA!Ids |-> {}] /\ requests' = [c \in Clients |-> WA!Idle]
      /\ rows' = [i \in WA!Ids |-> IF WA!Exists(i) /\ rows[i].state = "RUNNING"
                                   THEN [rows[i] EXCEPT !.state = "PAUSED"] ELSE rows[i]]
  BY DEF WA!Crash
<1>2. \A i \in WA!Ids : "org" \in DOMAIN rows'[i] /\ rows'[i].org = rows[i].org
  BY <1>1 DEF AdminInv, AdminType
<1>3. \A i \in WA!Ids : ~WA!Exists(i) => rows'[i] = WA!None
  BY <1>1 DEF WA!Exists, WA!None
<1>4. \A c \in Clients : requests'[c] = WA!Idle /\ requests'[c].pc = "idle"
  BY <1>1, IdleIsNoDeletion
<1>5. AdminType'
  BY <1>1, <1>2, <1>3 DEF AdminInv, AdminType, WA!Exists, WA!None
<1>6. FoundedInv'
  BY <1>4, IdleIsNoDeletion DEF FoundedInv
<1>7. TrailInv'
  <2>1. kills' # 0
    BY <1>1 DEF AdminInv, AdminType
  <2>. QED
    BY <1>1, <2>1 DEF AdminInv, TrailInv, WA!InScope, WA!IsAdmin
<1>8. PastInv'
  <2>1. \A i \in DOMAIN forked : i \in 1 .. made /\ i \in WA!Ids
    BY GivenOut DEF AdminInv, PastInv
  <2>. QED
    BY <1>1, <1>4, <2>1 DEF PastInv
<1>. QED
  BY <1>5, <1>6, <1>7, <1>8 DEF AdminInv

\* Every step of the administration keeps the invariant.
LEMMA AdminStep ==
  ASSUME AdminInv, WA!Next
  PROVE  AdminInv'
<1>1. ASSUME NEW c \in Clients, NEW u \in Users,
             \/ \E n \in Names, b \in Shapes, o \in WA!Orgs : WA!Create(c, u, n, b, o)
             \/ \E b \in Shapes, o \in WA!Orgs : WA!Scaffold(c, u, b, o)
             \/ \E w \in WA!WorkflowIds, b \in Shapes, o \in WA!Orgs : WA!Import(c, u, w, b, o)
             \/ \E w \in WA!WorkflowIds, f \in BOOLEAN : WA!DeleteWorkflow(c, u, w, f)
             \/ \E w \in WA!WorkflowIds, n \in 1 .. 2 : WA!Run(c, u, w, n)
             \/ \E w \in WA!WorkflowIds : WA!DryRun(c, u, w)
             \/ \E i \in WA!Ids, op \in LifecycleOps : WA!Lifecycle(c, u, op, i)
             \/ \E s \in {WA!Terminal, {"FAILED"}} : WA!DeleteBulk(c, u, s)
      PROVE  AdminInv'
  BY <1>1, DefinitionStarts, DeleteWorkflowStep, LifecycleStep, DeleteBulkStep
<1>2. ASSUME NEW c \in Clients,
             \/ WA!Save(c) \/ WA!Launch(c) \/ WA!Pause(c) \/ WA!Kill(c) \/ WA!Retry(c) \/ WA!Audited(c)
             \/ WA!Resume(c) \/ WA!Copy(c) \/ WA!Delete(c) \/ WA!DeleteStates(c) \/ WA!DeleteRows(c)
             \/ WA!DeleteInstance(c) \/ WA!DeleteDefinition(c) \/ WA!Record(c)
             \/ \E s \in WA!Steps : WA!Fork(c, s)
      PROVE  AdminInv'
  BY <1>2, CallEnds, RunLaunchStep, WriteBackStep, CopyStep, DeleteStep, DeleteStatesStep, DeleteRowsStep,
     DeleteInstanceStep, DeletionEnds, ForkStep
<1>. QED
  BY <1>1, <1>2, ResumeTaskStep, SettleStep, CrashStep DEF WA!Next, LifecycleOps

\* No instance, no call and no act yet.
LEMMA AdminInitially ==
  ASSUME WA!Init
  PROVE  AdminInv
<1>1. /\ rows = [i \in WA!Ids |-> WA!None] /\ completed = [i \in WA!Ids |-> {}] /\ made = 0 /\ forked = <<>>
      /\ drives = [i \in WA!Ids |-> {}] /\ requests = [c \in Clients |-> WA!Idle] /\ acted = {} /\ kills = 0
  BY DEF WA!Init
<1>2. \A c \in Clients : requests[c].pc = "idle"
  BY <1>1 DEF WA!Idle
<1>3. AdminType
  BY <1>1, AdminAssumption DEF AdminType, WA!None
<1>4. FoundedInv
  BY <1>2 DEF FoundedInv, Founded, LifecycleOps, Deleting
<1>5. TrailInv
  BY <1>1 DEF TrailInv
<1>6. PastInv
  BY <1>1, <1>2 DEF PastInv
<1>. QED
  BY <1>3, <1>4, <1>5, <1>6 DEF AdminInv

\* What the invariant says of the acts and of the forks.
LEMMA AdminPromise ==
  ASSUME AdminInv
  PROVE  WA!CrossOrgActsAreOnRecord /\ WA!ForksKeepTheirPast
<1>1. WA!CrossOrgActsAreOnRecord
  BY DEF AdminInv, TrailInv, OnTrail, Deleting, WA!CrossOrgActsAreOnRecord
<1>2. ASSUME NEW f, NEW s \in WA!Steps, WA!Reaches(f.body, s, f.at)
      PROVE  s \in Past(f)
  <2>1. \A body, x, y : <<x, y>> \in WA!Bodies[body] => x \in WA!Preds(body, y)
    <3> SUFFICES ASSUME NEW body, NEW x, NEW y, <<x, y>> \in WA!Bodies[body]
                 PROVE  x \in WA!Preds(body, y)
      OBVIOUS
    <3> DEFINE edges == WA!Bodies[body]
    <3> HIDE DEF edges
    <3>1. <<x, y>> \in {e \in edges : e[2] = y} /\ <<x, y>>[1] = x
      BY DEF edges
    <3>2. \E e \in {e \in edges : e[2] = y} : x = e[1]
      BY <3>1
    <3>. QED
      BY <3>2 DEF WA!Preds, edges
  <2>2. \/ s \in WA!Preds(f.body, f.at)
        \/ \E m : s \in WA!Preds(f.body, m) /\ m \in WA!Preds(f.body, f.at)
    BY Zenon, <1>2, <2>1 DEF WA!Reaches
  <2>3. s \in WA!Ancestors(f.body, f.at)
    BY <2>2 DEF WA!Ancestors
  <2>. QED
    BY <2>3 DEF Past
<1>3. WA!ForksKeepTheirPast
  BY <1>2 DEF AdminInv, PastInv, PastKept, WA!ForksKeepTheirPast
<1>. QED
  BY <1>1, <1>3

\* However many users, organizations, definitions and calls there are, and
\* wherever a crash falls: whoever changes, forks or deletes an instance is of
\* its organization or an Administrator, and as long as no crash took a call
\* with it the log says so or the call still will; and a fork drives with its
\* whole past done (api/workflows.py).
THEOREM ActsAreOnRecord == Spec => []AdministrationIsOnRecord
<1> DEFINE Inv == part = "admin" => AdminInv
<1>1. Init => Inv
  BY AdminInitially DEF Init
<1>2. Inv /\ [Next]_all => Inv'
  <2>1. ASSUME Inv, Next PROVE Inv'
    BY <2>1, AdminStep DEF Next
  <2>2. ASSUME Inv, UNCHANGED all PROVE Inv'
    <3> SUFFICES ASSUME AdminInv PROVE AdminInv'
      BY <2>2 DEF all
    <3>1. UNCHANGED <<rows, completed, made, forked, drives, requests, trail, acted, kills>>
      BY <2>2 DEF all
    <3>2. DOMAIN rows' = WA!Ids /\ DOMAIN requests' = Clients /\ DOMAIN drives' = WA!Ids
      BY <3>1 DEF AdminInv, AdminType
    <3>3. \A i \in WA!Ids : "org" \in DOMAIN rows[i]
      BY DEF AdminInv, AdminType
    <3>. QED
      BY <3>1, <3>2, <3>3, RowsMove
  <2>. QED
    BY <2>1, <2>2
<1>3. Inv => AdministrationIsOnRecord
  BY AdminPromise DEF AdministrationIsOnRecord
<1>. QED
  BY <1>1, <1>2, <1>3, PTL DEF Spec

-----------------------------------------------------------------------------
(* Browser.                                                                *)

browser == v1
pages   == v2
known   == v3
owner   == v4
policy  == v5
calling == v6   \* its asked, per step the call
reply   == v7
sent    == v8
files   == v9
mishaps == v10

PageCall ==
  {c \in [tool : BR!Tools \cup {"none"},
          phase : {"idle", "waiting", "entered", "running", "returned", "saving", "in_flight"},
          checked : Nat, seen : Nat, ok : BOOLEAN, target : Hosts \cup {"blank"}, hops : Nat, calls : Nat] :
     c.tool \in {"navigate", "fetch_url"} => c.target \in Hosts}
PageReply == [kind : {"none", "content", "error", "class", "denied", "withheld", "done", "saved"},
              seen : Nat, checked : Nat]

BrowserType ==
  /\ pages \in Seq(BR!Places) /\ known \in 1 .. Len(pages)
  /\ calling \in [PageSteps -> PageCall] /\ reply \in [PageSteps -> PageReply]

\* A call inside `operation` holds the lock, and the policy in force is its step's.
OperationInv ==
  \A s \in PageSteps : calling[s].phase \notin {"idle", "waiting"} => owner = s /\ policy = s

\* A call that passed its guard checked a document its step may see, and what
\* it ran in is that document or a later one.
CheckedInv ==
  \A s \in PageSteps :
    /\ calling[s].phase \in {"running", "returned"} =>
         calling[s].checked \in 1 .. known /\ BR!Within(s, pages[calling[s].checked])
    /\ calling[s].phase = "returned" => calling[s].seen \in calling[s].checked .. Len(pages)

\* What a request in flight was sent for is a host of its step.
FlightInv ==
  \A s \in PageSteps : calling[s].phase = "in_flight" =>
    calling[s].target \in Hosts /\ BR!Within(s, calling[s].target)

\* What was answered of a document is of one the page has had.
QuotedInv ==
  \A s \in Restricted : reply[s].kind \in {"content", "error"} =>
    /\ reply[s].seen \in 1 .. Len(pages) /\ reply[s].seen = reply[s].checked
    /\ BR!Within(s, pages[reply[s].seen])

\* Every request and every file is of a host its own step may use.
TrafficInv ==
  /\ sent \in SUBSET (PageSteps \X Hosts) /\ files \in SUBSET (PageSteps \X BR!Places)
  /\ BR!CallsStayWithinTheirPolicy

BrowserInv == BrowserType /\ OperationInv /\ CheckedInv /\ FlightInv /\ QuotedInv /\ TrafficInv

USE DEF browser, pages, known, owner, policy, calling, reply, sent, files, mishaps
Grown ==
  /\ pages' \in Seq(BR!Places) /\ Len(pages) <= Len(pages')
  /\ \A i \in 1 .. Len(pages) : pages'[i] = pages[i]
  /\ known' \in known .. Len(pages')

\* The documents of the page are numbered from 1, and the known one is among them.
LEMMA BrowserSets ==
  ASSUME BrowserType
  PROVE  /\ Len(pages) \in Nat /\ known \in Nat /\ 1 <= known /\ known <= Len(pages)
         /\ DOMAIN pages = 1 .. Len(pages) /\ \A i \in 1 .. Len(pages) : pages[i] \in BR!Places
BY DEF BrowserType

\* The page goes to one more document, or stays where it is.
LEMMA PageAppended ==
  ASSUME BrowserType, NEW x \in BR!Places, pages' = Append(pages, x), known' \in known .. Len(pages) + 1
  PROVE  Grown
<1>1. /\ pages' \in Seq(BR!Places) /\ Len(pages') = Len(pages) + 1
      /\ \A i \in DOMAIN pages : pages'[i] = pages[i]
  BY Appended DEF BrowserType
<1>. QED
  BY <1>1, BrowserSets DEF Grown

\* The page stays where it is.
LEMMA PageStays ==
  ASSUME BrowserType, pages' = pages, known' \in known .. Len(pages)
  PROVE  Grown
BY BrowserSets DEF Grown, BrowserType

\* The page is blanked, or that fails and it stays.
LEMMA PageCleaned ==
  ASSUME BrowserType, BR!Cleaning
  PROVE  Grown
<1>1. CASE pages' = Append(pages, "blank") /\ known' = Len(pages) + 1
  <2>1. "blank" \in BR!Places /\ known' \in known .. Len(pages) + 1
    BY <1>1, BrowserSets DEF BR!Places
  <2>. QED
    BY <1>1, <2>1, PageAppended
<1>2. CASE UNCHANGED <<pages, known>>
  <2>1. known' \in known .. Len(pages)
    BY <1>2, BrowserSets
  <2>. QED
    BY <1>2, <2>1, PageStays
<1>. QED
  BY <1>1, <1>2 DEF BR!Cleaning

\* A step's own call moves, the page grows: what is left to show is of that call.
LEMMA OneCallMoves ==
  ASSUME BrowserInv, NEW s \in PageSteps, Grown,
         calling' \in [PageSteps -> PageCall], reply' \in [PageSteps -> PageReply],
         \A t \in PageSteps : t # s => calling'[t] = calling[t] /\ reply'[t] = reply[t],
         \A t \in PageSteps : t # s /\ calling[t].phase \notin {"idle", "waiting"} => owner' = t /\ policy' = t,
         calling'[s].phase \notin {"idle", "waiting"} => owner' = s /\ policy' = s,
         calling'[s].phase \in {"running", "returned"} =>
           calling'[s].checked \in 1 .. known' /\ BR!Within(s, pages'[calling'[s].checked]),
         calling'[s].phase = "returned" => calling'[s].seen \in calling'[s].checked .. Len(pages'),
         calling'[s].phase = "in_flight" => calling'[s].target \in Hosts /\ BR!Within(s, calling'[s].target),
         s \in Restricted /\ reply'[s].kind \in {"content", "error"} =>
           /\ reply'[s].seen \in 1 .. Len(pages') /\ reply'[s].seen = reply'[s].checked
           /\ BR!Within(s, pages'[reply'[s].seen]),
         TrafficInv'
  PROVE  BrowserInv'
<1>1. /\ Len(pages) \in Nat /\ known \in Nat /\ 1 <= known /\ known <= Len(pages)
      /\ Len(pages') \in Nat /\ Len(pages) <= Len(pages') /\ known' \in known .. Len(pages')
      /\ \A i \in 1 .. Len(pages) : pages'[i] = pages[i]
  BY BrowserSets DEF BrowserInv, Grown
<1>2. BrowserType'
  BY <1>1 DEF BrowserType, Grown
<1>3. OperationInv'
  BY DEF OperationInv
<1>4. CheckedInv'
  <2> SUFFICES ASSUME NEW t \in PageSteps, t # s
               PROVE  /\ calling[t].phase \in {"running", "returned"} =>
                           calling[t].checked \in 1 .. known' /\ BR!Within(t, pages'[calling[t].checked])
                      /\ calling[t].phase = "returned" => calling[t].seen \in calling[t].checked .. Len(pages')
    BY DEF CheckedInv, BR!Within
  <2>1. /\ calling[t].phase \in {"running", "returned"} =>
             calling[t].checked \in 1 .. known /\ BR!Within(t, pages[calling[t].checked])
        /\ calling[t].phase = "returned" => calling[t].seen \in calling[t].checked .. Len(pages)
    BY DEF BrowserInv, CheckedInv
  <2>2. calling[t].phase \in {"running", "returned"} =>
          calling[t].checked \in 1 .. known' /\ calling[t].checked \in 1 .. Len(pages)
    BY <1>1, <2>1
  <2>3. calling[t].checked \in Nat /\ calling[t].seen \in Nat
    BY Zenon DEF BrowserInv, BrowserType, PageCall
  <2>4. calling[t].phase = "returned" => calling[t].seen \in calling[t].checked .. Len(pages')
    BY <1>1, <2>1, <2>3
  <2>. QED
    BY <1>1, <2>1, <2>2, <2>4
<1>5. FlightInv'
  BY DEF BrowserInv, FlightInv, BR!Within
<1>6. QuotedInv'
  <2> SUFFICES ASSUME NEW t \in Restricted, t # s, reply[t].kind \in {"content", "error"}
               PROVE  /\ reply[t].seen \in 1 .. Len(pages') /\ reply[t].seen = reply[t].checked
                      /\ BR!Within(t, pages'[reply[t].seen])
    BY BrowserAssumption DEF QuotedInv, BR!Within
  <2>1. /\ reply[t].seen \in 1 .. Len(pages) /\ reply[t].seen = reply[t].checked
        /\ BR!Within(t, pages[reply[t].seen])
    BY DEF BrowserInv, QuotedInv
  <2>. QED
    BY <1>1, <2>1
<1>. QED
  BY <1>2, <1>3, <1>4, <1>5, <1>6 DEF BrowserInv

\* Whoever holds the lock is the only one inside `operation`.
LEMMA AloneInside ==
  ASSUME OperationInv, NEW s \in PageSteps, owner = s \/ owner = Nobody
  PROVE  \A t \in PageSteps : t # s => calling[t].phase \in {"idle", "waiting"}
BY BrowserAssumption DEF OperationInv

\* An answer quotes a document only if it is the one its call checked.
LEMMA CallAnswered ==
  ASSUME BrowserInv, NEW s \in PageSteps, owner = s, Grown, policy' = policy, TrafficInv',
         NEW kind \in {"content", "error", "class", "denied", "withheld", "done", "saved"}, BR!Answer(s, kind),
         s \in Restricted /\ kind \in {"content", "error"} =>
           /\ calling[s].seen \in 1 .. Len(pages) /\ calling[s].seen = calling[s].checked
           /\ BR!Within(s, pages[calling[s].seen])
  PROVE  BrowserInv'
<1> DEFINE c == [BR!Idle EXCEPT !.calls = calling[s].calls]
           r == IF kind \in {"content", "error"}
                  THEN [kind |-> kind, seen |-> calling[s].seen, checked |-> calling[s].checked]
                  ELSE [BR!NoAnswer EXCEPT !.kind = kind]
<1>1. calling' = [calling EXCEPT ![s] = c] /\ reply' = [reply EXCEPT ![s] = r]
  BY DEF BR!Answer, BR!Leave
<1>2. calling \in [PageSteps -> PageCall] /\ reply \in [PageSteps -> PageReply] /\ calling[s] \in PageCall
  BY DEF BrowserInv, BrowserType
<1>3. c.phase = "idle" /\ c \in PageCall
  BY Zenon, <1>2 DEF BR!Idle, PageCall
<1>4. /\ r \in PageReply /\ r.kind = kind
      /\ kind \in {"content", "error"} => r.seen = calling[s].seen /\ r.checked = calling[s].checked
  BY Zenon, <1>2 DEF BR!NoAnswer, PageReply, PageCall
<1> HIDE DEF c, r
<1>5. /\ calling' \in [PageSteps -> PageCall] /\ reply' \in [PageSteps -> PageReply]
      /\ calling'[s] = c /\ reply'[s] = r
      /\ \A t \in PageSteps : t # s => calling'[t] = calling[t] /\ reply'[t] = reply[t]
  BY <1>1, <1>2, <1>3, <1>4
<1>6. \A t \in PageSteps : t # s => calling[t].phase \in {"idle", "waiting"}
  BY AloneInside DEF BrowserInv
<1>7. s \in Restricted /\ reply'[s].kind \in {"content", "error"} =>
        /\ reply'[s].seen \in 1 .. Len(pages') /\ reply'[s].seen = reply'[s].checked
        /\ BR!Within(s, pages'[reply'[s].seen])
  <2> SUFFICES ASSUME s \in Restricted, kind \in {"content", "error"}
               PROVE  /\ r.seen \in 1 .. Len(pages') /\ r.seen = r.checked /\ BR!Within(s, pages'[r.seen])
    BY <1>4, <1>5
  <2>1. r.seen \in 1 .. Len(pages) /\ r.seen = r.checked /\ BR!Within(s, pages[r.seen])
    BY <1>4
  <2>2. Len(pages) \in Nat /\ Len(pages') \in Nat /\ Len(pages) <= Len(pages') /\ pages'[r.seen] = pages[r.seen]
    BY <2>1, BrowserSets DEF Grown, BrowserInv
  <2>. QED
    BY <2>1, <2>2
<1>. QED
  BY <1>3, <1>5, <1>6, <1>7, OneCallMoves

\* What the checks let through is within the policy of the step they check for.
LEMMA WithinPolicy ==
  ASSUME NEW s \in PageSteps, policy = s
  PROVE  /\ \A place : BR!Admitted(place) => BR!Within(s, place)
         /\ \A host : BR!Permits(host) => BR!Within(s, host)
         /\ BR!Governed <=> s \in Restricted
BY DEF BR!Admitted, BR!Permits, BR!Governed, BR!Within

\* Traffic within the policy is added.
LEMMA TrafficGrows ==
  ASSUME TrafficInv, NEW s \in PageSteps, NEW S \in SUBSET Hosts, NEW F \in SUBSET BR!Places,
         \A h \in S \cup F : BR!Within(s, h),
         sent' = sent \cup {s} \X S, files' = files \cup {s} \X F
  PROVE  TrafficInv'
<1>1. sent' \in SUBSET (PageSteps \X Hosts) /\ files' \in SUBSET (PageSteps \X BR!Places)
  BY DEF TrafficInv
<1>2. ASSUME NEW r \in sent' \cup files'
      PROVE  BR!Within(r[1], r[2])
  <2>1. CASE r \in sent \cup files
    BY <2>1 DEF TrafficInv, BR!CallsStayWithinTheirPolicy
  <2>2. CASE r \in {s} \X S \cup {s} \X F
    BY <2>2
  <2>. QED
    BY <1>2, <2>1, <2>2
<1>. QED
  BY <1>1, <1>2 DEF TrafficInv, BR!CallsStayWithinTheirPolicy, BR!Within

\* No traffic.
LEMMA TrafficStays ==
  ASSUME TrafficInv, UNCHANGED <<sent, files>>
  PROVE  TrafficInv'
BY DEF TrafficInv, BR!CallsStayWithinTheirPolicy, BR!Within

\* A step that does not answer anything yet.
LEMMA CallAdvances ==
  ASSUME BrowserInv, NEW s \in PageSteps, Grown, NEW c \in PageCall, calling' = [calling EXCEPT ![s] = c],
         reply' = reply, TrafficInv',
         \/ UNCHANGED <<owner, policy>>
         \/ owner = s /\ owner' = Nobody /\ policy' = policy
         \/ owner = Nobody /\ owner' = s /\ policy' = s,
         c.phase \notin {"idle", "waiting"} => owner' = s /\ policy' = s,
         c.phase \in {"running", "returned"} =>
           c.checked \in 1 .. known /\ BR!Within(s, pages[c.checked]),
         c.phase = "returned" => c.seen \in c.checked .. Len(pages),
         c.phase = "in_flight" => c.target \in Hosts /\ BR!Within(s, c.target)
  PROVE  BrowserInv'
<1>1. calling \in [PageSteps -> PageCall] /\ reply \in [PageSteps -> PageReply]
  BY DEF BrowserInv, BrowserType
<1>2. /\ calling' \in [PageSteps -> PageCall] /\ reply' \in [PageSteps -> PageReply] /\ calling'[s] = c
      /\ \A t \in PageSteps : t # s => calling'[t] = calling[t] /\ reply'[t] = reply[t]
  BY <1>1
<1>3. \A t \in PageSteps : t # s /\ calling[t].phase \notin {"idle", "waiting"} => owner' = t /\ policy' = t
  BY AloneInside DEF BrowserInv, OperationInv
<1>4. /\ Len(pages) \in Nat /\ known \in Nat /\ 1 <= known /\ known <= Len(pages)
      /\ Len(pages') \in Nat /\ Len(pages) <= Len(pages') /\ known' \in known .. Len(pages')
      /\ \A i \in 1 .. Len(pages) : pages'[i] = pages[i]
  BY BrowserSets DEF BrowserInv, Grown
<1>5. c.checked \in Nat /\ c.seen \in Nat
  BY DEF PageCall
<1>6. c.phase \in {"running", "returned"} => c.checked \in 1 .. known' /\ BR!Within(s, pages'[c.checked])
  <2>1. SUFFICES ASSUME c.phase \in {"running", "returned"}
                 PROVE  c.checked \in 1 .. known' /\ BR!Within(s, pages'[c.checked])
    OBVIOUS
  <2>2. c.checked \in 1 .. Len(pages) /\ c.checked \in 1 .. known' /\ BR!Within(s, pages[c.checked])
    BY <1>4, <1>5, <2>1
  <2>. QED
    BY <1>4, <2>2
<1>7. c.phase = "returned" => c.seen \in c.checked .. Len(pages')
  BY <1>4, <1>5
<1>8. s \in Restricted /\ reply'[s].kind \in {"content", "error"} =>
        /\ reply'[s].seen \in 1 .. Len(pages') /\ reply'[s].seen = reply'[s].checked
        /\ BR!Within(s, pages'[reply'[s].seen])
  <2>1. SUFFICES ASSUME s \in Restricted, reply[s].kind \in {"content", "error"}
                 PROVE  /\ reply[s].seen \in 1 .. Len(pages') /\ reply[s].seen = reply[s].checked
                        /\ BR!Within(s, pages'[reply[s].seen])
    OBVIOUS
  <2>2. /\ reply[s].seen \in 1 .. Len(pages) /\ reply[s].seen = reply[s].checked
        /\ BR!Within(s, pages[reply[s].seen])
    BY <2>1 DEF BrowserInv, QuotedInv
  <2>. QED
    BY <1>4, <2>2
<1>. QED
  BY <1>2, <1>3, <1>6, <1>7, <1>8, OneCallMoves

\* What the page and the connector do by themselves.
LEMMA PageStep ==
  ASSUME BrowserInv,
         \/ BR!Build \/ BR!Teardown \/ BR!EventArrives
         \/ \E place \in BR!Places : BR!PageMoves(place)
  PROVE  BrowserInv'
<1>1. UNCHANGED <<owner, policy, calling, reply, sent, files>>
  BY DEF BR!Build, BR!Teardown, BR!EventArrives, BR!PageMoves
<1>2. Grown
  <2>1. CASE BR!Build \/ BR!Teardown
    <3>1. UNCHANGED <<pages, known>>
      BY <2>1 DEF BR!Build, BR!Teardown
    <3>2. known' \in known .. Len(pages)
      BY <3>1, BrowserSets DEF BrowserInv
    <3>. QED
      BY <3>1, <3>2, PageStays DEF BrowserInv
  <2>2. CASE BR!EventArrives
    <3>1. pages' = pages /\ known' \in known .. Len(pages)
      BY <2>2, BrowserSets DEF BrowserInv, BR!EventArrives
    <3>. QED
      BY <3>1, PageStays DEF BrowserInv
  <2>3. CASE \E place \in BR!Places : BR!PageMoves(place)
    <3>1. PICK place \in BR!Places : BR!PageMoves(place)
      BY <2>3
    <3>2. pages' = Append(pages, place) /\ known' \in known .. Len(pages) + 1
      BY <3>1, BrowserSets DEF BrowserInv, BR!PageMoves
    <3>. QED
      BY <3>2, PageAppended DEF BrowserInv
  <2>. QED
    BY <2>1, <2>2, <2>3
<1>3. TrafficInv'
  BY <1>1, TrafficStays DEF BrowserInv
<1>4. CASE \E s \in PageSteps : TRUE
  <2>1. PICK s \in PageSteps : TRUE
    BY <1>4
  <2>2. calling[s] \in PageCall /\ calling' = [calling EXCEPT ![s] = calling[s]]
    BY <1>1 DEF BrowserInv, BrowserType
  <2>3. /\ calling[s].phase \notin {"idle", "waiting"} => owner' = s /\ policy' = s
        /\ calling[s].phase \in {"running", "returned"} =>
             calling[s].checked \in 1 .. known /\ BR!Within(s, pages[calling[s].checked])
        /\ calling[s].phase = "returned" => calling[s].seen \in calling[s].checked .. Len(pages)
        /\ calling[s].phase = "in_flight" => calling[s].target \in Hosts /\ BR!Within(s, calling[s].target)
    BY <1>1 DEF BrowserInv, OperationInv, CheckedInv, FlightInv
  <2>4. UNCHANGED <<owner, policy>> /\ reply' = reply
    BY <1>1
  <2>. QED
    BY Zenon, <1>2, <1>3, <2>2, <2>3, <2>4, CallAdvances
<1>5. CASE PageSteps = {}
  <2>1. BrowserType'
    BY <1>1, <1>2, BrowserSets DEF BrowserInv, BrowserType, Grown
  <2>. QED
    BY <1>3, <1>5, <2>1, BrowserAssumption
    DEF BrowserInv, OperationInv, CheckedInv, FlightInv, QuotedInv
<1>. QED
  BY <1>4, <1>5

\* The lock: a call is made, comes in, is cancelled.
LEMMA LockStep ==
  ASSUME BrowserInv, NEW s \in PageSteps,
         \/ \E tool \in BR!Reads \cup BR!Acts : BR!Call(s, tool, "blank")
         \/ \E tool \in {"navigate", "fetch_url"}, host \in Hosts : BR!Call(s, tool, host)
         \/ BR!Enter(s) \/ BR!Cancel(s)
  PROVE  BrowserInv'
<1>0. calling \in [PageSteps -> PageCall] /\ calling[s] \in PageCall
  BY DEF BrowserInv, BrowserType
<1>1. UNCHANGED <<pages, known, reply, sent, files>>
  BY Zenon DEF BR!Call, BR!Enter, BR!Cancel
<1>2. Grown /\ TrafficInv'
  <2>1. known' \in known .. Len(pages)
    BY <1>1, BrowserSets DEF BrowserInv
  <2>. QED
    BY <1>1, <2>1, PageStays, TrafficStays DEF BrowserInv
<1>3. CASE \/ \E tool \in BR!Reads \cup BR!Acts : BR!Call(s, tool, "blank")
           \/ \E tool \in {"navigate", "fetch_url"}, host \in Hosts : BR!Call(s, tool, host)
  <2>1. PICK tool \in BR!Tools, host \in Hosts \cup {"blank"} :
          BR!Call(s, tool, host) /\ (tool \in {"navigate", "fetch_url"} => host \in Hosts)
    BY <1>3 DEF BR!Tools, BR!Reads, BR!Acts
  <2> DEFINE i == BR!Idle
             c == [i EXCEPT !.tool = tool, !.phase = "waiting", !.target = host, !.calls = calling[s].calls + 1]
  <2>2. calling' = [calling EXCEPT ![s] = c] /\ UNCHANGED <<owner, policy>>
    BY Zenon, <2>1 DEF BR!Call
  <2>3. calling[s].calls + 1 \in Nat /\ tool \in BR!Tools \cup {"none"}
    BY <1>0 DEF PageCall
  <2>4. i \in PageCall
    BY DEF BR!Idle, PageCall
  <2> HIDE DEF i
  <2>5. c \in PageCall /\ c.phase = "waiting"
    BY Zenon, <2>1, <2>3, <2>4 DEF PageCall
  <2> HIDE DEF c
  <2>. QED
    BY Zenon, <1>1, <1>2, <2>2, <2>5, CallAdvances
<1>4. CASE BR!Enter(s)
  <2> DEFINE c == [calling[s] EXCEPT !.phase = "entered"]
  <2>1. calling' = [calling EXCEPT ![s] = c] /\ owner = Nobody /\ owner' = s /\ policy' = s
    BY <1>0, <1>4 DEF BR!Enter, BR!Free
  <2>2. c \in PageCall /\ c.phase = "entered"
    BY <1>0 DEF PageCall
  <2> HIDE DEF c
  <2>. QED
    BY Zenon, <1>1, <1>2, <2>1, <2>2, CallAdvances
<1>5. CASE BR!Cancel(s)
  <2> DEFINE c == [BR!Idle EXCEPT !.calls = calling[s].calls]
  <2>1. calling' = [calling EXCEPT ![s] = c] /\ policy' = policy
        /\ owner' = IF owner = s THEN Nobody ELSE owner
    BY <1>5 DEF BR!Cancel
  <2>2. c \in PageCall /\ c.phase = "idle"
    BY Zenon, <1>0 DEF BR!Idle, PageCall
  <2> HIDE DEF c
  <2>. QED
    BY Zenon, <1>1, <1>2, <2>1, <2>2, CallAdvances
<1>. QED
  BY <1>3, <1>4, <1>5

\* A call that is inside: its step's policy is in force.
LEMMA InsideCall ==
  ASSUME BrowserInv, NEW s \in PageSteps, calling[s].phase \notin {"idle", "waiting"}
  PROVE  /\ owner = s /\ policy = s /\ calling \in [PageSteps -> PageCall] /\ calling[s] \in PageCall
         /\ BrowserType /\ TrafficInv
BY DEF BrowserInv, BrowserType, OperationInv

\* An answer that quotes nothing.
LEMMA PlainAnswer ==
  ASSUME BrowserInv, NEW s \in PageSteps, owner = s, Grown, policy' = policy, TrafficInv',
         NEW kind \in {"class", "denied", "withheld", "done", "saved"}, BR!Answer(s, kind)
  PROVE  BrowserInv'
<1>1. kind \notin {"content", "error"}
  OBVIOUS
<1>. QED
  BY <1>1, CallAnswered

\* A failure that nobody vouches for is quoted only where there is no policy.
LEMMA FailureAnswer ==
  ASSUME BrowserInv, NEW s \in PageSteps, owner = s, policy = s, Grown, policy' = policy, TrafficInv',
         BR!Fails(s, FALSE)
  PROVE  BrowserInv'
<1>1. CASE BR!Governed
  <2>1. BR!Answer(s, "class")
    BY <1>1 DEF BR!Fails
  <2>. QED
    BY <2>1, PlainAnswer
<1>2. CASE ~BR!Governed
  <2>1. BR!Answer(s, "error") /\ s \notin Restricted
    BY <1>2, WithinPolicy DEF BR!Fails
  <2>. QED
    BY <2>1, CallAnswered
<1>. QED
  BY <1>1, <1>2

\* The check of the page before a read or an act.
LEMMA GuardStep ==
  ASSUME BrowserInv, NEW s \in PageSteps, BR!Guard(s)
  PROVE  BrowserInv'
<1>1. calling[s].phase = "entered" /\ UNCHANGED <<policy, sent, files>>
  BY DEF BR!Guard
<1>2. owner = s /\ policy = s /\ calling[s] \in PageCall /\ BrowserType /\ TrafficInv'
  BY <1>1, InsideCall, TrafficStays
<1>3. CASE BR!Admitted(pages[known])
  <2> DEFINE c == [calling[s] EXCEPT !.phase = "running", !.checked = known]
  <2>1. /\ calling' = [calling EXCEPT ![s].phase = "running", ![s].checked = known]
        /\ UNCHANGED <<pages, known, owner, reply>>
    BY <1>3 DEF BR!Guard
  <2>2. calling' = [calling EXCEPT ![s] = c]
    BY Zenon, <2>1, InsideCall, <1>1
  <2>3. c \in PageCall /\ c.phase = "running" /\ c.checked = known
    BY Zenon, <1>2, BrowserSets DEF PageCall
  <2>4. known \in 1 .. known /\ BR!Within(s, pages[known])
    BY <1>2, <1>3, BrowserSets, WithinPolicy
  <2>5. Grown
    BY <1>2, <2>1, BrowserSets, PageStays
  <2> HIDE DEF c
  <2>. QED
    BY Zenon, <1>1, <1>2, <2>1, <2>2, <2>3, <2>4, <2>5, CallAdvances
<1>4. CASE ~BR!Admitted(pages[known])
  <2>1. BR!Cleaning /\ BR!Answer(s, "denied")
    BY <1>4 DEF BR!Guard
  <2>. QED
    BY <1>1, <1>2, <2>1, PageCleaned, PlainAnswer
<1>. QED
  BY <1>3, <1>4

\* A read or an act runs in whatever document the page holds by then.
LEMMA RunStep ==
  ASSUME BrowserInv, NEW s \in PageSteps, BR!RunRead(s) \/ BR!RunAct(s)
  PROVE  BrowserInv'
<1>1. /\ calling[s].phase = "running" /\ UNCHANGED <<known, owner, policy, reply, files>>
      /\ \E ok \in BOOLEAN : BR!Runs(s, ok)
  BY DEF BR!RunRead, BR!RunAct
<1>2. owner = s /\ policy = s /\ calling[s] \in PageCall /\ BrowserType /\ TrafficInv
  BY <1>1, InsideCall
<1>3. Grown /\ TrafficInv'
  <2>1. CASE UNCHANGED <<pages, sent>>
    BY <1>1, <1>2, <2>1, BrowserSets, PageStays, TrafficStays
  <2>2. CASE BR!RunAct(s) /\ ~UNCHANGED <<pages, sent>>
    <3>1. PICK host \in Hosts, place \in Hosts :
            /\ pages' = Append(pages, IF BR!Permits(host) THEN place ELSE "error")
            /\ sent' = sent \cup (IF BR!Permits(host) THEN {<<s, host>>} ELSE {})
      BY <2>2 DEF BR!RunAct
    <3>2. (IF BR!Permits(host) THEN place ELSE "error") \in BR!Places /\ known' \in known .. Len(pages) + 1
      BY <1>1, <1>2, BrowserSets DEF BR!Places
    <3>3. Grown
      BY <1>2, <3>1, <3>2, PageAppended
    <3> DEFINE S == IF BR!Permits(host) THEN {host} ELSE {}
    <3>4. S \in SUBSET Hosts /\ {} \in SUBSET BR!Places /\ \A h \in S \cup {} : BR!Within(s, h)
      BY <1>2, WithinPolicy
    <3>5. sent' = sent \cup {s} \X S /\ files' = files \cup {s} \X {}
      BY <1>1, <3>1
    <3> HIDE DEF S
    <3>6. TrafficInv'
      BY Zenon, <1>2, <3>4, <3>5, TrafficGrows
    <3>. QED
      BY <3>3, <3>6
  <2>3. CASE BR!RunRead(s)
    BY <2>1, <2>3 DEF BR!RunRead
  <2>. QED
    BY <2>1, <2>2, <2>3
<1>4. PICK ok \in BOOLEAN : BR!Runs(s, ok)
  BY <1>1
<1> DEFINE c == [calling[s] EXCEPT !.phase = "returned", !.seen = Len(pages), !.ok = ok]
<1>5. calling' = [calling EXCEPT ![s] = c]
  BY Zenon, <1>1, <1>4, InsideCall DEF BR!Runs
<1>6. c \in PageCall /\ c.phase = "returned" /\ c.checked = calling[s].checked /\ c.seen = Len(pages)
  BY Zenon, <1>2, BrowserSets DEF PageCall
<1>7. calling[s].checked \in 1 .. known /\ BR!Within(s, pages[calling[s].checked])
  BY <1>1 DEF BrowserInv, CheckedInv
<1> HIDE DEF c
<1>8. c.seen \in c.checked .. Len(pages)
  BY <1>2, <1>6, <1>7, BrowserSets
<1>. QED
  BY Zenon, <1>1, <1>2, <1>3, <1>5, <1>6, <1>7, <1>8, CallAdvances

\* The connector's fence: what the page did meanwhile is withheld or landed on.
LEMMA FenceFrame ==
  ASSUME BrowserInv, NEW s \in PageSteps, calling[s].phase = "returned"
  PROVE  /\ owner = s /\ policy = s /\ calling[s] \in PageCall /\ BrowserType /\ TrafficInv
         /\ calling[s].checked \in 1 .. known /\ BR!Within(s, pages[calling[s].checked])
         /\ calling[s].seen \in calling[s].checked .. Len(pages)
         /\ \A k \in BR!KnownAtReply(calling[s].seen) :
              /\ k \in Nat /\ calling[s].seen <= k /\ k \in known .. Len(pages) /\ k <= Len(pages)
<1>1. /\ owner = s /\ policy = s /\ calling[s] \in PageCall /\ BrowserType /\ TrafficInv
      /\ calling[s].checked \in 1 .. known /\ BR!Within(s, pages[calling[s].checked])
      /\ calling[s].seen \in calling[s].checked .. Len(pages)
  BY InsideCall DEF BrowserInv, CheckedInv
<1>2. calling[s].seen \in Nat
  BY <1>1 DEF PageCall
<1>3. ASSUME NEW k \in BR!KnownAtReply(calling[s].seen)
      PROVE  k \in Nat /\ calling[s].seen <= k /\ k \in known .. Len(pages) /\ k <= Len(pages)
  BY <1>1, <1>2, BrowserSets DEF BR!KnownAtReply
<1>. QED
  BY <1>1, <1>3

\* What a call brought back is withheld, and the page left only where its policy allows.
LEMMA Withheld ==
  ASSUME BrowserInv, NEW s \in PageSteps, calling[s].phase = "returned", NEW k \in known .. Len(pages),
         BR!Withhold(s, k), UNCHANGED <<policy, sent, files>>
  PROVE  BrowserInv'
<1>1. owner = s /\ BrowserType /\ TrafficInv' /\ BR!Answer(s, "withheld")
  BY FenceFrame, TrafficStays DEF BR!Withhold
<1>2. Grown
  <2>1. CASE BR!Admitted(pages[k])
    BY <1>1, <2>1, PageStays DEF BR!Withhold
  <2>2. CASE ~BR!Admitted(pages[k])
    BY <1>1, <2>2, PageCleaned DEF BR!Withhold
  <2>. QED
    BY <2>1, <2>2
<1>. QED
  BY <1>1, <1>2, PlainAnswer

\* Where the connector knows of no other document than the one checked, what
\* it ran in is that one.
LEMMA QuotesTheChecked ==
  ASSUME BrowserInv, NEW s \in PageSteps, calling[s].phase = "returned",
         NEW k \in BR!KnownAtReply(calling[s].seen),
         ~(BR!Governed /\ ~BR!SameDocument(k, calling[s].checked)), s \in Restricted
  PROVE  /\ calling[s].seen \in 1 .. Len(pages) /\ calling[s].seen = calling[s].checked
         /\ BR!Within(s, pages[calling[s].seen])
<1>1. k = calling[s].checked
  BY FenceFrame, WithinPolicy DEF BR!SameDocument
<1>2. calling[s].seen \in Nat /\ calling[s].checked \in Nat
  BY FenceFrame DEF PageCall
<1>3. calling[s].seen = calling[s].checked /\ calling[s].seen \in 1 .. Len(pages)
  BY <1>1, <1>2, FenceFrame, BrowserSets
<1>. QED
  BY <1>3, FenceFrame

\* Quoting it, whatever else has become of the page.
LEMMA QuotedAnswer ==
  ASSUME BrowserInv, NEW s \in PageSteps, calling[s].phase = "returned",
         NEW k \in BR!KnownAtReply(calling[s].seen),
         ~(BR!Governed /\ ~BR!SameDocument(k, calling[s].checked)),
         known' = k, pages' = pages, policy' = policy, TrafficInv',
         NEW kind \in {"content", "error"}, BR!Answer(s, kind)
  PROVE  BrowserInv'
<1>1. k \in known .. Len(pages) /\ BrowserType /\ owner = s
  BY FenceFrame
<1>2. Grown
  BY <1>1, PageStays
<1>3. s \in Restricted /\ kind \in {"content", "error"} =>
        /\ calling[s].seen \in 1 .. Len(pages) /\ calling[s].seen = calling[s].checked
        /\ BR!Within(s, pages[calling[s].seen])
  BY QuotesTheChecked
<1>. QED
  BY <1>1, <1>2, <1>3, CallAnswered

\* The fence after a read.
LEMMA FenceReadStep ==
  ASSUME BrowserInv, NEW s \in PageSteps, BR!FenceRead(s)
  PROVE  BrowserInv'
<1>1. calling[s].phase = "returned" /\ UNCHANGED <<policy, sent>>
  BY DEF BR!FenceRead
<1>2. PICK k \in BR!KnownAtReply(calling[s].seen) :
        IF BR!Governed /\ ~BR!SameDocument(k, calling[s].checked)
          THEN BR!Withhold(s, k) /\ files' = files
          ELSE /\ known' = k /\ UNCHANGED <<pages, mishaps>>
               /\ IF calling[s].ok THEN BR!Answer(s, "content") ELSE BR!Fails(s, TRUE)
               /\ files' = files \cup (IF calling[s].ok /\ calling[s].tool = "screenshot"
                                         THEN {<<s, pages[calling[s].seen]>>} ELSE {})
  BY Zenon DEF BR!FenceRead
<1>3. k \in known .. Len(pages) /\ policy = s /\ BrowserType /\ TrafficInv
  BY <1>1, FenceFrame
<1>4. CASE BR!Governed /\ ~BR!SameDocument(k, calling[s].checked)
  <2>1. BR!Withhold(s, k) /\ UNCHANGED <<policy, sent, files>>
    BY <1>1, <1>2, <1>4
  <2>. QED
    BY <1>1, <1>3, <2>1, Withheld
<1>5. CASE ~(BR!Governed /\ ~BR!SameDocument(k, calling[s].checked))
  <2>1. /\ known' = k /\ pages' = pages
        /\ BR!Answer(s, "content") \/ BR!Answer(s, "error")
        /\ files' = files \cup (IF calling[s].ok /\ calling[s].tool = "screenshot"
                                  THEN {<<s, pages[calling[s].seen]>>} ELSE {})
    BY <1>2, <1>5 DEF BR!Fails
  <2> DEFINE F == IF calling[s].ok /\ calling[s].tool = "screenshot" THEN {pages[calling[s].seen]} ELSE {}
  <2>2. calling[s].seen \in 1 .. Len(pages)
    <3>1. calling[s].seen \in Nat /\ calling[s].checked \in Nat
      BY <1>1, FenceFrame DEF PageCall
    <3>. QED
      BY <1>1, <1>3, <3>1, FenceFrame, BrowserSets
  <2>3. BR!Within(s, pages[calling[s].seen])
    <3>1. CASE s \in Restricted
      BY <1>1, <1>5, <3>1, QuotesTheChecked
    <3>2. CASE s \notin Restricted
      BY <3>2 DEF BR!Within
    <3>. QED
      BY <3>1, <3>2
  <2>4. {} \in SUBSET Hosts /\ F \in SUBSET BR!Places /\ \A h \in {} \cup F : BR!Within(s, h)
    BY <1>3, <2>2, <2>3, BrowserSets
  <2>5. sent' = sent \cup {s} \X {} /\ files' = files \cup {s} \X F
    BY <1>1, <2>1
  <2> HIDE DEF F
  <2>6. TrafficInv'
    BY Zenon, <1>3, <2>4, <2>5, TrafficGrows
  <2>. QED
    BY <1>1, <1>5, <2>1, <2>6, QuotedAnswer
<1>. QED
  BY <1>4, <1>5

\* The fence after an act.
LEMMA FenceActStep ==
  ASSUME BrowserInv, NEW s \in PageSteps, BR!FenceAct(s)
  PROVE  BrowserInv'
<1>1. calling[s].phase = "returned" /\ UNCHANGED <<policy, sent, files>>
  BY DEF BR!FenceAct
<1>2. PICK k \in BR!KnownAtReply(calling[s].seen) :
        \/ /\ ~calling[s].ok
           /\ IF BR!Governed /\ ~BR!SameDocument(k, calling[s].checked)
                THEN BR!Withhold(s, k)
                ELSE known' = k /\ UNCHANGED <<pages, mishaps>> /\ BR!Fails(s, TRUE)
        \/ /\ calling[s].ok /\ ~BR!Admitted(pages[k])
           /\ BR!Cleaning /\ BR!Answer(s, "denied")
        \/ /\ calling[s].ok /\ BR!Admitted(pages[k])
           /\ known' = k /\ UNCHANGED <<pages, mishaps>>
           /\ IF calling[s].tool = "click"
                THEN BR!Answer(s, "done")
                ELSE /\ calling' = [calling EXCEPT ![s].phase = "saving"]
                     /\ UNCHANGED <<owner, reply>>
  BY Zenon DEF BR!FenceAct
<1>3. k \in known .. Len(pages) /\ policy = s /\ owner = s /\ BrowserType /\ TrafficInv'
      /\ calling[s] \in PageCall
  BY <1>1, FenceFrame, TrafficStays
<1>4. CASE BR!Withhold(s, k)
  BY <1>1, <1>3, <1>4, Withheld
<1>5. CASE /\ ~(BR!Governed /\ ~BR!SameDocument(k, calling[s].checked))
           /\ known' = k /\ UNCHANGED <<pages, mishaps>> /\ BR!Fails(s, TRUE)
  <2>1. BR!Answer(s, "error")
    BY <1>5 DEF BR!Fails
  <2>. QED
    BY <1>1, <1>3, <1>5, <2>1, QuotedAnswer
<1>6. CASE BR!Cleaning /\ BR!Answer(s, "denied")
  BY <1>1, <1>3, <1>6, PageCleaned, PlainAnswer
<1>7. CASE known' = k /\ pages' = pages /\ BR!Answer(s, "done")
  BY <1>1, <1>3, <1>7, PageStays, PlainAnswer
<1>8. CASE /\ known' = k /\ pages' = pages /\ UNCHANGED <<owner, reply>>
           /\ calling' = [calling EXCEPT ![s].phase = "saving"]
  <2> DEFINE c == [calling[s] EXCEPT !.phase = "saving"]
  <2>1. calling' = [calling EXCEPT ![s] = c]
    BY <1>8
  <2>2. c \in PageCall /\ c.phase = "saving"
    BY <1>3 DEF PageCall
  <2>3. Grown
    BY <1>3, <1>8, PageStays
  <2> HIDE DEF c
  <2>. QED
    BY Zenon, <1>1, <1>3, <1>8, <2>1, <2>2, <2>3, CallAdvances
<1>. QED
  BY Zenon, <1>2, <1>4, <1>5, <1>6, <1>7, <1>8

\* A download is saved, or refused.
LEMMA SaveStep ==
  ASSUME BrowserInv, NEW s \in PageSteps, NEW source \in Hosts, BR!Save(s, source)
  PROVE  BrowserInv'
<1>1. calling[s].phase = "saving" /\ UNCHANGED <<pages, known, policy, sent>>
  BY DEF BR!Save
<1>2. owner = s /\ policy = s /\ BrowserType /\ TrafficInv
  BY <1>1, InsideCall
<1>3. Grown
  <2>1. known' \in known .. Len(pages)
    BY <1>1, <1>2, BrowserSets
  <2>. QED
    BY <1>1, <1>2, <2>1, PageStays
<1>4. CASE BR!Answer(s, "denied") /\ files' = files
  BY <1>1, <1>2, <1>3, <1>4, TrafficStays, PlainAnswer
<1>5. CASE BR!Permits(source) /\ BR!Answer(s, "saved") /\ files' = files \cup {<<s, source>>}
  <2>1. {} \in SUBSET Hosts /\ {source} \in SUBSET BR!Places /\ \A h \in {} \cup {source} : BR!Within(s, h)
    BY <1>2, <1>5, WithinPolicy DEF BR!Places
  <2>2. sent' = sent \cup {s} \X {} /\ files' = files \cup {s} \X {source}
    BY <1>1, <1>5
  <2>3. TrafficInv'
    BY Zenon, <1>2, <2>1, <2>2, TrafficGrows
  <2>. QED
    BY <1>1, <1>2, <1>3, <1>5, <2>3, PlainAnswer
<1>6. CASE BR!Fails(s, FALSE) /\ files' = files
  BY Zenon, <1>1, <1>2, <1>3, <1>6, TrafficStays, FailureAnswer
<1>. QED
  BY Zenon, <1>4, <1>5, <1>6 DEF BR!Save

\* What the agent asks for by URL, and a redirect on its way.
LEMMA SendStep ==
  ASSUME BrowserInv, NEW s \in PageSteps, BR!Request(s) \/ \E host \in Hosts : BR!Redirect(s, host)
  PROVE  BrowserInv'
<1>1. /\ calling[s].phase \in {"entered", "in_flight"} /\ UNCHANGED <<pages, known, policy, files>>
      /\ calling[s].phase = "entered" => calling[s].tool \in {"navigate", "fetch_url"}
  BY Zenon DEF BR!Request, BR!Redirect
<1>2. owner = s /\ policy = s /\ BrowserType /\ TrafficInv /\ calling[s] \in PageCall
      /\ calling \in [PageSteps -> PageCall]
  BY <1>1, InsideCall
<1>3. Grown
  <2>1. known' \in known .. Len(pages)
    BY <1>1, <1>2, BrowserSets
  <2>. QED
    BY <1>1, <1>2, <2>1, PageStays
<1>4. CASE BR!Answer(s, "denied") /\ sent' = sent
  BY <1>1, <1>2, <1>3, <1>4, TrafficStays, PlainAnswer
<1>5. ASSUME NEW host \in Hosts, BR!Permits(host), NEW c \in PageCall, c.phase = "in_flight", c.target = host,
             calling' = [calling EXCEPT ![s] = c], sent' = sent \cup {<<s, host>>}, UNCHANGED <<owner, reply>>
      PROVE  BrowserInv'
  <2>1. {host} \in SUBSET Hosts /\ {} \in SUBSET BR!Places /\ \A h \in {host} \cup {} : BR!Within(s, h)
    BY <1>2, <1>5, WithinPolicy
  <2>2. sent' = sent \cup {s} \X {host} /\ files' = files \cup {s} \X {}
    BY <1>1, <1>5
  <2>3. TrafficInv'
    BY Zenon, <1>2, <2>1, <2>2, TrafficGrows
  <2>4. c.target \in Hosts /\ BR!Within(s, c.target)
    BY <1>5, <2>1
  <2>. QED
    BY Zenon, <1>1, <1>2, <1>3, <1>5, <2>3, <2>4, CallAdvances
<1>6. CASE BR!Request(s) /\ BR!Permits(calling[s].target)
  <2> DEFINE c == [calling[s] EXCEPT !.phase = "in_flight"]
  <2>1. /\ calling' = [calling EXCEPT ![s] = c] /\ sent' = sent \cup {<<s, calling[s].target>>}
        /\ UNCHANGED <<owner, reply>>
    BY <1>6 DEF BR!Request
  <2>2. c \in PageCall /\ c.phase = "in_flight" /\ c.target = calling[s].target
    BY <1>2 DEF PageCall
  <2>3. calling[s].target \in Hosts
    BY <1>2, <1>6 DEF PageCall, BR!Request
  <2> HIDE DEF c
  <2>. QED
    BY Zenon, <1>5, <1>6, <2>1, <2>2, <2>3
<1>7. ASSUME NEW host \in Hosts, BR!Redirect(s, host), BR!Permits(host) /\ calling[s].hops < MaxHops
      PROVE  BrowserInv'
  <2> DEFINE c == [calling[s] EXCEPT !.target = host, !.hops = @ + 1]
  <2>1. /\ calling' = [calling EXCEPT ![s].target = host, ![s].hops = @ + 1]
        /\ sent' = sent \cup {<<s, host>>} /\ UNCHANGED <<owner, reply>>
    BY <1>7 DEF BR!Redirect
  <2>2. calling' = [calling EXCEPT ![s] = c]
    BY Zenon, <1>2, <2>1
  <2>3. c \in PageCall /\ c.phase = "in_flight" /\ c.target = host
    BY <1>2, <1>7 DEF PageCall, BR!Redirect
  <2> HIDE DEF c
  <2>. QED
    BY Zenon, <1>5, <1>7, <2>1, <2>2, <2>3
<1>. QED
  BY Zenon, <1>4, <1>6, <1>7 DEF BR!Request, BR!Redirect

\* A document arrives on the page.
LEMMA ArriveStep ==
  ASSUME BrowserInv, NEW s \in PageSteps, BR!Arrive(s)
  PROVE  BrowserInv'
<1>1. calling[s].phase = "in_flight" /\ UNCHANGED <<policy, sent, files>>
  BY DEF BR!Arrive
<1>2. owner = s /\ policy = s /\ BrowserType /\ TrafficInv'
  BY <1>1, InsideCall, TrafficStays
<1>3. CASE BR!Fails(s, FALSE) /\ UNCHANGED <<pages, known>>
  <2>1. Grown
    <3>1. known' \in known .. Len(pages)
      BY <1>2, <1>3, BrowserSets
    <3>. QED
      BY <1>2, <1>3, <3>1, PageStays
  <2>. QED
    BY Zenon, <1>1, <1>2, <1>3, <2>1, FailureAnswer
<1>4. ASSUME NEW place \in Hosts, pages' = Append(pages, place) /\ known' = Len(pages) + 1
      PROVE  Grown
  <2>1. place \in BR!Places /\ known' \in known .. Len(pages) + 1
    BY <1>2, <1>4, BrowserSets DEF BR!Places
  <2>. QED
    BY <1>2, <1>4, <2>1, PageAppended
<1>5. ASSUME NEW place \in Hosts, pages' = pages \o <<place, "blank">> /\ known' = Len(pages) + 2
      PROVE  Grown
  <2>1. <<place, "blank">> \in Seq(BR!Places) /\ Len(<<place, "blank">>) = 2 /\ pages \in Seq(BR!Places)
    BY <1>2 DEF BrowserType, BR!Places
  <2>2. /\ pages' \in Seq(BR!Places) /\ Len(pages') = Len(pages) + 2
        /\ \A i \in 1 .. Len(pages) : pages'[i] = pages[i]
    BY <1>5, <2>1
  <2>. QED
    BY <1>2, <1>5, <2>2, BrowserSets DEF Grown
<1>6. CASE \E place \in Hosts :
             \/ /\ pages' = Append(pages, place) /\ known' = Len(pages) + 1
                /\ BR!Answer(s, "done") \/ BR!Answer(s, "denied")
             \/ /\ pages' = pages \o <<place, "blank">> /\ known' = Len(pages) + 2
                /\ BR!Answer(s, "denied")
  <2>1. Grown /\ (BR!Answer(s, "done") \/ BR!Answer(s, "denied"))
    BY Zenon, <1>4, <1>5, <1>6
  <2>. QED
    BY <1>1, <1>2, <2>1, PlainAnswer
<1>. QED
  BY Zenon, <1>3, <1>6 DEF BR!Arrive

\* A fetch comes back.
LEMMA FetchedStep ==
  ASSUME BrowserInv, NEW s \in PageSteps, BR!Fetched(s)
  PROVE  BrowserInv'
<1>1. calling[s].phase = "in_flight" /\ UNCHANGED <<pages, known, policy, sent>>
  BY DEF BR!Fetched
<1>2. owner = s /\ policy = s /\ BrowserType /\ TrafficInv
  BY <1>1, InsideCall
<1>3. Grown
  <2>1. known' \in known .. Len(pages)
    BY <1>1, <1>2, BrowserSets
  <2>. QED
    BY <1>1, <1>2, <2>1, PageStays
<1>4. CASE BR!Fails(s, FALSE) /\ files' = files
  BY Zenon, <1>1, <1>2, <1>3, <1>4, TrafficStays, FailureAnswer
<1>5. CASE /\ BR!Answer(s, "saved")
           /\ \E host \in IF BR!Governed THEN {calling[s].target} ELSE Hosts :
                files' = files \cup {<<s, host>>}
  <2>1. PICK host \in IF BR!Governed THEN {calling[s].target} ELSE Hosts : files' = files \cup {<<s, host>>}
    BY <1>5
  <2>2. calling[s].target \in Hosts /\ BR!Within(s, calling[s].target)
    BY <1>1 DEF BrowserInv, FlightInv
  <2>3. host \in Hosts /\ BR!Within(s, host)
    <3>1. CASE BR!Governed
      BY <2>1, <2>2, <3>1
    <3>2. CASE ~BR!Governed
      BY <1>2, <2>1, <3>2, WithinPolicy DEF BR!Within
    <3>. QED
      BY <3>1, <3>2
  <2>4. {} \in SUBSET Hosts /\ {host} \in SUBSET BR!Places /\ \A h \in {} \cup {host} : BR!Within(s, h)
    BY <2>3 DEF BR!Places
  <2>5. sent' = sent \cup {s} \X {} /\ files' = files \cup {s} \X {host}
    BY <1>1, <2>1
  <2>6. TrafficInv'
    BY Zenon, <1>2, <2>4, <2>5, TrafficGrows
  <2>. QED
    BY <1>1, <1>2, <1>3, <1>5, <2>6, PlainAnswer
<1>. QED
  BY Zenon, <1>4, <1>5 DEF BR!Fetched

\* The invariant over every step of the connector.
LEMMA BrowserStep ==
  ASSUME BrowserInv, BR!Next
  PROVE  BrowserInv'
<1>1. CASE \E s \in PageSteps : BR!StepNext(s)
  <2>1. PICK s \in PageSteps : BR!StepNext(s)
    BY <1>1
  <2>2. CASE \E host \in Hosts : BR!Save(s, host)
    BY <2>2, SaveStep
  <2>. QED
    BY <2>1, <2>2, LockStep, GuardStep, RunStep, FenceReadStep, FenceActStep, SendStep, ArriveStep, FetchedStep
    DEF BR!StepNext
<1>. QED
  BY <1>1, PageStep DEF BR!Next

\* The invariant before the first call.
LEMMA BrowserInitially ==
  ASSUME BR!Init
  PROVE  BrowserInv
<1>1. /\ pages = <<"blank">> /\ known = 1 /\ owner = Nobody /\ policy = Nobody /\ sent = {} /\ files = {}
      /\ calling = [s \in PageSteps |-> BR!Idle] /\ reply = [s \in PageSteps |-> BR!NoAnswer]
  BY DEF BR!Init
<1>2. BR!Idle \in PageCall /\ BR!Idle.phase = "idle"
  BY DEF BR!Idle, PageCall
<1>3. BR!NoAnswer \in PageReply /\ BR!NoAnswer.kind = "none"
  BY DEF BR!NoAnswer, PageReply
<1>4. pages \in Seq(BR!Places) /\ Len(pages) = 1
  BY <1>1 DEF BR!Places
<1>5. BrowserType
  BY <1>1, <1>2, <1>3, <1>4 DEF BrowserType
<1>6. OperationInv /\ CheckedInv /\ FlightInv
  BY <1>1, <1>2 DEF OperationInv, CheckedInv, FlightInv
<1>7. QuotedInv
  BY <1>1, <1>3, BrowserAssumption DEF QuotedInv
<1>8. TrafficInv
  BY <1>1 DEF TrafficInv, BR!CallsStayWithinTheirPolicy
<1>. QED
  BY <1>5, <1>6, <1>7, <1>8 DEF BrowserInv

BrowserPart == part = "browser" => BrowserInv

\* What a restricted step is told of a page is of the one document its call
\* checked, on a host of its own, and every request made and file left for it
\* is of such a host, however the page moves by itself, whenever the connector
\* learns of it, and whatever the steps beside it are allowed (connectors/browser,
\* tools/browser.py).
THEOREM BrowserStaysWithinPolicy == Spec => []BrowserIsGoverned
<1>1. Init => BrowserPart
  BY BrowserInitially DEF Init, BrowserPart
<1>2. BrowserPart /\ [Next]_all => BrowserPart'
  <2> SUFFICES ASSUME BrowserPart, [Next]_all, part' = "browser"
               PROVE  BrowserInv'
    BY DEF BrowserPart
  <2>1. CASE Next
    <3>1. part = "browser" /\ BR!Next
      BY <2>1 DEF Next
    <3>. QED
      BY <3>1, BrowserStep DEF BrowserPart
  <2>2. CASE UNCHANGED all
    <3>1. BrowserInv /\ UNCHANGED <<v2, v3, v4, v5, v6, v7, v8, v9>>
      BY <2>2 DEF all, BrowserPart
    <3>. QED
      BY <3>1 DEF BrowserInv, BrowserType, OperationInv, CheckedInv, FlightInv, QuotedInv, TrafficInv,
                  BR!CallsStayWithinTheirPolicy, BR!Within
  <2>. QED
    BY <2>1, <2>2
<1>3. BrowserPart => BrowserIsGoverned
  BY DEF BrowserPart, BrowserInv, QuotedInv, TrafficInv, BrowserIsGoverned, BR!BrowserIsGoverned,
         BR!AnswersAreOfTheCheckedPage
<1>. QED
  BY <1>1, <1>2, <1>3, PTL DEF Spec

-----------------------------------------------------------------------------
(* StepOutputs: selections from a sequence.                                *)

\* The function behind Picked: what is picked from the first i elements.
Picks(F, s, places) ==
  F = [i \in 0 .. Len(s) |-> IF i = 0 THEN <<>>
                             ELSE IF i \in places THEN Append(F[i - 1], s[i]) ELSE F[i - 1]]

\* What it is at each place.
LEMMA PicksAt ==
  ASSUME NEW F, NEW s, NEW places, Len(s) \in Nat, Picks(F, s, places)
  PROVE  /\ F[0] = <<>> /\ F = [i \in 0 .. Len(s) |-> F[i]]
         /\ \A i \in 0 .. Len(s) - 1 : F[i + 1] = IF i + 1 \in places THEN Append(F[i], s[i + 1]) ELSE F[i]
<1>. DEFINE e(i) == IF i = 0 THEN <<>> ELSE IF i \in places THEN Append(F[i - 1], s[i]) ELSE F[i - 1]
<1>1. F = [i \in 0 .. Len(s) |-> e(i)]
  BY DEF Picks
<1>2. \A i \in 0 .. Len(s) : F[i] = e(i)
  <2>. HIDE DEF e
  <2>. QED  BY <1>1
<1>3. F = [i \in 0 .. Len(s) |-> F[i]]
  <2>. HIDE DEF e
  <2>. QED  BY <1>1
<1>4. F[0] = <<>>
  BY <1>2
<1>5. ASSUME NEW i \in 0 .. Len(s) - 1
      PROVE  F[i + 1] = IF i + 1 \in places THEN Append(F[i], s[i + 1]) ELSE F[i]
  <2>1. i + 1 \in 0 .. Len(s) /\ i + 1 # 0 /\ (i + 1) - 1 = i
    OBVIOUS
  <2>2. F[i + 1] = e(i + 1)
    BY <1>2, <2>1
  <2>. QED  BY <2>1, <2>2
<1>. QED  BY Zenon, <1>3, <1>4, <1>5

\* There is such a function, so the one Picked chooses is one.
LEMMA PickedBy ==
  ASSUME NEW S, NEW s \in Seq(S), NEW places
  PROVE  \E F \in [0 .. Len(s) -> Seq(S)] : Picks(F, s, places) /\ SO!Picked(s, places) = F[Len(s)]
<1>. DEFINE n == Len(s)
            e == [i \in 1 .. n |-> [x \in Seq(S) |-> IF i \in places THEN Append(x, s[i]) ELSE x]]
            T == Seq(S)
            a == <<>>
<1>1. n \in Nat /\ \A i \in 1 .. n : s[i] \in S
  OBVIOUS
<1>2. e \in [1 .. n -> [Seq(S) -> Seq(S)]]
  BY <1>1
<1>3. <<>> \in Seq(S)
  OBVIOUS
<1>4. PICK F : Iterates(F, n, T, a, e)
  <2>1. n \in Nat /\ a \in T /\ Stepping(e, n, T)
    BY <1>1, <1>2, <1>3 DEF Stepping
  <2>. HIDE DEF n, e, T, a
  <2>. QED  BY <2>1, RecursionExists
<1>. USE DEF Iterates
<1>5. Picks(F, s, places)
  <2>1. ASSUME NEW i \in 0 .. n
        PROVE F[i] = IF i = 0 THEN <<>> ELSE IF i \in places THEN Append(F[i - 1], s[i]) ELSE F[i - 1]
    <3>1. CASE i = 0
      BY <1>4, <3>1
    <3>2. CASE i # 0
      <4>1. i \in 1 .. n /\ i - 1 \in 0 .. n
        BY <3>2
      <4>2. F[i - 1] \in Seq(S) /\ F[i] = e[i][F[i - 1]]
        BY Zenon, <1>4, <4>1
      <4>. QED  BY <3>2, <4>1, <4>2
    <3>. QED  BY <3>1, <3>2
  <2>. HIDE DEF n
  <2>2. F = [i \in 0 .. n |-> IF i = 0 THEN <<>> ELSE IF i \in places THEN Append(F[i - 1], s[i]) ELSE F[i - 1]]
    BY <1>4, <2>1
  <2>. QED  BY Zenon, <2>2 DEF Picks, n
<1>6. PICK G : G = (CHOOSE H : Picks(H, s, places)) /\ Picks(G, s, places)
  BY <1>5
<1>a. Picks(G, s, places)
  BY <1>6
<1>7. SO!Picked(s, places) = G[Len(s)]
  BY <1>6 DEF SO!Picked, Picks
<1>8. G = F
  <2>. DEFINE Same == {i \in 0 .. n : G[i] = F[i]}
  <2>0. n = Len(s) /\ Len(s) \in Nat
    BY <1>1
  <2>1. F[0] = <<>> /\ F = [i \in 0 .. n |-> F[i]]
        /\ \A i \in 0 .. n - 1 : F[i + 1] = IF i + 1 \in places THEN Append(F[i], s[i + 1]) ELSE F[i]
    BY <2>0, <1>5, PicksAt
  <2>2. G[0] = <<>> /\ G = [i \in 0 .. n |-> G[i]]
        /\ \A i \in 0 .. n - 1 : G[i + 1] = IF i + 1 \in places THEN Append(G[i], s[i + 1]) ELSE G[i]
    BY <2>0, <1>a, PicksAt
  <2>. HIDE DEF n
  <2>3. 0 \in Same
    BY <1>1, <2>1, <2>2
  <2>4. ASSUME NEW i \in 0 .. n - 1, i \in Same PROVE i + 1 \in Same
    <3>1. G[i] = F[i] /\ i + 1 \in 0 .. n
      BY <2>4, <1>1
    <3>2. G[i + 1] = F[i + 1]
      BY Zenon, <3>1, <2>1, <2>2
    <3>. QED  BY <3>1, <3>2
  <2>5. 0 .. n \subseteq Same
    <3>. HIDE DEF Same
    <3>. QED  BY Zenon, <1>1, <2>3, <2>4, IntervalInduction
  <2>6. \A i \in 0 .. n : G[i] = F[i]
    BY <2>5
  <2>. QED  BY <2>1, <2>2, <2>6
<1>. QED  BY <1>4, <1>5, <1>7, <1>8

\* What is picked from a sequence is of the sequence, at a place that was named.
LEMMA PickedOf ==
  ASSUME NEW S, NEW s \in Seq(S), NEW places
  PROVE  /\ SO!Picked(s, places) \in Seq(S)
         /\ \A j \in DOMAIN SO!Picked(s, places) :
              \E i \in DOMAIN s : i \in places /\ SO!Picked(s, places)[j] = s[i]
<1>1. PICK F \in [0 .. Len(s) -> Seq(S)] : Picks(F, s, places) /\ SO!Picked(s, places) = F[Len(s)]
  BY PickedBy
<1>2. Len(s) \in Nat /\ DOMAIN s = 1 .. Len(s)
  OBVIOUS
<1>3. /\ F[0] = <<>>
      /\ \A i \in 0 .. Len(s) - 1 : F[i + 1] = IF i + 1 \in places THEN Append(F[i], s[i + 1]) ELSE F[i]
  BY <1>1, <1>2, PicksAt
<1>. DEFINE Of(x) == \A j \in DOMAIN x : \E i \in DOMAIN s : i \in places /\ x[j] = s[i]
            Good == {m \in 0 .. Len(s) : Of(F[m])}
<1>4. 0 \in Good
  BY <1>2, <1>3
<1>5. ASSUME NEW m \in 0 .. Len(s) - 1, m \in Good PROVE m + 1 \in Good
  <2>1. m \in 0 .. Len(s) /\ F[m] \in Seq(S) /\ m + 1 \in DOMAIN s /\ s[m + 1] \in S /\ Of(F[m])
    BY <1>2, <1>5
  <2>2. CASE m + 1 \in places
    <3>1. F[m + 1] = Append(F[m], s[m + 1])
      BY Zenon, <1>3, <2>2
    <3>2. ASSUME NEW j \in DOMAIN F[m + 1] PROVE \E i \in DOMAIN s : i \in places /\ F[m + 1][j] = s[i]
      <4>1. CASE j \in DOMAIN F[m]
        BY <2>1, <3>1, <4>1, Appended
      <4>2. CASE j = Len(F[m]) + 1
        BY <2>1, <2>2, <3>1, <4>2, Appended
      <4>. QED  BY <2>1, <3>1, <3>2, <4>1, <4>2, Appended
    <3>. QED  BY <1>2, <2>1, <3>2
  <2>3. CASE m + 1 \notin places
    BY <1>2, <1>3, <2>1, <2>3
  <2>. QED  BY <2>2, <2>3
<1>6. 0 .. Len(s) \subseteq Good
  <2>. HIDE DEF Good
  <2>. QED  BY Zenon, <1>2, <1>4, <1>5, IntervalInduction
<1>7. F[Len(s)] \in Seq(S) /\ Of(F[Len(s)])
  BY <1>2, <1>6
<1>. QED  BY <1>1, <1>7

\* Picking at the places of three sets that part a sequence takes as many
\* elements as it has.
LEMMA PickedCounts ==
  ASSUME NEW S, NEW s \in Seq(S), NEW A, NEW B, NEW C,
         \A i \in DOMAIN s : \/ i \in A /\ i \notin B /\ i \notin C
                             \/ i \notin A /\ i \in B /\ i \notin C
                             \/ i \notin A /\ i \notin B /\ i \in C
  PROVE  Len(SO!Picked(s, A)) + Len(SO!Picked(s, B)) + Len(SO!Picked(s, C)) = Len(s)
<1>1. PICK F \in [0 .. Len(s) -> Seq(S)] : Picks(F, s, A) /\ SO!Picked(s, A) = F[Len(s)]
  BY Zenon, PickedBy
<1>2. PICK G \in [0 .. Len(s) -> Seq(S)] : Picks(G, s, B) /\ SO!Picked(s, B) = G[Len(s)]
  BY PickedBy
<1>3. PICK H \in [0 .. Len(s) -> Seq(S)] : Picks(H, s, C) /\ SO!Picked(s, C) = H[Len(s)]
  BY PickedBy
<1>4. Len(s) \in Nat /\ DOMAIN s = 1 .. Len(s)
  OBVIOUS
<1>5. F[0] = <<>> /\ \A i \in 0 .. Len(s) - 1 : F[i + 1] = IF i + 1 \in A THEN Append(F[i], s[i + 1]) ELSE F[i]
  BY <1>1, <1>4, PicksAt
<1>6. G[0] = <<>> /\ \A i \in 0 .. Len(s) - 1 : G[i + 1] = IF i + 1 \in B THEN Append(G[i], s[i + 1]) ELSE G[i]
  BY <1>2, <1>4, PicksAt
<1>7. H[0] = <<>> /\ \A i \in 0 .. Len(s) - 1 : H[i + 1] = IF i + 1 \in C THEN Append(H[i], s[i + 1]) ELSE H[i]
  BY Zenon, <1>3, <1>4, PicksAt
<1>. DEFINE Good == {m \in 0 .. Len(s) : Len(F[m]) + Len(G[m]) + Len(H[m]) = m}
<1>8. 0 \in Good
  BY <1>4, <1>5, <1>6, <1>7
<1>9. ASSUME NEW m \in 0 .. Len(s) - 1, m \in Good PROVE m + 1 \in Good
  <2>1. /\ m \in 0 .. Len(s) /\ m + 1 \in 0 .. Len(s) /\ m + 1 \in DOMAIN s /\ s[m + 1] \in S
        /\ F[m] \in Seq(S) /\ G[m] \in Seq(S) /\ H[m] \in Seq(S)
        /\ Len(F[m]) + Len(G[m]) + Len(H[m]) = m
    BY <1>4, <1>9
  <2>2. Len(F[m + 1]) = IF m + 1 \in A THEN Len(F[m]) + 1 ELSE Len(F[m])
    <3>1. Len(Append(F[m], s[m + 1])) = Len(F[m]) + 1
      BY <2>1, Appended
    <3>2. F[m + 1] = IF m + 1 \in A THEN Append(F[m], s[m + 1]) ELSE F[m]
      BY <1>5
    <3>. QED  BY <3>1, <3>2
  <2>3. Len(G[m + 1]) = IF m + 1 \in B THEN Len(G[m]) + 1 ELSE Len(G[m])
    <3>1. Len(Append(G[m], s[m + 1])) = Len(G[m]) + 1
      BY <2>1, Appended
    <3>2. G[m + 1] = IF m + 1 \in B THEN Append(G[m], s[m + 1]) ELSE G[m]
      BY <1>6
    <3>. QED  BY <3>1, <3>2
  <2>4. Len(H[m + 1]) = IF m + 1 \in C THEN Len(H[m]) + 1 ELSE Len(H[m])
    <3>1. Len(Append(H[m], s[m + 1])) = Len(H[m]) + 1
      BY <2>1, Appended
    <3>2. H[m + 1] = IF m + 1 \in C THEN Append(H[m], s[m + 1]) ELSE H[m]
      BY <1>7
    <3>. QED  BY <3>1, <3>2
  <2>5. Len(F[m]) \in Nat /\ Len(G[m]) \in Nat /\ Len(H[m]) \in Nat
    BY <2>1
  <2>. QED  BY <2>1, <2>2, <2>3, <2>4, <2>5
<1>10. 0 .. Len(s) \subseteq Good
  <2>. HIDE DEF Good
  <2>. QED  BY Zenon, <1>4, <1>8, <1>9, IntervalInduction
<1>11. Len(F[Len(s)]) + Len(G[Len(s)]) + Len(H[Len(s)]) = Len(s)
  <2>1. \A m \in 0 .. Len(s) : Len(F[m]) + Len(G[m]) + Len(H[m]) = m
    BY <1>10
  <2>2. Len(s) \in 0 .. Len(s)
    BY <1>4
  <2>3. Len(F[Len(s)]) \in Nat /\ Len(G[Len(s)]) \in Nat /\ Len(H[Len(s)]) \in Nat
    BY <2>2
  <2>. HIDE DEF Good
  <2>. QED  BY Zenon, <1>4, <2>1, <2>2, <2>3
<1>. QED  BY <1>1, <1>2, <1>3, <1>11

-----------------------------------------------------------------------------
(* StepOutputs: what a function may tell.                                  *)

called == v1
told == v2

\* What a function produced, without what is the engine's.
OutputOf(c) == SO!StripEngineOwned(c.fn, SO!Produced(c))

\* The output that is there is of a call that was made.
OutputsInv ==
  \/ called = SO!None /\ told = <<>>
  \/ called \in FunctionCalls /\ told = OutputOf(called)

\* What is left of an output is what was produced.
LEMMA StrippedAt ==
  ASSUME NEW fn, NEW m, NEW k \in DOMAIN SO!StripEngineOwned(fn, m)
  PROVE  /\ k \in DOMAIN m /\ SO!StripEngineOwned(fn, m)[k] = m[k]
         /\ k \notin SO!ENGINE_FIELDS \cup SO!RESERVED /\ SO!FunctionMayEmit(k, fn)
BY DEF SO!StripEngineOwned, SO!FunctionMayEmit

\* A field that is not the engine's is left.
LEMMA StrippedKeeps ==
  ASSUME NEW fn, NEW m, NEW k \in DOMAIN m, k \notin SO!ENGINE_FIELDS, SO!FunctionMayEmit(k, fn)
  PROVE  k \in DOMAIN SO!StripEngineOwned(fn, m) /\ SO!StripEngineOwned(fn, m)[k] = m[k]
BY DEF SO!StripEngineOwned

\* Two functions as one.
LEMMA MergedAt ==
  ASSUME NEW m, NEW n, NEW k
  PROVE  /\ k \in DOMAIN SO!Both(m, n) <=> k \in DOMAIN m \/ k \in DOMAIN n
         /\ k \in DOMAIN m => SO!Both(m, n)[k] = m[k]
         /\ k \in DOMAIN n /\ k \notin DOMAIN m => SO!Both(m, n)[k] = n[k]
BY DEF SO!Both

\* The names an extractor may give what it copies.
LEMMA TypedNames ==
  ASSUME NEW m, NEW names, NEW type, NEW k, k \in DOMAIN SO!Typed(m, names, type)
  PROVE  k \in names /\ k \in DOMAIN m /\ m[k].t = type /\ SO!Typed(m, names, type)[k] = m[k]
BY DEF SO!Typed

\* And what it copies a list under.
LEMMA ListsNames ==
  ASSUME NEW m, NEW names, NEW k, k \in DOMAIN SO!Lists(m, names)
  PROVE  k \in names
BY DEF SO!Lists, SO!Typed

\* And what it counts one under.
LEMMA LengthNames ==
  ASSUME NEW m, NEW list, NEW name, NEW k, k \in DOMAIN SO!Length(m, list, name)
  PROVE  k = name
BY DEF SO!Length

\* Only a step that parsed says so, and it says it parsed only when a parser
\* found an object (functions.py, the record_* functions; executor.py,
\* _strip_engine_owned).
LEMMA ParsedIsHonest ==
  ASSUME NEW c \in FunctionCalls, "parse_ok" \in DOMAIN OutputOf(c)
  PROVE  c.fn \in SO!PARSERS /\ (OutputOf(c)["parse_ok"].json => c.text.form = "object")
<1>1. /\ "parse_ok" \in DOMAIN SO!Produced(c) /\ OutputOf(c)["parse_ok"] = SO!Produced(c)["parse_ok"]
      /\ c.fn \in SO!PARSERS
  BY StrippedAt DEF OutputOf, SO!FunctionMayEmit
<1>2. SO!Produced(c) = SO!Recorded(c.fn, c.text, c.reply)
  BY <1>1 DEF SO!Produced, SO!PARSERS
<1>3. SUFFICES ASSUME c.text.form # "object" PROVE SO!Produced(c)["parse_ok"].json = FALSE
  BY Zenon, <1>1
<1>4. CASE c.text = SO!NoText /\ c.fn # "record_email_triage"
  <2>1. SO!Produced(c) = SO!Failed
    BY <1>2, <1>4 DEF SO!Recorded, SO!\oplus
  <2>2. "parse_ok" \notin DOMAIN SO!Failed
    BY DEF SO!Failed
  <2>. QED  BY <1>1, <2>1, <2>2
<1>5. CASE c.fn = "record_email_triage"
  <2>1. SO!Produced(c) = SO!NotJudged(c.text)
    <3>1. DOMAIN <<>> = {}
      OBVIOUS
    <3>. QED  BY <1>2, <1>3, <1>5, <3>1 DEF SO!Recorded, SO!\oplus
  <2>2. SO!NotJudged(c.text)["parse_ok"] = SO!Bool(FALSE)
    BY Zenon DEF SO!NotJudged, SO!\oplus, SO!Both
  <2>. QED  BY <2>1, <2>2 DEF SO!Bool
<1>6. CASE c.text # SO!NoText /\ c.fn # "record_email_triage"
  <2>1. SO!Produced(c) = [parse_ok |-> SO!Bool(FALSE), raw |-> SO!Str("text")]
    <3>1. DOMAIN <<>> = {}
      OBVIOUS
    <3>. QED  BY <1>2, <1>3, <1>6, <3>1 DEF SO!Recorded, SO!\oplus
  <2>. QED  BY <2>1 DEF SO!Bool
<1>. QED  BY Zenon, <1>4, <1>5, <1>6

\* The functions but the triage of mail tell of no labels.
LEMMA OnlyTriageLabels ==
  ASSUME NEW c \in FunctionCalls, c.fn # "noop", "apply_labels" \in DOMAIN SO!Produced(c)
  PROVE  c.fn = "record_email_triage"
<1>. SUFFICES ASSUME c.fn # "record_email_triage" PROVE FALSE
  OBVIOUS
<1>1. c.fn # "filter_rows_by_date"
  <2>. SUFFICES ASSUME c.fn = "filter_rows_by_date" PROVE FALSE
    OBVIOUS
  <2>1. SO!Produced(c) = SO!FilterRows(c)
    BY DEF SO!Produced
  <2>2. "apply_labels" \notin DOMAIN SO!FilterRows(c)
    BY DEF SO!FilterRows, SO!Failed, SO!Filtered, SO!Parted
  <2>. QED  BY <2>1, <2>2
<1>. DEFINE found == IF c.text.form = "object" THEN SO!Extract(c.fn, c.text.m) ELSE <<>>
<1>2. c.fn \in {"record_evaluation", "record_pr_triage", "record_paper_triage", "record_invoice_extraction"}
      /\ SO!Produced(c) = SO!Recorded(c.fn, c.text, c.reply)
  BY <1>1, OutputsAssumption DEF SO!Produced, SO!PARSERS
<1>3. "apply_labels" \notin DOMAIN found
  <2>0. "apply_labels" \notin DOMAIN <<>>
    OBVIOUS
  <2>1. ASSUME NEW m PROVE "apply_labels" \notin DOMAIN SO!EvalScores(m)
    BY MergedAt, TypedNames, ListsNames, LengthNames DEF SO!EvalScores, SO!\oplus
  <2>2. ASSUME NEW m PROVE "apply_labels" \notin DOMAIN SO!PrTriage(m)
    BY MergedAt, TypedNames, ListsNames, LengthNames DEF SO!PrTriage, SO!\oplus
  <2>3. ASSUME NEW m PROVE "apply_labels" \notin DOMAIN SO!PaperTriage(m)
    BY MergedAt, TypedNames, ListsNames, LengthNames DEF SO!PaperTriage, SO!\oplus
  <2>4. ASSUME NEW m PROVE "apply_labels" \notin DOMAIN SO!InvoiceFields(m)
    <3>. DEFINE lines == SO!Typed(m, {"line_items"}, "list")
                copied == [k \in DOMAIN lines |-> SO!LineItems(lines[k])]
    <3>1. DOMAIN copied \subseteq {"line_items"}
      BY TypedNames
    <3>. HIDE DEF copied
    <3>. QED  BY <3>1, MergedAt, TypedNames, ListsNames, LengthNames DEF SO!InvoiceFields, copied, SO!\oplus
  <2>5. found \in {<<>>, SO!EvalScores(c.text.m), SO!PrTriage(c.text.m), SO!PaperTriage(c.text.m),
                    SO!InvoiceFields(c.text.m)}
    BY <1>2 DEF SO!Extract
  <2>. HIDE DEF found
  <2>. QED  BY <2>0, <2>1, <2>2, <2>3, <2>4, <2>5
<1>4. CASE c.fn = "record_invoice_extraction"
  <2>1. "apply_labels" \notin DOMAIN SO!Balance(found)
    <3>. HIDE DEF found
    <3>. QED  BY MergedAt DEF SO!Balance, SO!\oplus
  <2>. HIDE DEF found
  <2>2. "apply_labels" \notin DOMAIN SO!Failed
    BY DEF SO!Failed
  <2>3. "apply_labels" \notin DOMAIN SO!Both(SO!Balance(found), SO!Both(found, [parse_ok |-> SO!Bool(TRUE)]))
    BY <1>3, <2>1, MergedAt
  <2>4. \/ SO!Produced(c) = SO!Failed
        \/ SO!Produced(c) = [parse_ok |-> SO!Bool(FALSE), raw |-> SO!Str("text")]
        \/ SO!Produced(c) = SO!Both(SO!Balance(found), SO!Both(found, [parse_ok |-> SO!Bool(TRUE)]))
    BY <1>2, <1>4 DEF SO!Recorded, found, SO!\oplus
  <2>5. "apply_labels" \notin DOMAIN [parse_ok |-> SO!Bool(FALSE), raw |-> SO!Str("text")]
    OBVIOUS
  <2>. QED  BY Zenon, <2>2, <2>3, <2>4, <2>5
<1>5. CASE c.fn # "record_invoice_extraction"
  <2>. HIDE DEF found
  <2>2. "apply_labels" \notin DOMAIN SO!Failed
    BY DEF SO!Failed
  <2>3. "apply_labels" \notin DOMAIN SO!Both(found, [parse_ok |-> SO!Bool(TRUE)])
    BY <1>3, MergedAt
  <2>4. \/ SO!Produced(c) = SO!Failed
        \/ SO!Produced(c) = [parse_ok |-> SO!Bool(FALSE), raw |-> SO!Str("text")]
        \/ SO!Produced(c) = SO!Both(found, [parse_ok |-> SO!Bool(TRUE)])
    BY <1>2, <1>5 DEF SO!Recorded, found, SO!\oplus
  <2>5. "apply_labels" \notin DOMAIN [parse_ok |-> SO!Bool(FALSE), raw |-> SO!Str("text")]
    OBVIOUS
  <2>. QED  BY Zenon, <2>2, <2>3, <2>4, <2>5
<1>. QED  BY <1>4, <1>5

-----------------------------------------------------------------------------
(* StepOutputs: labels.                                                    *)

\* Every element is one of the two sequences'.
LEMMA JoinedOf ==
  ASSUME NEW X, NEW a \in Seq(X), NEW b \in Seq(X), NEW i \in DOMAIN (a \o b)
  PROVE  \/ \E j \in DOMAIN a : (a \o b)[i] = a[j]
         \/ \E j \in DOMAIN b : (a \o b)[i] = b[j]
<1>1. CASE i \in DOMAIN a
  BY <1>1
<1>2. CASE i \notin DOMAIN a
  <2>1. i - Len(a) \in DOMAIN b /\ (a \o b)[i] = b[i - Len(a)]
    BY <1>2
  <2>. QED  BY <2>1
<1>. QED  BY <1>1, <1>2

\* A string value and what it says.
IsString(v) == v = SO!Str(v.json)

\* The attention the triage tells is the list the classifier wrote, as text.
LEMMA TriageAttention ==
  ASSUME NEW m, "attention" \in DOMAIN SO!EmailTriage(m)
  PROVE  /\ "attention" \in DOMAIN m /\ m["attention"].t = "list"
         /\ SO!EmailTriage(m)["attention"] = SO!List(SO!Deduped(SO!Texts(m["attention"]).json))
<1>. DEFINE given == IF "category_confidence" \in DOMAIN m THEN "category_confidence" ELSE "confidence"
            score == SO!Typed(m, {given}, "num")
            wanted == SO!Typed(m, {"attention"}, "list")
            doubt == SO!Typed(m, {"question_candidate"}, "dict")
            words == SO!Both(SO!Typed(m, {"category", "summary"}, "str"), SO!Typed(m, {"reply_drafted"}, "bool"))
            texts == SO!Lists(m, {"labels_applied"})
            certain == [k \in (IF DOMAIN score = {} THEN {} ELSE {"confidence"}) |-> score[given]]
            levels  == [k \in DOMAIN wanted |-> SO!List(SO!Deduped(SO!Texts(wanted[k]).json))]
            topics  == [k \in {j \in DOMAIN doubt : DOMAIN SO!Typed(doubt[j].json, {"topic"}, "str") # {}} |->
                          SO!Dict([topic |-> doubt[k].json["topic"]])]
            out == SO!Both(SO!Both(SO!Both(SO!Both(words, texts), certain), levels), topics)
<1>1. SO!EmailTriage(m) = SO!Both(out, SO!Length(out, "labels_applied", "label_count"))
  BY DEF SO!EmailTriage, SO!\oplus
<1>2. /\ "attention" \notin DOMAIN words /\ "attention" \notin DOMAIN texts
      /\ "attention" \notin DOMAIN certain /\ "attention" \notin DOMAIN topics
  <2>1. "attention" \notin DOMAIN words
    BY MergedAt, TypedNames
  <2>2. "attention" \notin DOMAIN texts
    BY ListsNames
  <2>3. "attention" \notin DOMAIN certain
    OBVIOUS
  <2>4. "attention" \notin DOMAIN topics
    BY TypedNames
  <2>. QED  BY <2>1, <2>2, <2>3, <2>4
<1>3. "attention" \notin DOMAIN SO!Length(out, "labels_applied", "label_count")
  <2>. HIDE DEF out
  <2>. QED  BY LengthNames
<1>4. "attention" \in DOMAIN out /\ SO!EmailTriage(m)["attention"] = out["attention"]
  <2>. HIDE DEF out
  <2>. QED  BY <1>1, <1>3, MergedAt
<1>5. "attention" \in DOMAIN levels /\ out["attention"] = levels["attention"]
  <2>. HIDE DEF words, texts, certain, levels, topics
  <2>. QED  BY <1>2, <1>4, MergedAt
<1>6. "attention" \in DOMAIN wanted
  BY <1>5
<1>7. "attention" \in DOMAIN m /\ m["attention"].t = "list" /\ wanted["attention"] = m["attention"]
  BY <1>6, TypedNames
<1>. QED  BY <1>4, <1>5, <1>6, <1>7

\* So the levels are a sequence of strings.
LEMMA LevelsAreStrings ==
  ASSUME NEW l, IsList(l.json), \A i \in DOMAIN l.json : IsJson(l.json[i])
  PROVE  \E W : SO!Deduped(SO!Texts(l).json) \in Seq(W) /\ \A v \in W : IsString(v)
<1>. DEFINE s == SO!Texts(l).json
            W == {s[i] : i \in DOMAIN s}
<1>1. s = [i \in DOMAIN l.json |-> IF l.json[i].t = "str" THEN l.json[i] ELSE SO!Str("other")]
  BY DEF SO!Texts, SO!List
<1>2. PICK n \in Nat : DOMAIN l.json = 1 .. n
  BY DEF IsList
<1>3. DOMAIN s = 1 .. n /\ s = [i \in 1 .. n |-> s[i]]
  <2>. HIDE DEF s
  <2>. QED  BY <1>1, <1>2
<1>4. s \in [1 .. n -> W]
  <2>1. \A i \in 1 .. n : s[i] \in W
    BY <1>3
  <2>. HIDE DEF s, W
  <2>. QED  BY <1>3, <2>1
<1>5. s \in Seq(W)
  <2>. HIDE DEF s, W
  <2>. QED  BY <1>4
<1>6. ASSUME NEW v \in W PROVE IsString(v)
  <2>1. PICK i \in DOMAIN s : v = s[i]
    OBVIOUS
  <2>2. i \in DOMAIN l.json
    BY <1>1
  <2>3. v = IF l.json[i].t = "str" THEN l.json[i] ELSE SO!Str("other")
    <3>. HIDE DEF s
    <3>. QED  BY <1>1, <2>1, <2>2
  <2>. QED  BY <2>2, <2>3 DEF IsJson, IsString, SO!Str
<1>7. SO!Deduped(s) \in Seq(W)
  <2>. HIDE DEF s, W
  <2>. QED  BY <1>5, PickedOf DEF SO!Deduped
<1>. QED  BY <1>6, <1>7

\* What is said of a label sequence: its words are ours, one is a category,
\* none is for a reply that was given, and urgent stands without review.
LabelsAreOurs(labels, heard) ==
  LET said == {labels[i].json : i \in DOMAIN labels}
  IN /\ said \subseteq SO!LabelWords
     /\ \A v, w \in SO!TRIAGE_CATEGORIES : {<<"wf", v>>, <<"wf", w>>} \subseteq said => v = w
     /\ heard \in {"replied", "unknown"} => <<"wf-attn", "awaiting-reply">> \notin said
     /\ ~({<<"wf-attn", "urgent">>, <<"wf-attn", "review">>} \subseteq said)

\* The gates let through no word of the classifier's own (record_email_triage).
LEMMA GatesHold ==
  ASSUME NEW triage, NEW heard, NEW W, \A v \in W : IsString(v),
         (IF "attention" \in DOMAIN triage THEN triage["attention"].json ELSE <<>>) \in Seq(W)
  PROVE  LabelsAreOurs(SO!Judged(triage, heard)["apply_labels"].json, heard)
<1>. DEFINE level    == IF "attention" \in DOMAIN triage THEN triage["attention"].json ELSE <<>>
            valid    == \A i \in DOMAIN level : level[i].json \in SO!ATTENTION_LEVELS
            suppress == heard \in {"replied", "unknown"} /\ \E i \in DOMAIN level : level[i] = SO!Str("awaiting-reply")
            staying     == SO!Picked(level, {i \in DOMAIN level : ~(suppress /\ level[i] = SO!Str("awaiting-reply"))})
            isKnown    == SO!KnownCategory(triage)
            shown    == SO!LabelAttention(staying)
            first    == IF isKnown THEN <<SO!Str(<<"wf", triage["category"].json>>)>> ELSE <<>>
            second   == IF valid THEN [i \in DOMAIN shown |-> SO!Str(<<"wf-attn", shown[i].json>>)] ELSE <<>>
            labels   == first \o second
            said     == {labels[i].json : i \in DOMAIN labels}
<1>0. SO!Judged(triage, heard)["apply_labels"] = SO!List(labels)
  <2>. DEFINE record == [category_valid |-> SO!Bool(isKnown), attention_valid |-> SO!Bool(valid),
                         attention |-> SO!List(IF valid THEN staying ELSE <<>>),
                         apply_labels |-> SO!List(labels), apply_label_count |-> SO!Num(Len(labels)),
                         triage_schema_version |-> SO!Num(2), decision_source |-> SO!Str("classifier")]
              answered == [k \in (IF suppress THEN {"awaiting_reply_suppressed"} ELSE {}) |-> SO!Str(heard)]
  <2>1. SO!Judged(triage, heard) = SO!Both(SO!Both(record, answered), triage)
    BY DEF SO!Judged, SO!\oplus
  <2>2. "apply_labels" \in DOMAIN record /\ record["apply_labels"] = SO!List(labels)
    <3>. HIDE DEF labels, isKnown, valid, staying
    <3>. QED  OBVIOUS
  <2>. HIDE DEF record, answered
  <2>. QED  BY <2>1, <2>2, MergedAt
<1>1. /\ staying \in Seq(W)
      /\ \A j \in DOMAIN staying : \E i \in DOMAIN level :
           ~(suppress /\ level[i] = SO!Str("awaiting-reply")) /\ staying[j] = level[i]
  <2>. DEFINE places == {i \in DOMAIN level : ~(suppress /\ level[i] = SO!Str("awaiting-reply"))}
  <2>0. level \in Seq(W)
    OBVIOUS
  <2>1. /\ staying \in Seq(W) /\ staying = SO!Picked(level, places)
        /\ \A j \in DOMAIN staying : \E i \in DOMAIN level : i \in places /\ staying[j] = level[i]
    <3>1. staying = SO!Picked(level, places)
      OBVIOUS
    <3>. HIDE DEF level, places, staying
    <3>. QED  BY <2>0, <3>1, PickedOf
  <2>. HIDE DEF level, suppress, staying
  <2>. QED  BY <2>1
<1>2. /\ shown \in Seq(W)
      /\ \A j \in DOMAIN shown : \E i \in DOMAIN staying :
           /\ ~(staying[i] = SO!Str("review") /\ \E k \in DOMAIN staying : staying[k] = SO!Str("urgent"))
           /\ shown[j] = staying[i]
  <2>. DEFINE places == {i \in DOMAIN staying : ~(staying[i] = SO!Str("review") /\ \E j \in DOMAIN staying : staying[j] = SO!Str("urgent"))}
  <2>. HIDE DEF staying
  <2>1. /\ shown \in Seq(W) /\ shown = SO!Picked(staying, places)
        /\ \A j \in DOMAIN shown : \E i \in DOMAIN staying : i \in places /\ shown[j] = staying[i]
    <3>1. shown = SO!Picked(staying, places)
      BY DEF SO!LabelAttention
    <3>. HIDE DEF places, shown
    <3>. QED  BY <1>1, <3>1, PickedOf
  <2>. HIDE DEF shown
  <2>. QED  BY <2>1
<1>. HIDE DEF level, staying, shown
<1>3. ASSUME NEW x \in said
      PROVE  \/ isKnown /\ x = <<"wf", triage["category"].json>>
             \/ valid /\ \E j \in DOMAIN shown : x = <<"wf-attn", shown[j].json>>
  <2>. DEFINE X == {SO!Str(<<"wf", triage["category"].json>>)} \cup {SO!Str(<<"wf-attn", v.json>>) : v \in W}
  <2>1. first \in Seq(X)
    OBVIOUS
  <2>2. second \in Seq(X)
    <3>1. PICK n \in Nat : DOMAIN shown = 1 .. n
      BY <1>2
    <3>2. \A j \in 1 .. n : shown[j] \in W
      BY <1>2, <3>1
    <3>3. [i \in DOMAIN shown |-> SO!Str(<<"wf-attn", shown[i].json>>)] \in [1 .. n -> X]
      BY Zenon, <3>1, <3>2
    <3>. HIDE DEF X
    <3>. QED  BY <3>3
  <2>3. PICK i \in DOMAIN labels : x = labels[i].json
    BY Zenon
  <2>4. (\E j \in DOMAIN first : labels[i] = first[j]) \/ (\E j \in DOMAIN second : labels[i] = second[j])
    <3>. HIDE DEF first, second, X
    <3>. QED  BY <2>1, <2>2, <2>3, JoinedOf
  <2>5. CASE \E j \in DOMAIN first : labels[i] = first[j]
    <3>. HIDE DEF labels
    <3>. QED  BY <2>3, <2>5 DEF SO!Str
  <2>6. CASE \E j \in DOMAIN second : labels[i] = second[j]
    <3>. HIDE DEF labels
    <3>1. PICK j \in DOMAIN second : labels[i] = second[j]
      BY <2>6
    <3>2. valid /\ j \in DOMAIN shown /\ second[j] = SO!Str(<<"wf-attn", shown[j].json>>)
      BY <3>1
    <3>3. x = <<"wf-attn", shown[j].json>>
      <4>. HIDE DEF second
      <4>. QED  BY <2>3, <3>1, <3>2 DEF SO!Str
    <3>. QED  BY <3>2, <3>3
  <2>. QED  BY Zenon, <2>4, <2>5, <2>6
<1>. HIDE DEF first, second, labels, said, valid
\* A level shown is one that was written.
<1>4. ASSUME NEW j \in DOMAIN shown
      PROVE  \E i \in DOMAIN staying : \E k \in DOMAIN level :
               /\ ~(staying[i] = SO!Str("review") /\ \E n \in DOMAIN staying : staying[n] = SO!Str("urgent"))
               /\ shown[j] = staying[i] /\ staying[i] = level[k] /\ IsString(staying[i])
               /\ ~(suppress /\ level[k] = SO!Str("awaiting-reply"))
  <2>. HIDE DEF suppress
  <2>1. PICK i \in DOMAIN staying :
           /\ ~(staying[i] = SO!Str("review") /\ \E n \in DOMAIN staying : staying[n] = SO!Str("urgent"))
           /\ shown[j] = staying[i]
    BY <1>2
  <2>2. PICK k \in DOMAIN level : ~(suppress /\ level[k] = SO!Str("awaiting-reply")) /\ staying[i] = level[k]
    BY <1>1
  <2>3. staying[i] \in W
    BY <1>1
  <2>. QED  BY <2>1, <2>2, <2>3
<1>5. said \subseteq SO!LabelWords
  <2>1. ASSUME NEW x \in said PROVE x \in SO!LabelWords
    <3>1. CASE isKnown /\ x = <<"wf", triage["category"].json>>
      BY <3>1 DEF SO!LabelWords, SO!KnownCategory
    <3>2. CASE valid /\ \E j \in DOMAIN shown : x = <<"wf-attn", shown[j].json>>
      <4>1. PICK j \in DOMAIN shown : x = <<"wf-attn", shown[j].json>>
        BY <3>2
      <4>2. PICK k \in DOMAIN level : shown[j] = level[k]
        BY <1>4
      <4>3. shown[j].json \in SO!ATTENTION_LEVELS
        BY <3>2, <4>2 DEF valid
      <4>. QED  BY <4>1, <4>3 DEF SO!LabelWords
    <3>. QED  BY <1>3, <3>1, <3>2
  <2>. QED  BY <2>1
<1>6. ASSUME NEW v \in SO!TRIAGE_CATEGORIES, NEW w \in SO!TRIAGE_CATEGORIES,
             {<<"wf", v>>, <<"wf", w>>} \subseteq said
      PROVE  v = w
  <2>1. ASSUME NEW u, <<"wf", u>> \in said PROVE u = triage["category"].json
    BY <1>3, <2>1
  <2>. QED  BY <1>6, <2>1
<1>7. ASSUME heard \in {"replied", "unknown"}, <<"wf-attn", "awaiting-reply">> \in said PROVE FALSE
  <2>1. PICK j \in DOMAIN shown : shown[j].json = "awaiting-reply"
    BY <1>3, <1>7
  <2>2. PICK i \in DOMAIN staying, k \in DOMAIN level :
           /\ shown[j] = staying[i] /\ staying[i] = level[k] /\ IsString(staying[i])
           /\ ~(suppress /\ level[k] = SO!Str("awaiting-reply"))
    BY <1>4
  <2>3. level[k] = SO!Str("awaiting-reply")
    BY <2>1, <2>2 DEF IsString
  <2>. QED  BY <1>7, <2>2, <2>3
<1>8. ASSUME <<"wf-attn", "urgent">> \in said, <<"wf-attn", "review">> \in said PROVE FALSE
  <2>1. PICK j \in DOMAIN shown : shown[j].json = "urgent"
    BY <1>3, <1>8
  <2>2. PICK n \in DOMAIN staying : staying[n] = SO!Str("urgent")
    BY <1>4, <2>1 DEF IsString
  <2>3. PICK j2 \in DOMAIN shown : shown[j2].json = "review"
    BY <1>3, <1>8
  <2>4. PICK i \in DOMAIN staying :
           /\ ~(staying[i] = SO!Str("review") /\ \E k \in DOMAIN staying : staying[k] = SO!Str("urgent"))
           /\ shown[j2] = staying[i] /\ IsString(staying[i])
    BY <1>4
  <2>. QED  BY <2>2, <2>3, <2>4 DEF IsString
<1>9. LabelsAreOurs(labels, heard)
  BY <1>5, <1>6, <1>7, <1>8 DEF LabelsAreOurs, said
<1>. QED  BY <1>0, <1>9 DEF SO!List

\* A triage's labels are words of the platform.
LEMMA LabelsAreHonest ==
  ASSUME NEW c \in FunctionCalls, c.fn # "noop", "apply_labels" \in DOMAIN OutputOf(c)
  PROVE  LabelsAreOurs(OutputOf(c)["apply_labels"].json, c.reply)
<1>1. "apply_labels" \in DOMAIN SO!Produced(c) /\ OutputOf(c)["apply_labels"] = SO!Produced(c)["apply_labels"]
  BY StrippedAt DEF OutputOf
<1>2. c.fn = "record_email_triage"
  BY <1>1, OnlyTriageLabels
<1>. DEFINE found == IF c.text.form = "object" THEN SO!Extract(c.fn, c.text.m) ELSE <<>>
<1>3. SO!Produced(c) = SO!Recorded(c.fn, c.text, c.reply)
  BY <1>2 DEF SO!Produced
<1>4. \/ SO!Produced(c) = SO!NotJudged(c.text)
      \/ DOMAIN found # {} /\ SO!Produced(c) = SO!Both([parse_ok |-> SO!Bool(TRUE)], SO!Judged(found, c.reply))
  BY <1>2, <1>3 DEF SO!Recorded, SO!\oplus
<1>5. CASE SO!Produced(c) = SO!NotJudged(c.text)
  <2>. DEFINE verdict == [parse_ok |-> SO!Bool(FALSE), category_valid |-> SO!Bool(FALSE), attention_valid |-> SO!Bool(FALSE),
                          apply_labels |-> SO!List(<<>>), apply_label_count |-> SO!Num(0), triage_schema_version |-> SO!Num(2),
                          raw |-> IF c.text = SO!NoText THEN SO!Null ELSE SO!Str("text")]
              silent  == [k \in (IF c.text = SO!NoText THEN {"no_output"} ELSE {}) |-> SO!Bool(TRUE)]
  <2>1. SO!NotJudged(c.text) = SO!Both(verdict, silent)
    BY DEF SO!NotJudged, SO!\oplus
  <2>2. "apply_labels" \in DOMAIN verdict /\ verdict["apply_labels"] = SO!List(<<>>)
    OBVIOUS
  <2>. HIDE DEF verdict, silent
  <2>3. OutputOf(c)["apply_labels"].json = <<>>
    BY <1>1, <1>5, <2>1, <2>2, MergedAt DEF SO!List
  <2>4. {<<>>[i].json : i \in DOMAIN <<>>} = {}
    OBVIOUS
  <2>. QED  BY <2>3, <2>4 DEF LabelsAreOurs
<1>6. CASE DOMAIN found # {} /\ SO!Produced(c) = SO!Both([parse_ok |-> SO!Bool(TRUE)], SO!Judged(found, c.reply))
  <2>0. DOMAIN <<>> = {}
    OBVIOUS
  <2>1. c.text.form = "object" /\ found = SO!EmailTriage(c.text.m)
    BY <1>2, <1>6, <2>0 DEF SO!Extract
  <2>2. \A k \in DOMAIN c.text.m : IsJson(c.text.m[k]) /\ (c.text.m[k].t = "list" =>
           \A i \in DOMAIN c.text.m[k].json : IsJson(c.text.m[k].json[i]))
    BY <1>2, <2>1, OutputsAssumption DEF SO!PARSERS
  <2>. HIDE DEF found
  <2>3. \E W : /\ (IF "attention" \in DOMAIN found THEN found["attention"].json ELSE <<>>) \in Seq(W)
               /\ \A v \in W : IsString(v)
    <3>1. CASE "attention" \in DOMAIN found
      <4>1. /\ "attention" \in DOMAIN c.text.m /\ c.text.m["attention"].t = "list"
            /\ found["attention"] = SO!List(SO!Deduped(SO!Texts(c.text.m["attention"]).json))
        BY <2>1, <3>1, TriageAttention
      <4>2. IsList(c.text.m["attention"].json)
            /\ \A i \in DOMAIN c.text.m["attention"].json : IsJson(c.text.m["attention"].json[i])
        BY <2>2, <4>1 DEF IsJson
      <4>3. \E W : SO!Deduped(SO!Texts(c.text.m["attention"]).json) \in Seq(W) /\ \A v \in W : IsString(v)
        BY <4>2, LevelsAreStrings
      <4>4. found["attention"].json = SO!Deduped(SO!Texts(c.text.m["attention"]).json)
        BY <4>1 DEF SO!List
      <4>. QED  BY <3>1, <4>3, <4>4
    <3>2. CASE "attention" \notin DOMAIN found
      <4>1. PICK W : W = {}
        BY Zenon
      <4>2. <<>> \in Seq(W) /\ \A v \in W : IsString(v)
        BY <4>1
      <4>. QED  BY <3>2, <4>2
    <3>. QED  BY <3>1, <3>2
  <2>4. LabelsAreOurs(SO!Judged(found, c.reply)["apply_labels"].json, c.reply)
    BY Zenon, <2>3, GatesHold
  <2>5. SO!Produced(c)["apply_labels"] = SO!Judged(found, c.reply)["apply_labels"]
    <3>1. "apply_labels" \notin DOMAIN [parse_ok |-> SO!Bool(TRUE)]
      OBVIOUS
    <3>. QED  BY <1>1, <1>6, <3>1, MergedAt
  <2>. QED  BY <1>1, <2>4, <2>5
<1>. QED  BY <1>4, <1>5, <1>6

-----------------------------------------------------------------------------
(* StepOutputs: rows.                                                      *)

\* The rows a table leads to are objects, in a sequence.
LEMMA ResolvedRows ==
  ASSUME NEW c \in FunctionCalls, c.fn = "filter_rows_by_date"
  PROVE  /\ \E S : SO!ResolveRows(c.source, c.rows) \in Seq(S)
         /\ \A i \in DOMAIN SO!ResolveRows(c.source, c.rows) :
              SO!Dated(SO!ResolveRows(c.source, c.rows)[i]) =>
                SO!ResolveRows(c.source, c.rows)[i].json["date"].json \in Int
<1>. DEFINE table == c.rows
            S == {table[i] : i \in DOMAIN table}
            dicts == {i \in DOMAIN table : table[i].t = "dict"}
            found == SO!ResolveRows(c.source, table)
<1>1. table \in Seq(S)
  BY OutputsAssumption DEF IsList
<1>2. \A i \in DOMAIN table : table[i].t = "dict" /\ SO!Dated(table[i]) => table[i].json["date"].json \in Int
  BY OutputsAssumption
<1>3. found = IF c.source \in {"config", "context", "text"} THEN SO!Picked(table, dicts) ELSE <<>>
  BY DEF SO!ResolveRows
<1>4. CASE c.source \in {"config", "context", "text"}
  <2>. HIDE DEF table, S, dicts, found
  <2>1. /\ found \in Seq(S)
        /\ \A j \in DOMAIN found : \E i \in DOMAIN table : i \in dicts /\ found[j] = table[i]
    BY <1>1, <1>3, <1>4, PickedOf
  <2>2. \A i \in dicts : table[i].t = "dict"
    BY DEF dicts
  <2>3. \A j \in DOMAIN found : SO!Dated(found[j]) => found[j].json["date"].json \in Int
    BY <1>2, <2>1, <2>2
  <2>. QED  BY <2>1, <2>3 DEF found, table
<1>5. CASE c.source \notin {"config", "context", "text"}
  <2>1. found = <<>> /\ <<>> \in Seq({}) /\ DOMAIN <<>> = {}
    BY <1>3, <1>5
  <2>. QED  BY <2>1
<1>. QED  BY <1>4, <1>5

\* The opposite comparison holds of a date just when this one does not.
LEMMA OppositeCompares ==
  ASSUME NEW d \in Int, NEW cutoff \in Int, NEW comparison \in DOMAIN SO!Opposite
  PROVE  SO!Compared(d, cutoff, SO!Opposite[comparison]) <=> ~SO!Compared(d, cutoff, comparison)
<1>1. comparison \in {"on_or_before", "after", "before", "on_or_after"}
  BY DEF SO!Opposite
<1>2. CASE comparison = "on_or_before"
  <2>1. SO!Opposite[comparison] = "after"
    BY <1>2 DEF SO!Opposite
  <2>. QED  BY <1>2, <2>1 DEF SO!Compared
<1>3. CASE comparison = "after"
  <2>1. SO!Opposite[comparison] = "on_or_before"
    BY <1>3 DEF SO!Opposite
  <2>. QED  BY <1>3, <2>1 DEF SO!Compared
<1>4. CASE comparison = "before"
  <2>1. SO!Opposite[comparison] = "on_or_after"
    BY <1>4 DEF SO!Opposite
  <2>. QED  BY <1>4, <2>1 DEF SO!Compared
<1>5. CASE comparison = "on_or_after"
  <2>1. SO!Opposite[comparison] = "before"
    BY <1>5 DEF SO!Opposite
  <2>. QED  BY <1>5, <2>1 DEF SO!Compared
<1>. QED  BY <1>1, <1>2, <1>3, <1>4, <1>5

\* Every row of a filtered table is kept, dropped or counted, and the opposite
\* comparison keeps what this one drops.
LEMMA RowsAdd ==
  ASSUME NEW c \in FunctionCalls, c.fn = "filter_rows_by_date", "kept_rows" \in DOMAIN OutputOf(c),
         NEW found, found = SO!ResolveRows(c.source, c.rows)
  PROVE  /\ OutputOf(c)["kept_count"].json + OutputOf(c)["dropped_count"].json
              + OutputOf(c)["unparseable_count"].json = Len(found)
         /\ SO!Filtered(found, c.cutoff, SO!Opposite[c.comparison])["kept_rows"] = OutputOf(c)["dropped_rows"]
<1>. DEFINE keep == SO!Passing(found, c.cutoff, c.comparison)
            dated == {i \in DOMAIN found : SO!Dated(found[i])}
            drop == dated \ keep
            undated == {i \in DOMAIN found : ~SO!Dated(found[i])}
            other == SO!Passing(found, c.cutoff, SO!Opposite[c.comparison])
<1>1. "kept_rows" \in DOMAIN SO!Produced(c) /\ SO!Produced(c) = SO!FilterRows(c)
  BY StrippedAt DEF OutputOf, SO!Produced
<1>2. SO!Produced(c) = SO!Filtered(found, c.cutoff, c.comparison)
  <2>1. "kept_rows" \notin DOMAIN SO!Failed
    BY DEF SO!Failed
  <2>. QED  BY <1>1, <2>1 DEF SO!FilterRows
<1>3. SO!Produced(c) = SO!Parted(found, keep, drop)
  BY <1>2 DEF SO!Filtered
<1>4. /\ SO!Produced(c)["kept_count"] = SO!Num(Len(SO!Picked(found, keep)))
      /\ SO!Produced(c)["dropped_count"] = SO!Num(Len(SO!Picked(found, drop)))
      /\ SO!Produced(c)["unparseable_count"] = SO!Num(Len(SO!Picked(found, undated)))
      /\ SO!Produced(c)["dropped_rows"] = SO!List(SO!Picked(found, drop))
      /\ {"kept_count", "dropped_count", "unparseable_count", "dropped_rows"} \subseteq DOMAIN SO!Produced(c)
  <2>. HIDE DEF keep, drop
  <2>. QED  BY <1>3 DEF SO!Parted
<1>5. \A k \in {"kept_count", "dropped_count", "unparseable_count", "dropped_rows"} :
        OutputOf(c)[k] = SO!Produced(c)[k]
  <2>1. ASSUME NEW k \in {"kept_count", "dropped_count", "unparseable_count", "dropped_rows"}
        PROVE k \notin SO!ENGINE_FIELDS /\ SO!FunctionMayEmit(k, c.fn)
    BY DEF SO!ENGINE_FIELDS, SO!FunctionMayEmit, SO!RESERVED
  <2>2. ASSUME NEW k \in {"kept_count", "dropped_count", "unparseable_count", "dropped_rows"}
        PROVE OutputOf(c)[k] = SO!Produced(c)[k]
    <3>1. k \in DOMAIN SO!Produced(c)
      BY <1>4
    <3>. QED  BY <2>1, <3>1, StrippedKeeps DEF OutputOf
  <2>. QED  BY <2>2
<1>6. PICK S : found \in Seq(S)
  BY ResolvedRows
<1>7. \A i \in DOMAIN found : SO!Dated(found[i]) => found[i].json["date"].json \in Int
  BY ResolvedRows
<1>8. c.cutoff \in Int /\ c.comparison \in DOMAIN SO!Opposite
  BY OutputsAssumption
<1>9. Len(SO!Picked(found, keep)) + Len(SO!Picked(found, drop)) + Len(SO!Picked(found, undated)) = Len(found)
  <2>1. \A i \in DOMAIN found : \/ i \in keep /\ i \notin drop /\ i \notin undated
                                \/ i \notin keep /\ i \in drop /\ i \notin undated
                                \/ i \notin keep /\ i \notin drop /\ i \in undated
    BY DEF SO!Passing
  <2>. HIDE DEF keep, drop, undated
  <2>. QED  BY <1>6, <2>1, PickedCounts
<1>10. other = drop
  <2>1. \A i \in dated : i \in other <=> i \notin keep
    BY <1>7, <1>8, OppositeCompares DEF SO!Passing
  <2>2. other \subseteq dated
    BY DEF SO!Passing
  <2>. HIDE DEF other, keep, dated
  <2>. QED  BY <2>1, <2>2
<1>11. SO!Filtered(found, c.cutoff, SO!Opposite[c.comparison])["kept_rows"] = SO!List(SO!Picked(found, other))
  BY DEF SO!Filtered, SO!Parted
<1>. HIDE DEF keep, drop, undated, other
<1>12. SO!Filtered(found, c.cutoff, SO!Opposite[c.comparison])["kept_rows"] = OutputOf(c)["dropped_rows"]
  BY <1>4, <1>5, <1>10, <1>11
<1>13. /\ OutputOf(c)["kept_count"].json = Len(SO!Picked(found, keep))
       /\ OutputOf(c)["dropped_count"].json = Len(SO!Picked(found, drop))
       /\ OutputOf(c)["unparseable_count"].json = Len(SO!Picked(found, undated))
  BY <1>4, <1>5 DEF SO!Num
<1>. QED  BY <1>9, <1>12, <1>13

\* Whatever the output is of, it is honest and its rows are accounted for.
LEMMA OutputsHold ==
  ASSUME OutputsInv
  PROVE  SO!OutputsAreHonest /\ SO!RowsAreAccountedFor
<1>1. CASE called = SO!None /\ told = <<>>
  <2>1. DOMAIN <<>> = {}
    OBVIOUS
  <2>. QED  BY <1>1, <2>1 DEF called, told, SO!OutputsAreHonest, SO!RowsAreAccountedFor
<1>2. CASE called \in FunctionCalls /\ told = OutputOf(called)
  <2>1. called.fn # "noop" /\ "apply_labels" \in DOMAIN told => LabelsAreOurs(told["apply_labels"].json, called.reply)
    BY <1>2, LabelsAreHonest
  <2>2. DOMAIN told \cap (SO!ENGINE_FIELDS \cup SO!RESERVED) = {}
    BY <1>2, StrippedAt DEF OutputOf
  <2>3. "parse_ok" \in DOMAIN told => called.fn \in SO!PARSERS /\ (told["parse_ok"].json => called.text.form = "object")
    BY <1>2, ParsedIsHonest
  <2>4. ASSUME called.fn # "noop", "apply_labels" \in DOMAIN told
        PROVE  LET labels == {told["apply_labels"].json[i].json : i \in DOMAIN told["apply_labels"].json}
               IN /\ labels \subseteq SO!LabelWords
                  /\ \A v, w \in SO!TRIAGE_CATEGORIES : {<<"wf", v>>, <<"wf", w>>} \subseteq labels => v = w
                  /\ called.reply \in {"replied", "unknown"} => <<"wf-attn", "awaiting-reply">> \notin labels
                  /\ ~({<<"wf-attn", "urgent">>, <<"wf-attn", "review">>} \subseteq labels)
    <3>. HIDE DEF called, told
    <3>. QED  BY <2>1, <2>4, Zenon DEF LabelsAreOurs
  <2>5. SO!OutputsAreHonest
    BY <2>2, <2>3, <2>4, Zenon DEF SO!OutputsAreHonest, called, told
  <2>6. SO!RowsAreAccountedFor
    BY <1>2, RowsAdd DEF SO!RowsAreAccountedFor, called, told
  <2>. QED  BY <2>5, <2>6
<1>. QED  BY <1>1, <1>2 DEF OutputsInv

\* Whatever calls are made, of whatever functions, with whatever text and rows:
\* no label is a word of the text's own, no field the engine's, no row is lost
\* and none is both kept and dropped (engine/functions.py, executor.py,
\* _strip_engine_owned).
THEOREM DeterministicOutputsAreAccountedFor == Spec => []OutputsAreAccountedFor
<1> DEFINE Inv == part = "outputs" => OutputsInv
<1>1. Init => Inv
  <2> SUFFICES ASSUME SO!Init PROVE OutputsInv
    BY DEF Init
  <2>. QED  BY DEF SO!Init, OutputsInv, called, told
<1>2. Inv /\ [Next]_all => Inv'
  <2>1. ASSUME SO!Next PROVE OutputsInv'
    BY <2>1 DEF SO!Next, SO!RunDeterministic, OutputsInv, OutputOf, called, told
  <2>2. ASSUME Inv, Next PROVE Inv'
    BY <2>1, <2>2 DEF Next
  <2>3. ASSUME Inv, UNCHANGED all PROVE Inv'
    BY <2>3 DEF all, OutputsInv, called, told
  <2>. QED  BY <2>2, <2>3
<1>3. Inv => OutputsAreAccountedFor
  BY OutputsHold DEF OutputsAreAccountedFor
<1>. QED
  BY <1>1, <1>2, <1>3, PTL DEF Spec
=============================================================================
