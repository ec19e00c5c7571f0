--------------------------- MODULE Simulator_proofs ---------------------------
(***************************************************************************)
(* Theorems about the processes of the simulator: the paths of the tracer, *)
(* for any number of nodes and whatever links are up, the controller with  *)
(* its children, for any number of nodes and of process ids, and the       *)
(* broker that the nodes' frames go through, for any mesh, topology and    *)
(* delay.                                                                  *)
(***************************************************************************)
EXTENDS Controller, Broker, FiniteSetTheorems, SequenceTheorems, TLAPS

(***************************************************************************)
(* The paths of PathTracer.                                                *)
(***************************************************************************)
\* Counting up from 0 to n.
LEMMA UpTo ==
  ASSUME NEW n \in Nat, NEW P, 0 \in P, \A k \in 0 .. n - 1 : k \in P => k + 1 \in P
  PROVE  \A k \in 0 .. n : k \in P
<1> DEFINE B == {k \in 0 .. n : k \notin P}
<1> SUFFICES ASSUME B # {} PROVE FALSE
  OBVIOUS
<1>1. B \subseteq Nat
  OBVIOUS
<1>2. \E k \in B : \A j \in B : ~ (<<j, k>> \in OpToRel(<, Nat))
  <2> HIDE DEF B
  <2> QED BY <1>1, WFMin, NatLessThanWellFounded, Zenon
<1>3. PICK k \in B : \A j \in B : ~ (<<j, k>> \in OpToRel(<, Nat))
  BY <1>2
<1>4. k \in 1 .. n /\ k - 1 \in 0 .. n - 1
  OBVIOUS
<1>5. k - 1 \notin B
  <2> SUFFICES ASSUME k - 1 \in B PROVE FALSE
    OBVIOUS
  <2>1. k - 1 \in Nat /\ k \in Nat /\ k - 1 < k
    BY <1>4
  <2>2. <<k - 1, k>> \in OpToRel(<, Nat)
    BY <2>1 DEF OpToRel
  <2> HIDE DEF B
  <2> QED BY <1>3, <2>2, Zenon
<1>6. k - 1 \in P
  BY <1>4, <1>5
<1>7. (k - 1) + 1 \in P /\ (k - 1) + 1 = k
  BY <1>4, <1>6
<1>8. k \in P /\ k \in B
  BY <1>3, <1>7
<1> QED BY <1>8

\* A step that stays in S can be taken n times.
Steps(n, S, a, step, g) == g \in [0 .. n -> S] /\ g[0] = a /\ \A k \in 1 .. n : g[k] = step[g[k - 1]]

LEMMA Iterates ==
  ASSUME NEW n \in Nat, NEW S, NEW a \in S, NEW step \in [S -> S]
  PROVE  \E g : Steps(n, S, a, step, g)
<1> DEFINE Runs(m, g) == g[0] = a /\ \A k \in 1 .. m : g[k] = step[g[k - 1]]
           P == {m \in 0 .. n : \E g \in [0 .. m -> S] : Runs(m, g)}
<1>1. 0 \in P
  <2>1. PICK g : g = [i \in 0 .. 0 |-> a]
    OBVIOUS
  <2>2. g \in [0 .. 0 -> S] /\ Runs(0, g)
    BY <2>1
  <2> QED BY <2>2
<1>2. ASSUME NEW m \in 0 .. n - 1, m \in P PROVE m + 1 \in P
  <2>1. PICK g \in [0 .. m -> S] : Runs(m, g)
    BY <1>2
  <2>2. PICK h : h = [i \in 0 .. m + 1 |-> IF i = m + 1 THEN step[g[m]] ELSE g[i]]
    OBVIOUS
  <2>3. h \in [0 .. m + 1 -> S]
    BY <2>2
  <2>4. Runs(m + 1, h)
    BY <2>1, <2>2
  <2> QED BY <2>3, <2>4
<1>3. n \in P
  <2> HIDE DEF P
  <2> QED BY <1>1, <1>2, UpTo
<1> QED BY <1>3 DEF Steps

\* The loop over the ids has an order, ...
LEMMA Enumerated ==
  ASSUME NEW S \in SUBSET Ids
  PROVE  \E s \in [1 .. Cardinality(S) -> S] : \A i, j \in 1 .. Cardinality(S) : i < j => s[i] < s[j]
<1> DEFINE Sorted(T, s) == \A i, j \in 1 .. Cardinality(T) : i < j => s[i] < s[j]
           P == {m \in 0 .. MeshNodes : \A T \in SUBSET (0 .. m - 1) :
                   \E s \in [1 .. Cardinality(T) -> T] : Sorted(T, s)}
<1>1. 0 \in P
  <2> SUFFICES ASSUME NEW T \in SUBSET (0 .. 0 - 1)
               PROVE  \E s \in [1 .. Cardinality(T) -> T] : Sorted(T, s)
    BY MeshAssumption
  <2>1. T = {}
    OBVIOUS
  <2>2. Cardinality(T) = 0
    BY <2>1, FS_EmptySet
  <2>3. <<>> \in [1 .. Cardinality(T) -> T] /\ Sorted(T, <<>>)
    BY <2>2
  <2> QED BY <2>3
<1>2. ASSUME NEW m \in 0 .. MeshNodes - 1, m \in P PROVE m + 1 \in P
  <2> SUFFICES ASSUME NEW T \in SUBSET (0 .. m)
               PROVE  \E s \in [1 .. Cardinality(T) -> T] : Sorted(T, s)
    BY MeshAssumption
  <2>0. T \ {m} \subseteq 0 .. m - 1
    OBVIOUS
  <2>1. PICK U \in SUBSET (0 .. m - 1) : U = T \ {m}
    BY <2>0
  <2>2. PICK u \in [1 .. Cardinality(U) -> U] : Sorted(U, u)
    BY <1>2, <2>1
  <2>3. CASE m \notin T
    <3>1. U = T
      BY <2>1, <2>3
    <3> QED BY <2>2, <3>1
  <2>4. CASE m \in T
    <3>1. IsFiniteSet(0 .. m)
      BY FS_Interval
    <3>2. IsFiniteSet(T)
      BY <3>1, FS_Subset
    <3>3. IsFiniteSet(U) /\ Cardinality(T) \in Nat /\ Cardinality(U) = Cardinality(T) - 1 /\ Cardinality(U) \in Nat
      BY <2>1, <2>4, <3>2, FS_RemoveElement, FS_CardinalityType
    <3>4. PICK c \in Nat : c = Cardinality(U) /\ Cardinality(T) = c + 1
      BY <3>3
    <3>5. PICK s : s = [i \in 1 .. c + 1 |-> IF i = c + 1 THEN m ELSE u[i]]
      OBVIOUS
    <3>9. \A i \in 1 .. c : u[i] \in U /\ u[i] \in T /\ u[i] \in 0 .. m - 1
      BY <2>1, <2>2, <3>4
    <3>6. s \in [1 .. c + 1 -> T]
      BY <2>4, <3>5, <3>9
    <3>7. ASSUME NEW i \in 1 .. c + 1, NEW j \in 1 .. c + 1, i < j PROVE s[i] < s[j]
      <4>1. i \in 1 .. c /\ s[i] = u[i] /\ u[i] \in 0 .. m - 1
        BY <3>5, <3>7, <3>9
      <4> QED BY <2>2, <3>4, <3>5, <3>7, <4>1
    <3> QED BY <3>4, <3>6, <3>7
  <2> QED BY <2>3, <2>4
<1>3. MeshNodes \in P
  <2> HIDE DEF P
  <2> QED BY <1>1, <1>2, UpTo, MeshAssumption
<1> QED BY <1>3, MeshAssumption DEF Ids

LEMMA FiniteIds == ASSUME NEW S \in SUBSET Ids PROVE IsFiniteSet(S)
<1>1. 0 \in Int /\ MeshNodes - 1 \in Int
  BY MeshAssumption
<1>2. IsFiniteSet(Ids)
  BY <1>1, FS_Interval DEF Ids
<1> QED BY <1>2, FS_Subset

LEMMA DisjointCounts ==
  ASSUME NEW S, NEW T, IsFiniteSet(S), IsFiniteSet(T), S \cap T = {}
  PROVE  IsFiniteSet(S \cup T) /\ Cardinality(S \cup T) = Cardinality(S) + Cardinality(T)
<1>1. Cardinality(S) \in Nat /\ Cardinality(T) \in Nat /\ Cardinality(S \cap T) = 0
  BY FS_CardinalityType, FS_EmptySet
<1>2. IsFiniteSet(S \cup T) /\ Cardinality(S \cup T) = Cardinality(S) + Cardinality(T) - Cardinality(S \cap T)
  BY FS_Union
<1> QED BY <1>1, <1>2

\* ... and finds each of them.
LEMMA AscendingIsOnto ==
  ASSUME NEW S \in SUBSET Ids
  PROVE  /\ Ascending(S) \in Seq(S) /\ Len(Ascending(S)) = Cardinality(S) /\ Cardinality(S) \in Nat
         /\ \A n \in S : \E i \in 1 .. Len(Ascending(S)) : Ascending(S)[i] = n
<1>1. IsFiniteSet(S) /\ Cardinality(S) \in Nat
  BY FiniteIds, FS_CardinalityType
<1>2. PICK s : s = Ascending(S)
  OBVIOUS
<1>3. s \in [1 .. Cardinality(S) -> S] /\ \A i, j \in 1 .. Cardinality(S) : i < j => s[i] < s[j]
  BY <1>2, Enumerated DEF Ascending
<1>4. PICK c \in Nat : c = Cardinality(S)
  BY <1>1
<1>5. s \in Injection(1 .. c, S)
  <2>1. ASSUME NEW i \in 1 .. c, NEW j \in 1 .. c, s[i] = s[j] PROVE i = j
    <3>1. s[i] \in Ids /\ s[j] \in Ids
      BY <1>3, <1>4
    <3>2. s[i] \in Int /\ s[j] \in Int
      BY <3>1, MeshAssumption DEF Ids
    <3> QED BY <1>3, <1>4, <2>1, <3>2
  <2> QED BY <1>3, <1>4, <2>1 DEF Injection, IsInjective
<1>6. Cardinality(1 .. c) = c
  BY FS_Interval
<1>7. s \in Surjection(1 .. c, S)
  BY <1>1, <1>4, <1>5, <1>6, FS_Injection
<1>8. \A n \in S : \E i \in 1 .. c : s[i] = n
  BY <1>7 DEF Surjection
<1>9. s \in Seq(S) /\ Len(s) = c
  BY <1>3, <1>4
<1> QED BY <1>2, <1>4, <1>8, <1>9

--------------------------------------------------------------------------------
(* The search.                                                               *)

SearchStates == [queue : Seq(Ids), seen : SUBSET Ids, prev : SUBSET (Ids \X Ids)]
SearchStart(src) == [queue |-> <<src>>, seen |-> {src}, prev |-> {}]
Found(ups, s) == {n \in Ids \ s.seen : <<Head(s.queue), n>> \in ups}

\* What one round does to the queue, ...
MovedUp(q, new, z) ==
  /\ Head(q) \in Ids /\ Head(q) = q[1] /\ Len(q) \in Nat \ {0}
  /\ z \in Seq(Ids) /\ Cardinality(new) \in Nat /\ Len(z) = Len(q) - 1 + Cardinality(new)
  /\ \A i \in 1 .. Len(q) - 1 : z[i] = q[i + 1]
  /\ \A i \in Len(q) .. Len(z) : z[i] \in new
  /\ \A n \in new : \E i \in Len(q) .. Len(z) : z[i] = n

\* The queue loses its head and gets the new nodes behind it.
LEMMA QueueMoves ==
  ASSUME NEW q \in Seq(Ids), q # <<>>, NEW new \in SUBSET Ids
  PROVE  MovedUp(q, new, Tail(q) \o Ascending(new))
<1>1. Head(q) \in Ids /\ Head(q) = q[1] /\ Len(q) \in Nat \ {0}
  OBVIOUS
<1>2. PICK a : a = Ascending(new)
  OBVIOUS
<1>3. PICK c \in Nat : c = Cardinality(new)
  BY AscendingIsOnto
<1>4. a \in Seq(Ids) /\ Len(a) = c /\ (\A i \in 1 .. c : a[i] \in new) /\ \A n \in new : \E i \in 1 .. c : a[i] = n
  <2>1. a \in Seq(new) /\ Len(a) = c /\ \A n \in new : \E i \in 1 .. c : a[i] = n
    BY <1>2, <1>3, AscendingIsOnto
  <2> QED BY <2>1
<1>5. PICK t : t = Tail(q)
  OBVIOUS
<1>6. t \in Seq(Ids) /\ Len(t) = Len(q) - 1 /\ \A i \in 1 .. Len(q) - 1 : t[i] = q[i + 1]
  BY <1>5
<1>7. PICK y : y = t \o a
  OBVIOUS
<1>13. y = Tail(q) \o Ascending(new)
  BY <1>2, <1>5, <1>7
<1>14. /\ t \o a \in Seq(Ids) /\ Len(t \o a) = Len(t) + Len(a)
       /\ \A i \in 1 .. Len(t) + Len(a) : (t \o a)[i] = IF i <= Len(t) THEN t[i] ELSE a[i - Len(t)]
  BY <1>4, <1>6, ConcatProperties
<1>8. y \in Seq(Ids) /\ Len(y) = Len(q) - 1 + c
  BY <1>1, <1>3, <1>4, <1>6, <1>7, <1>14
<1>9. \A i \in 1 .. Len(q) - 1 + c : y[i] = IF i <= Len(q) - 1 THEN t[i] ELSE a[i - (Len(q) - 1)]
  BY <1>1, <1>4, <1>6, <1>7, <1>14
<1>10. ASSUME NEW i \in 1 .. Len(q) - 1 PROVE y[i] = q[i + 1]
  <2>1. i \in 1 .. Len(q) - 1 + c /\ i <= Len(q) - 1
    BY <1>1, <1>3
  <2> QED BY <1>6, <1>9, <2>1
<1>11. ASSUME NEW i \in Len(q) .. Len(q) - 1 + c PROVE y[i] \in new
  <2>1. i \in 1 .. Len(q) - 1 + c /\ ~(i <= Len(q) - 1) /\ i - (Len(q) - 1) \in 1 .. c
    BY <1>1, <1>3
  <2> QED BY <1>4, <1>9, <2>1
<1>12. ASSUME NEW n \in new PROVE \E i \in Len(q) .. Len(q) - 1 + c : y[i] = n
  <2>1. PICK j \in 1 .. c : a[j] = n
    BY <1>4
  <2>2. PICK i : i = j + (Len(q) - 1)
    OBVIOUS
  <2>3. i \in Len(q) .. Len(q) - 1 + c /\ i \in 1 .. Len(q) - 1 + c /\ ~(i <= Len(q) - 1) /\ i - (Len(q) - 1) = j
    BY <1>1, <1>3, <2>2
  <2> QED BY <1>9, <2>1, <2>3
<1>15. MovedUp(q, new, y)
  BY <1>1, <1>3, <1>8, <1>10, <1>11, <1>12 DEF MovedUp
<1> QED BY <1>13, <1>15

\* ... and to the search.
Moved(ups, s, q, new, z) ==
  /\ q = s.queue /\ new = Found(ups, s) /\ z = Tail(q) \o Ascending(new)
  /\ q \in Seq(Ids) /\ new \in SUBSET Ids /\ new \cap s.seen = {}
  /\ Visit(ups, s) \in SearchStates
  /\ Visit(ups, s).queue = z /\ Visit(ups, s).seen = s.seen \cup new
  /\ Visit(ups, s).prev = s.prev \cup {<<Head(q), n>> : n \in new}
  /\ Cardinality(s.seen \cup new) = Cardinality(s.seen) + Cardinality(new)

\* What a round does to the search.
LEMMA VisitMoves ==
  ASSUME NEW ups, NEW s \in SearchStates, s.queue # <<>>
  PROVE  \E q, new, z : Moved(ups, s, q, new, z)
<1>1. PICK q, seen, prev : q = s.queue /\ seen = s.seen /\ prev = s.prev
  OBVIOUS
<1>2. q \in Seq(Ids) /\ q # <<>> /\ seen \in SUBSET Ids /\ prev \in SUBSET (Ids \X Ids)
  BY <1>1 DEF SearchStates
<1>3. Found(ups, s) \in SUBSET Ids /\ Found(ups, s) \cap s.seen = {}
  BY DEF Found
<1>4. PICK new \in SUBSET Ids : new = Found(ups, s) /\ new \cap seen = {}
  BY <1>1, <1>3
<1>5. PICK z : z = Tail(q) \o Ascending(new)
  OBVIOUS
<1>6. z \in Seq(Ids) /\ Head(q) \in Ids
  BY <1>2, <1>5, QueueMoves DEF MovedUp
<1>7. PICK links : links = prev \cup {<<Head(q), n>> : n \in new}
  OBVIOUS
<1>8. links \in SUBSET (Ids \X Ids) /\ seen \cup new \in SUBSET Ids
  BY <1>2, <1>6, <1>7
<1>9. Visit(ups, s) = [queue |-> z, seen |-> seen \cup new, prev |-> links]
  <2>1. new = {n \in Ids \ s.seen : <<Head(s.queue), n>> \in ups}
    BY <1>4 DEF Found
  <2> QED BY <1>1, <1>5, <1>7, <2>1, Zenon DEF Visit
<1>10. Cardinality(seen \cup new) = Cardinality(seen) + Cardinality(new)
  <2>1. IsFiniteSet(seen) /\ IsFiniteSet(new)
    BY <1>2, FiniteIds
  <2> QED BY <1>4, <2>1, DisjointCounts
<1>11. Visit(ups, s) \in SearchStates
  BY <1>6, <1>8, <1>9 DEF SearchStates
<1>12. /\ Visit(ups, s).queue = z /\ Visit(ups, s).seen = s.seen \cup new
       /\ Visit(ups, s).prev = s.prev \cup {<<Head(q), n>> : n \in new}
  BY <1>1, <1>7, <1>9
<1>13. new \cap s.seen = {} /\ Cardinality(s.seen \cup new) = Cardinality(s.seen) + Cardinality(new)
  BY <1>1, <1>4, <1>10
<1>14. new \in SUBSET Ids /\ new = Found(ups, s) /\ q \in Seq(Ids)
  BY <1>2, <1>4
<1>15. Moved(ups, s, q, new, z)
  BY <1>1, <1>5, <1>11, <1>12, <1>13, <1>14 DEF Moved
<1> QED BY <1>15

\* What holds between two rounds, for the depth d at which the nodes were found:
\* the links that were used lead to a node from the one it was found from, ...
LinksDeepen(ups, seen, prev, d) ==
  \A m, n \in Ids : <<m, n>> \in prev => <<m, n>> \in ups /\ m \in seen /\ n \in seen /\ d[n] = d[m] + 1
Rooted(src, seen, prev, d) ==
  /\ src \in seen /\ d[src] = 0
  /\ \A n \in seen \ {src} : \E m \in Ids : <<m, n>> \in prev

\* ... the queue goes from the nearer nodes to those one hop further, ...
QueueInOrder(queue, seen, d) ==
  /\ \A i \in 1 .. Len(queue) : queue[i] \in seen
  /\ \A i, j \in 1 .. Len(queue) : i <= j => d[queue[i]] <= d[queue[j]]
  /\ queue # <<>> => \A n \in seen : d[n] <= d[queue[1]] + 1

\* ... whoever has left it, never the destination, has found its neighbours, ...
Spread(ups, dst, queue, seen, d) ==
  \A n \in seen :
    \/ \E i \in 1 .. Len(queue) : queue[i] = n
    \/ n # dst /\ \A m \in Ids : <<n, m>> \in ups => m \in seen /\ d[m] <= d[n] + 1

\* ... and that was one node in each round.
Stopped(dst, queue) == queue = <<>> \/ queue[1] = dst
Counted(dst, queue, seen, d, k) ==
  /\ \A n \in seen : d[n] <= k
  /\ Stopped(dst, queue) \/ Len(queue) + k = Cardinality(seen)

SearchInv(ups, src, dst, s, d, k) ==
  /\ LinksDeepen(ups, s.seen, s.prev, d) /\ Rooted(src, s.seen, s.prev, d)
  /\ QueueInOrder(s.queue, s.seen, d) /\ Spread(ups, dst, s.queue, s.seen, d)
  /\ Counted(dst, s.queue, s.seen, d, k)

\* The source is at depth 0.
LEMMA SearchStarts ==
  ASSUME NEW ups, NEW src \in Ids, NEW dst
  PROVE  SearchStart(src) \in SearchStates /\ SearchInv(ups, src, dst, SearchStart(src), [n \in Ids |-> 0], 0)
<1>1. PICK queue, d : queue = <<src>> /\ d = [n \in Ids |-> 0]
  OBVIOUS
<1>2. queue \in Seq(Ids) /\ Len(queue) = 1 /\ queue[1] = src /\ d \in [Ids -> Nat] /\ d[src] = 0
  BY <1>1
<1>3. SearchStart(src) = [queue |-> queue, seen |-> {src}, prev |-> {}]
  BY <1>1 DEF SearchStart
<1>4. SearchStart(src) \in SearchStates
  BY <1>2, <1>3 DEF SearchStates
<1>5. LinksDeepen(ups, {src}, {}, d) /\ Rooted(src, {src}, {}, d)
  BY <1>2 DEF LinksDeepen, Rooted
<1>6. QueueInOrder(queue, {src}, d) /\ Spread(ups, dst, queue, {src}, d)
  BY <1>2 DEF QueueInOrder, Spread
<1>7. Counted(dst, queue, {src}, d, 0)
  <2>1. Cardinality({src}) = 1
    BY FS_Singleton
  <2> QED BY <1>2, <2>1 DEF Counted
<1>8. SearchInv(ups, src, dst, SearchStart(src), d, 0)
  BY <1>3, <1>5, <1>6, <1>7 DEF SearchInv
<1> QED BY <1>1, <1>4, <1>8

\* A round gives the nodes it finds the next depth.
LEMMA VisitKeeps ==
  ASSUME NEW ups, NEW src \in Ids, NEW dst, NEW s \in SearchStates, NEW d \in [Ids -> Nat], NEW k \in Nat,
         SearchInv(ups, src, dst, s, d, k), ~Stopped(dst, s.queue)
  PROVE  /\ Visit(ups, s) \in SearchStates
         /\ \E e \in [Ids -> Nat] : SearchInv(ups, src, dst, Visit(ups, s), e, k + 1)
<1>1. PICK queue, new, z : Moved(ups, s, queue, new, z)
  BY VisitMoves DEF Stopped
<1>2. PICK seen, prev, links : seen = s.seen /\ prev = s.prev /\ links = prev \cup {<<Head(queue), n>> : n \in new}
  OBVIOUS
<1>3. /\ queue \in Seq(Ids) /\ queue # <<>> /\ queue[1] # dst /\ new \in SUBSET Ids /\ new \cap seen = {}
      /\ seen \in SUBSET Ids /\ prev \in SUBSET (Ids \X Ids) /\ z = Tail(queue) \o Ascending(new)
  BY <1>1, <1>2 DEF Moved, SearchStates, Stopped
<1>4. /\ LinksDeepen(ups, seen, prev, d) /\ Rooted(src, seen, prev, d) /\ QueueInOrder(queue, seen, d)
      /\ Spread(ups, dst, queue, seen, d) /\ Counted(dst, queue, seen, d, k)
  BY <1>1, <1>2 DEF Moved, SearchInv
<1>5. /\ Visit(ups, s) \in SearchStates /\ Visit(ups, s).queue = z /\ Visit(ups, s).seen = seen \cup new
      /\ Visit(ups, s).prev = links /\ Cardinality(seen \cup new) = Cardinality(seen) + Cardinality(new)
  BY <1>1, <1>2 DEF Moved
<1>6. PICK cur : cur = queue[1]
  OBVIOUS
<1>18. MovedUp(queue, new, z)
  BY <1>3, QueueMoves
<1>7. /\ Head(queue) = cur /\ cur \in Ids /\ cur # dst
      /\ Len(queue) \in Nat \ {0} /\ z \in Seq(Ids) /\ Cardinality(new) \in Nat
      /\ Len(z) = Len(queue) - 1 + Cardinality(new)
      /\ \A i \in 1 .. Len(queue) - 1 : z[i] = queue[i + 1]
      /\ \A i \in Len(queue) .. Len(z) : z[i] \in new
      /\ \A n \in new : \E i \in Len(queue) .. Len(z) : z[i] = n
  BY <1>3, <1>6, <1>18 DEF MovedUp
<1>8. cur \in seen /\ \A n \in seen : d[n] <= d[cur] + 1
  BY <1>3, <1>4, <1>6, <1>7 DEF QueueInOrder
<1>9. \A n \in Ids : n \in new <=> n \notin seen /\ <<cur, n>> \in ups
  BY <1>1, <1>2, <1>7 DEF Moved, Found
<1>10. PICK e : e = [n \in Ids |-> IF n \in new THEN d[cur] + 1 ELSE d[n]]
  OBVIOUS
<1>11. /\ e \in [Ids -> Nat] /\ \A n \in Ids : d[n] \in Nat /\ e[n] \in Nat
       /\ \A n \in seen : e[n] = d[n] /\ n \in Ids
       /\ \A n \in new : e[n] = d[cur] + 1 /\ n \in Ids
  <2>1. d[cur] + 1 \in Nat /\ \A n \in Ids : d[n] \in Nat
    BY <1>7
  <2>2. \A n \in Ids : e[n] = IF n \in new THEN d[cur] + 1 ELSE d[n]
    BY <1>10
  <2>3. e \in [Ids -> Nat]
    BY <1>10, <2>1
  <2> QED BY <1>3, <2>1, <2>2, <2>3
<1>12. LinksDeepen(ups, seen \cup new, links, e)
  <2> SUFFICES ASSUME NEW m \in Ids, NEW n \in Ids, <<m, n>> \in links
               PROVE  <<m, n>> \in ups /\ m \in seen \cup new /\ n \in seen \cup new /\ e[n] = e[m] + 1
    BY DEF LinksDeepen
  <2>1. CASE <<m, n>> \in prev
    BY <1>4, <1>11, <2>1 DEF LinksDeepen
  <2>2. CASE m = cur /\ n \in new
    BY <1>8, <1>9, <1>11, <2>2
  <2> QED BY <1>2, <1>7, <2>1, <2>2
<1>13. Rooted(src, seen \cup new, links, e)
  <2>1. src \in seen /\ d[src] = 0 /\ e[src] = 0
    BY <1>4, <1>11 DEF Rooted
  <2>2. ASSUME NEW n \in (seen \cup new) \ {src} PROVE \E m \in Ids : <<m, n>> \in links
    <3>1. CASE n \in seen
      BY <1>2, <1>4, <3>1 DEF Rooted
    <3>2. CASE n \in new
      BY <1>2, <1>7, <3>2
    <3> QED BY <3>1, <3>2
  <2> QED BY <2>1, <2>2 DEF Rooted
<1>14. \A i \in 1 .. Len(z) : \/ i \in 1 .. Len(queue) - 1 /\ z[i] = queue[i + 1] /\ z[i] \in seen /\ e[z[i]] = d[queue[i + 1]]
                                                           /\ d[cur] <= d[queue[i + 1]]
                              \/ i \in Len(queue) .. Len(z) /\ z[i] \in new /\ e[z[i]] = d[cur] + 1
  <2> SUFFICES ASSUME NEW i \in 1 .. Len(z), i \notin Len(queue) .. Len(z)
               PROVE  /\ i \in 1 .. Len(queue) - 1 /\ z[i] = queue[i + 1] /\ z[i] \in seen
                      /\ e[z[i]] = d[queue[i + 1]] /\ d[cur] <= d[queue[i + 1]]
    BY <1>7, <1>11
  <2>1. i \in 1 .. Len(queue) - 1 /\ i + 1 \in 1 .. Len(queue) /\ 1 \in 1 .. Len(queue) /\ 1 <= i + 1
    BY <1>7
  <2>2. z[i] = queue[i + 1] /\ queue[i + 1] \in seen /\ d[cur] <= d[queue[i + 1]]
    BY <1>4, <1>6, <1>7, <2>1 DEF QueueInOrder
  <2> QED BY <1>11, <2>1, <2>2
<1>15. QueueInOrder(z, seen \cup new, e)
  <2>1. \A i \in 1 .. Len(z) : z[i] \in seen \cup new
    BY <1>14
  <2>2. ASSUME NEW i \in 1 .. Len(z), NEW j \in 1 .. Len(z), i <= j PROVE e[z[i]] <= e[z[j]]
    <3>1. CASE j \in 1 .. Len(queue) - 1 /\ i \in 1 .. Len(queue) - 1
      <4>1. i + 1 \in 1 .. Len(queue) /\ j + 1 \in 1 .. Len(queue) /\ i + 1 <= j + 1
        BY <1>7, <2>2, <3>1
      <4>2. d[queue[i + 1]] <= d[queue[j + 1]]
        BY <1>4, <4>1 DEF QueueInOrder
      <4>3. z[i] = queue[i + 1] /\ z[j] = queue[j + 1] /\ z[i] \in seen /\ z[j] \in seen
        BY <1>4, <1>7, <3>1, <4>1 DEF QueueInOrder
      <4> QED BY <1>11, <4>2, <4>3
    <3>2. CASE j \in Len(queue) .. Len(z) /\ i \in 1 .. Len(queue) - 1
      <4>1. e[z[j]] = d[cur] + 1
        BY <1>7, <1>11, <3>2
      <4>2. i + 1 \in 1 .. Len(queue)
        BY <1>7, <3>2
      <4>3. z[i] \in seen
        BY <1>4, <1>7, <3>2, <4>2 DEF QueueInOrder
      <4> QED BY <1>8, <1>11, <4>1, <4>3
    <3>3. CASE j \in Len(queue) .. Len(z) /\ i \in Len(queue) .. Len(z)
      <4>1. e[z[j]] = d[cur] + 1 /\ e[z[i]] = d[cur] + 1
        BY <1>7, <1>11, <3>3
      <4> QED BY <1>7, <1>11, <4>1
    <3> QED BY <1>7, <2>2, <3>1, <3>2, <3>3
  <2>3. ASSUME z # <<>>, NEW n \in seen \cup new PROVE e[n] <= e[z[1]] + 1
    <3>1. 1 \in 1 .. Len(z)
      BY <1>7, <2>3
    <3>2. e[z[1]] \in Nat /\ d[cur] <= e[z[1]]
      <4>1. z[1] \in seen \cup new
        BY <2>1, <3>1
      <4>2. d[cur] \in Nat /\ e[z[1]] \in Nat
        BY <1>7, <1>11, <4>1
      <4>3. CASE 1 \in 1 .. Len(queue) - 1 /\ e[z[1]] = d[queue[1 + 1]] /\ d[cur] <= d[queue[1 + 1]]
        BY <4>2, <4>3
      <4>4. CASE e[z[1]] = d[cur] + 1
        BY <4>2, <4>4
      <4> QED BY <1>14, <3>1, <4>3, <4>4
    <3>3. e[n] <= d[cur] + 1
      BY <1>7, <1>8, <1>11
    <3>4. e[n] \in Nat /\ d[cur] \in Nat
      BY <1>3, <1>7, <1>11
    <3> QED BY <3>2, <3>3, <3>4
  <2> QED BY <2>1, <2>2, <2>3 DEF QueueInOrder
<1>16. Spread(ups, dst, z, seen \cup new, e)
  <2> SUFFICES ASSUME NEW n \in seen \cup new, \A i \in 1 .. Len(z) : z[i] # n
               PROVE  n # dst /\ \A m \in Ids : <<n, m>> \in ups => m \in seen \cup new /\ e[m] <= e[n] + 1
    BY DEF Spread
  <2>1. n \notin new
    <3>1. \A i \in Len(queue) .. Len(z) : i \in 1 .. Len(z)
      BY <1>7
    <3> QED BY <1>7, <3>1
  <2>2. n \in seen /\ e[n] = d[n] /\ d[n] \in Nat
    BY <1>11, <2>1
  <2>3. CASE n = cur
    <3>1. ASSUME NEW m \in Ids, <<cur, m>> \in ups PROVE m \in seen \cup new /\ e[m] <= d[cur] + 1
      BY <1>8, <1>9, <1>11, <3>1
    <3> QED BY <1>7, <2>2, <2>3, <3>1
  <2>4. CASE n # cur
    <3>1. \A i \in 1 .. Len(queue) : queue[i] # n
      <4> SUFFICES ASSUME NEW i \in 1 .. Len(queue), queue[i] = n PROVE FALSE
        OBVIOUS
      <4>1. i # 1
        BY <1>6, <2>4
      <4>2. i - 1 \in 1 .. Len(queue) - 1 /\ i - 1 \in 1 .. Len(z) /\ (i - 1) + 1 = i
        BY <1>7, <4>1
      <4>3. z[i - 1] = queue[i]
        BY <1>7, <4>2
      <4> QED BY <4>2, <4>3
    <3>2. n # dst /\ \A m \in Ids : <<n, m>> \in ups => m \in seen /\ d[m] <= d[n] + 1
      BY <1>4, <2>2, <3>1 DEF Spread
    <3> QED BY <1>11, <2>2, <3>2
  <2> QED BY <2>3, <2>4
<1>17. Counted(dst, z, seen \cup new, e, k + 1)
  <2>1. \A n \in seen : d[n] <= k
    BY <1>4 DEF Counted
  <2>2. ASSUME NEW n \in seen \cup new PROVE e[n] <= k + 1
    BY <1>7, <1>8, <1>11, <2>1
  <2>3. Len(queue) + k = Cardinality(seen)
    BY <1>3, <1>4 DEF Counted, Stopped
  <2>4. Len(z) + (k + 1) = Cardinality(seen \cup new)
    BY <1>5, <1>7, <2>3
  <2> QED BY <2>2, <2>4 DEF Counted
<1> QED BY <1>5, <1>11, <1>12, <1>13, <1>15, <1>16, <1>17 DEF SearchInv

\* The search is the function that its recursion describes, and it is over after
\* as many rounds as there are nodes.
SearchRounds(ups, src, dst, f) ==
  f = [k \in 0 .. MeshNodes |->
         IF k = 0 THEN [queue |-> <<src>>, seen |-> {src}, prev |-> {}]
         ELSE LET s == f[k - 1]
              IN IF s.queue = <<>> \/ (s.queue # <<>> /\ Head(s.queue) = dst)
                 THEN s ELSE Visit(ups, s)]

\* The rounds of the search are those that its recursive function has.
LEMMA SearchIsRecursive ==
  ASSUME NEW ups, NEW src \in Ids, NEW dst
  PROVE  \E f : SearchRounds(ups, src, dst, f) /\ Search(ups, src, dst) = f[MeshNodes]
<1>1. PICK step : step = [s \in SearchStates |-> IF Stopped(dst, s.queue) THEN s ELSE Visit(ups, s)]
  OBVIOUS
<1>2. step \in [SearchStates -> SearchStates]
  <2>1. ASSUME NEW s \in SearchStates, ~Stopped(dst, s.queue) PROVE Visit(ups, s) \in SearchStates
    <3>1. PICK q, new, z : Moved(ups, s, q, new, z)
      BY <2>1, VisitMoves DEF Stopped
    <3> QED BY <3>1 DEF Moved
  <2> QED BY <1>1, <2>1
<1>3. SearchStart(src) \in SearchStates /\ MeshNodes \in Nat
  BY SearchStarts, MeshAssumption
<1>10. PICK g : Steps(MeshNodes, SearchStates, SearchStart(src), step, g)
  BY <1>2, <1>3, Iterates
<1>4. /\ g \in [0 .. MeshNodes -> SearchStates] /\ g[0] = SearchStart(src)
      /\ \A k \in 1 .. MeshNodes : g[k] = step[g[k - 1]]
  BY <1>10 DEF Steps
<1>5. ASSUME NEW s \in SearchStates
      PROVE  Stopped(dst, s.queue) <=> (s.queue = <<>> \/ (s.queue # <<>> /\ Head(s.queue) = dst))
  <2>1. s.queue \in Seq(Ids)
    BY DEF SearchStates
  <2> QED BY <2>1 DEF Stopped
<1>6. ASSUME NEW k \in 0 .. MeshNodes
      PROVE  g[k] = IF k = 0 THEN SearchStart(src)
                    ELSE IF g[k - 1].queue = <<>> \/ (g[k - 1].queue # <<>> /\ Head(g[k - 1].queue) = dst)
                         THEN g[k - 1] ELSE Visit(ups, g[k - 1])
  <2>1. CASE k = 0
    BY <1>4, <2>1
  <2>2. CASE k # 0
    <3>1. k \in 1 .. MeshNodes /\ k - 1 \in 0 .. MeshNodes
      BY <1>3, <2>2
    <3>2. g[k - 1] \in SearchStates
      BY <1>4, <3>1
    <3> QED BY <1>1, <1>4, <1>5, <2>2, <3>1, <3>2
  <2> QED BY <2>1, <2>2
<1>7. SearchRounds(ups, src, dst, g)
  <2>1. g = [k \in 0 .. MeshNodes |-> g[k]]
    BY <1>4
  <2>2. g = [k \in 0 .. MeshNodes |->
               IF k = 0 THEN SearchStart(src)
               ELSE IF g[k - 1].queue = <<>> \/ (g[k - 1].queue # <<>> /\ Head(g[k - 1].queue) = dst)
                    THEN g[k - 1] ELSE Visit(ups, g[k - 1])]
    BY <1>6, <2>1
  <2> QED BY <2>2, Zenon DEF SearchRounds, SearchStart
<1>8. SearchRounds(ups, src, dst, CHOOSE f : SearchRounds(ups, src, dst, f))
  BY <1>7, Zenon
<1>9. Search(ups, src, dst) = (CHOOSE f : SearchRounds(ups, src, dst, f))[MeshNodes]
  BY Zenon DEF Search, SearchRounds
<1> QED BY <1>8, <1>9

\* With as many rounds as there are nodes the search has stopped.
LEMMA SearchEnds ==
  ASSUME NEW ups, NEW src \in Ids, NEW dst
  PROVE  /\ Search(ups, src, dst) \in SearchStates /\ Stopped(dst, Search(ups, src, dst).queue)
         /\ \E d \in [Ids -> Nat] : SearchInv(ups, src, dst, Search(ups, src, dst), d, MeshNodes)
<1>1. PICK f : SearchRounds(ups, src, dst, f) /\ Search(ups, src, dst) = f[MeshNodes]
  BY SearchIsRecursive
<1>2. /\ f[0] = SearchStart(src)
      /\ \A k \in 0 .. MeshNodes - 1 :
           f[k + 1] = IF f[k].queue = <<>> \/ (f[k].queue # <<>> /\ Head(f[k].queue) = dst)
                      THEN f[k] ELSE Visit(ups, f[k])
  <2>1. \A k \in 0 .. MeshNodes :
          f[k] = IF k = 0 THEN SearchStart(src)
                 ELSE IF f[k - 1].queue = <<>> \/ (f[k - 1].queue # <<>> /\ Head(f[k - 1].queue) = dst)
                      THEN f[k - 1] ELSE Visit(ups, f[k - 1])
    BY <1>1 DEF SearchRounds, SearchStart
  <2>2. 0 \in 0 .. MeshNodes /\ \A k \in 0 .. MeshNodes - 1 : k + 1 \in 0 .. MeshNodes /\ k + 1 # 0 /\ (k + 1) - 1 = k
    BY MeshAssumption
  <2> QED BY <2>1, <2>2
<1> DEFINE P == {k \in 0 .. MeshNodes :
                   f[k] \in SearchStates /\ \E d \in [Ids -> Nat] : SearchInv(ups, src, dst, f[k], d, k)}
<1>3. 0 \in P
  <2>1. [n \in Ids |-> 0] \in [Ids -> Nat] /\ 0 \in 0 .. MeshNodes
    BY MeshAssumption
  <2> QED BY <1>2, <2>1, SearchStarts
<1>4. ASSUME NEW k \in 0 .. MeshNodes - 1, k \in P PROVE k + 1 \in P
  <2>1. PICK d \in [Ids -> Nat] : SearchInv(ups, src, dst, f[k], d, k)
    BY <1>4
  <2>2. PICK s \in SearchStates : s = f[k] /\ SearchInv(ups, src, dst, s, d, k)
    BY <1>4, <2>1
  <2>3. s.queue \in Seq(Ids) /\ s.seen \in SUBSET Ids /\ k \in Nat /\ k + 1 \in 0 .. MeshNodes
    BY MeshAssumption DEF SearchStates
  <2>4. CASE Stopped(dst, s.queue)
    <3>1. f[k + 1] = s
      BY <1>2, <2>2, <2>3, <2>4 DEF Stopped
    <3>2. Counted(dst, s.queue, s.seen, d, k)
      BY <2>2 DEF SearchInv
    <3>3. \A n \in s.seen : d[n] \in Nat /\ d[n] <= k /\ d[n] <= k + 1
      BY <2>3, <3>2 DEF Counted
    <3>4. SearchInv(ups, src, dst, s, d, k + 1)
      BY <2>2, <2>4, <3>3 DEF SearchInv, Counted
    <3> QED BY <2>3, <3>1, <3>4
  <2>5. CASE ~Stopped(dst, s.queue)
    <3>1. f[k + 1] = Visit(ups, s)
      BY <1>2, <2>2, <2>3, <2>5 DEF Stopped
    <3>2. Visit(ups, s) \in SearchStates /\ \E e \in [Ids -> Nat] : SearchInv(ups, src, dst, Visit(ups, s), e, k + 1)
      BY <2>2, <2>3, <2>5, VisitKeeps
    <3> QED BY <2>3, <3>1, <3>2
  <2> QED BY <2>4, <2>5
<1>5. MeshNodes \in P
  <2> HIDE DEF P
  <2> QED BY <1>3, <1>4, UpTo, MeshAssumption
<1>6. PICK s \in SearchStates, d \in [Ids -> Nat] :
        s = Search(ups, src, dst) /\ SearchInv(ups, src, dst, s, d, MeshNodes)
  BY <1>1, <1>5
<1>7. Stopped(dst, s.queue)
  <2> SUFFICES ASSUME ~Stopped(dst, s.queue) PROVE FALSE
    OBVIOUS
  <2>1. s.queue \in Seq(Ids) /\ s.queue # <<>> /\ s.seen \in SUBSET Ids
    BY DEF SearchStates, Stopped
  <2>2. Len(s.queue) + MeshNodes = Cardinality(s.seen)
    BY <1>6 DEF SearchInv, Counted
  <2>3. Cardinality(Ids) = MeshNodes
    BY MeshAssumption, FS_Interval DEF Ids
  <2>4. Cardinality(s.seen) <= MeshNodes
    <3>1. IsFiniteSet(Ids)
      BY FiniteIds
    <3> QED BY <2>1, <2>3, <3>1, FS_Subset
  <2>5. Len(s.queue) \in Nat \ {0}
    BY <2>1
  <2> QED BY <2>2, <2>4, <2>5, MeshAssumption
<1> QED BY <1>6, <1>7

--------------------------------------------------------------------------------
(* The reference: the nodes within k hops.                                   *)

Beyond(ups, S) == S \cup {n \in Ids : \E m \in S : <<m, n>> \in ups}
ReachRounds(ups, src, f) ==
  f = [i \in 0 .. MeshNodes |->
         IF i = 0 THEN {src} ELSE f[i - 1] \cup {n \in Ids : \E m \in f[i - 1] : <<m, n>> \in ups}]

\* The nodes within one hop more are those one link beyond.
LEMMA WithinIsRecursive ==
  ASSUME NEW ups, NEW src \in Ids
  PROVE  /\ Within(ups, src, 0) = {src}
         /\ \A k \in 0 .. MeshNodes - 1 : Within(ups, src, k + 1) = Beyond(ups, Within(ups, src, k))
         /\ \A k \in 0 .. MeshNodes : Within(ups, src, k) \subseteq Ids
<1>1. PICK step : step = [S \in SUBSET Ids |-> Beyond(ups, S)]
  OBVIOUS
<1>2. step \in [SUBSET Ids -> SUBSET Ids] /\ {src} \in SUBSET Ids /\ MeshNodes \in Nat
  BY <1>1, MeshAssumption DEF Beyond
<1>3. PICK g : Steps(MeshNodes, SUBSET Ids, {src}, step, g)
  BY <1>2, Iterates
<1>4. g \in [0 .. MeshNodes -> SUBSET Ids] /\ g[0] = {src} /\ \A k \in 1 .. MeshNodes : g[k] = step[g[k - 1]]
  BY <1>3 DEF Steps
<1>5. ASSUME NEW i \in 0 .. MeshNodes
      PROVE  g[i] = IF i = 0 THEN {src} ELSE g[i - 1] \cup {n \in Ids : \E m \in g[i - 1] : <<m, n>> \in ups}
  <2>1. CASE i # 0
    <3>1. i \in 1 .. MeshNodes /\ i - 1 \in 0 .. MeshNodes
      BY <1>2, <2>1
    <3>2. g[i - 1] \in SUBSET Ids /\ g[i] = step[g[i - 1]]
      BY <1>4, <3>1
    <3>3. g[i] = Beyond(ups, g[i - 1])
      BY <1>1, <3>2
    <3> QED BY <2>1, <3>3 DEF Beyond
  <2> QED BY <1>4, <2>1
<1>6. ReachRounds(ups, src, g)
  <2>1. g = [i \in 0 .. MeshNodes |-> g[i]]
    BY <1>4
  <2>2. g = [i \in 0 .. MeshNodes |->
               IF i = 0 THEN {src} ELSE g[i - 1] \cup {n \in Ids : \E m \in g[i - 1] : <<m, n>> \in ups}]
    BY <1>5, <2>1
  <2> QED BY <2>2, Zenon DEF ReachRounds
<1>7. PICK f : f = CHOOSE h : ReachRounds(ups, src, h)
  OBVIOUS
<1>8. ReachRounds(ups, src, f)
  BY <1>6, <1>7, Zenon
<1>9. \A k : Within(ups, src, k) = f[k]
  BY <1>7, Zenon DEF Within, ReachRounds
<1>10. \A i \in 0 .. MeshNodes :
         f[i] = IF i = 0 THEN {src} ELSE f[i - 1] \cup {n \in Ids : \E m \in f[i - 1] : <<m, n>> \in ups}
  BY <1>8 DEF ReachRounds
<1>11. f[0] = {src}
  <2>1. 0 \in 0 .. MeshNodes
    BY <1>2
  <2> QED BY <1>10, <2>1
<1>12. ASSUME NEW k \in 0 .. MeshNodes - 1 PROVE f[k + 1] = Beyond(ups, f[k])
  <2>1. k + 1 \in 0 .. MeshNodes /\ k + 1 # 0 /\ (k + 1) - 1 = k
    BY <1>2
  <2> QED BY <1>10, <2>1 DEF Beyond
<1> DEFINE P == {k \in 0 .. MeshNodes : f[k] \subseteq Ids}
<1>13. 0 \in P
  BY <1>2, <1>11
<1>14. ASSUME NEW k \in 0 .. MeshNodes - 1, k \in P PROVE k + 1 \in P
  BY <1>2, <1>12, <1>14 DEF Beyond
<1>15. \A k \in 0 .. MeshNodes : k \in P
  <2> HIDE DEF P
  <2> QED BY <1>2, <1>13, <1>14, UpTo
<1> QED BY <1>9, <1>11, <1>12, <1>15

\* Where the search has spread, a node within k hops was found at depth k at most.
LEMMA NearAreFound ==
  ASSUME NEW ups, NEW src \in Ids, NEW dst, NEW seen \in SUBSET Ids, NEW d \in [Ids -> Nat],
         src \in seen, d[src] = 0, NEW limit \in 0 .. MeshNodes,
         \A n \in seen : d[n] < limit => \A m \in Ids : <<n, m>> \in ups => m \in seen /\ d[m] <= d[n] + 1
  PROVE  \A k \in 0 .. limit : \A n \in Within(ups, src, k) : n \in seen /\ d[n] <= k
<1> DEFINE P == {k \in 0 .. limit : \A n \in Within(ups, src, k) : n \in seen /\ d[n] <= k}
<1>1. limit \in Nat /\ MeshNodes \in Nat /\ \A n \in Ids : d[n] \in Nat
  BY MeshAssumption
<1>2. 0 \in P
  BY <1>1, WithinIsRecursive
<1>3. ASSUME NEW k \in 0 .. limit - 1, k \in P PROVE k + 1 \in P
  <2>1. k \in 0 .. MeshNodes - 1 /\ k + 1 \in 0 .. limit /\ k \in Nat /\ k < limit
    BY <1>1
  <2>5. Within(ups, src, k + 1) = Beyond(ups, Within(ups, src, k))
    BY <2>1, WithinIsRecursive, Zenon
  <2>2. PICK W : W = Within(ups, src, k) /\ Within(ups, src, k + 1) = Beyond(ups, W)
    BY <2>5
  <2>3. \A n \in W : n \in seen /\ d[n] \in Nat /\ d[n] <= k
    BY <1>1, <1>3, <2>2
  <2>4. ASSUME NEW n \in Beyond(ups, W) PROVE n \in seen /\ d[n] <= k + 1
    <3>1. CASE n \in W
      BY <2>1, <2>3, <3>1
    <3>2. CASE n \in Ids /\ \E m \in W : <<m, n>> \in ups
      <4>1. PICK m \in W : <<m, n>> \in ups
        BY <3>2
      <4>2. m \in seen /\ d[m] \in Nat /\ d[m] <= k /\ d[m] < limit
        BY <1>1, <2>1, <2>3
      <4>3. n \in seen /\ d[n] <= d[m] + 1
        BY <3>2, <4>1, <4>2
      <4> QED BY <1>1, <2>1, <3>2, <4>2, <4>3
    <3> QED BY <3>1, <3>2 DEF Beyond
  <2> QED BY <2>1, <2>2, <2>4
<1>4. \A k \in 0 .. limit : k \in P
  <2> HIDE DEF P
  <2> QED BY <1>1, <1>2, <1>3, UpTo
<1> QED BY <1>4

\* A node that was found at depth k is within k hops.
LEMMA FoundAreNear ==
  ASSUME NEW ups, NEW src \in Ids, NEW seen \in SUBSET Ids, NEW prev, NEW d \in [Ids -> Nat],
         LinksDeepen(ups, seen, prev, d), Rooted(src, seen, prev, d), \A n \in seen : d[n] <= MeshNodes
  PROVE  \A n \in seen : n \in Within(ups, src, MeshNodes)
<1>1. MeshNodes \in Nat /\ \A n \in Ids : d[n] \in Nat
  BY MeshAssumption
<1> DEFINE P == {k \in 0 .. MeshNodes : \A n \in seen : d[n] <= k => n \in Within(ups, src, k)}
<1>2. ASSUME NEW n \in seen, n # src PROVE \E m \in seen : <<m, n>> \in ups /\ d[n] = d[m] + 1 /\ d[m] \in Nat
  BY <1>1, <1>2 DEF LinksDeepen, Rooted
<1>3. 0 \in P
  <2>1. ASSUME NEW n \in seen, d[n] <= 0 PROVE n \in Within(ups, src, 0)
    <3>1. n = src
      <4> SUFFICES ASSUME n # src PROVE FALSE
        OBVIOUS
      <4>1. PICK m \in seen : d[n] = d[m] + 1 /\ d[m] \in Nat
        BY <1>2
      <4> QED BY <2>1, <4>1
    <3> QED BY <3>1, WithinIsRecursive
  <2> QED BY <1>1, <2>1
<1>4. ASSUME NEW k \in 0 .. MeshNodes - 1, k \in P PROVE k + 1 \in P
  <2>1. k + 1 \in 0 .. MeshNodes /\ k \in Nat
    BY <1>1
  <2>4. Within(ups, src, k + 1) = Beyond(ups, Within(ups, src, k))
    BY WithinIsRecursive, Zenon
  <2>2. PICK W : W = Within(ups, src, k) /\ Within(ups, src, k + 1) = Beyond(ups, W)
    BY <2>4
  <2>3. ASSUME NEW n \in seen, d[n] <= k + 1 PROVE n \in Beyond(ups, W)
    <3>1. CASE d[n] <= k
      BY <1>4, <2>2, <3>1 DEF Beyond
    <3>2. CASE ~(d[n] <= k)
      <4>1. n # src
        BY <2>1, <3>2 DEF Rooted
      <4>2. PICK m \in seen : <<m, n>> \in ups /\ d[n] = d[m] + 1 /\ d[m] \in Nat
        BY <1>2, <4>1
      <4>3. d[m] <= k
        BY <2>1, <2>3, <4>2
      <4> QED BY <1>4, <2>2, <4>2, <4>3 DEF Beyond
    <3> QED BY <3>1, <3>2
  <2> QED BY <2>1, <2>2, <2>3
<1>5. MeshNodes \in P
  <2> HIDE DEF P
  <2> QED BY <1>1, <1>3, <1>4, UpTo
<1> QED BY <1>5

--------------------------------------------------------------------------------
(* The way back.                                                             *)

\* A piece of the route: its links are up, and it has as many as the depth of its
\* head is less than that of the destination.
Trails(ups, dst, seen, d) ==
  {p \in Seq(Ids) :
     /\ p # <<>> /\ p[1] \in seen /\ p[Len(p)] = dst
     /\ Len(p) - 1 + d[p[1]] = d[dst]
     /\ \A i \in 1 .. Len(p) - 1 : <<p[i], p[i + 1]>> \in ups}

Origin(prev, n) == CHOOSE m \in Ids : <<m, n>> \in prev
WalkRounds(prev, src, dst, f) ==
  f = [k \in 0 .. MeshNodes |->
         IF k = 0 THEN <<dst>>
         ELSE LET p == f[k - 1]
              IN IF Head(p) = src THEN p ELSE <<CHOOSE n \in Ids : <<n, Head(p)>> \in prev>> \o p]

Tree(ups, src, dst, seen, prev, d) ==
  /\ seen \in SUBSET Ids /\ d \in [Ids -> Nat]
  /\ LinksDeepen(ups, seen, prev, d) /\ Rooted(src, seen, prev, d)
  /\ dst \in seen /\ d[dst] <= MeshNodes

\* One round back: the piece of the route grows by the link to its head.
LEMMA BackOne ==
  ASSUME NEW ups, NEW src \in Ids, NEW dst \in Ids, NEW seen \in SUBSET Ids, NEW prev, NEW d \in [Ids -> Nat],
         LinksDeepen(ups, seen, prev, d), Rooted(src, seen, prev, d),
         NEW p \in Trails(ups, dst, seen, d), p[1] # src
  PROVE  /\ <<Origin(prev, p[1])>> \o p \in Trails(ups, dst, seen, d)
         /\ Len(<<Origin(prev, p[1])>> \o p) = Len(p) + 1
<1>1. /\ p \in Seq(Ids) /\ p # <<>> /\ p[1] \in seen /\ p[Len(p)] = dst /\ Len(p) - 1 + d[p[1]] = d[dst]
      /\ \A i \in 1 .. Len(p) - 1 : <<p[i], p[i + 1]>> \in ups
  BY DEF Trails
<1>2. PICK m : m = Origin(prev, p[1])
  OBVIOUS
<1>3. m \in Ids /\ <<m, p[1]>> \in prev
  BY <1>1, <1>2 DEF Rooted, Origin
<1>4. <<m, p[1]>> \in ups /\ m \in seen /\ d[p[1]] = d[m] + 1
  BY <1>1, <1>3 DEF LinksDeepen
<1>5. PICK r : r = <<m>> \o p
  OBVIOUS
<1>6. Len(p) \in Nat \ {0} /\ d[m] \in Nat /\ d[p[1]] \in Nat /\ d[dst] \in Nat
  BY <1>1, <1>3
<1>7. <<m>> \in Seq(Ids) /\ Len(<<m>>) = 1 /\ <<m>>[1] = m
  BY <1>3
<1>8. /\ r \in Seq(Ids) /\ Len(r) = Len(p) + 1
      /\ \A i \in 1 .. Len(p) + 1 : r[i] = IF i <= 1 THEN <<m>>[i] ELSE p[i - 1]
  <2>1. /\ <<m>> \o p \in Seq(Ids) /\ Len(<<m>> \o p) = Len(<<m>>) + Len(p)
        /\ \A i \in 1 .. Len(<<m>>) + Len(p) : (<<m>> \o p)[i] = IF i <= Len(<<m>>) THEN <<m>>[i] ELSE p[i - Len(<<m>>)]
    BY <1>1, <1>7, ConcatProperties
  <2> QED BY <1>5, <1>6, <1>7, <2>1
<1>14. r[1] = m
  <2>1. 1 \in 1 .. Len(p) + 1
    BY <1>6
  <2>2. r[1] = <<m>>[1]
    BY <1>8, <2>1
  <2> QED BY <1>7, <2>2
<1>15. ASSUME NEW i \in 2 .. Len(p) + 1 PROVE r[i] = p[i - 1]
  <2>1. i \in 1 .. Len(p) + 1 /\ ~(i <= 1)
    BY <1>6
  <2> QED BY <1>8, <2>1
<1>9. r[1] = m /\ \A i \in 2 .. Len(p) + 1 : r[i] = p[i - 1]
  BY <1>14, <1>15
<1>10. r[Len(r)] = dst /\ r # <<>>
  BY <1>1, <1>6, <1>8, <1>9
<1>11. Len(r) - 1 + d[r[1]] = d[dst]
  BY <1>1, <1>4, <1>6, <1>8, <1>9
<1>12. ASSUME NEW i \in 1 .. Len(r) - 1 PROVE <<r[i], r[i + 1]>> \in ups
  <2>1. CASE i = 1
    <3>1. r[i] = m /\ i + 1 \in 2 .. Len(p) + 1 /\ (i + 1) - 1 = 1
      BY <1>6, <1>9, <2>1
    <3>2. r[i + 1] = p[1]
      BY <1>9, <3>1
    <3> QED BY <1>4, <3>1, <3>2
  <2>2. CASE i # 1
    <3>1. i \in 2 .. Len(p) + 1 /\ i + 1 \in 2 .. Len(p) + 1 /\ i - 1 \in 1 .. Len(p) - 1 /\ (i + 1) - 1 = (i - 1) + 1
      BY <1>6, <1>8, <2>2
    <3>2. r[i] = p[i - 1] /\ r[i + 1] = p[(i - 1) + 1]
      BY <1>9, <3>1
    <3> QED BY <1>1, <3>1, <3>2
  <2> QED BY <2>1, <2>2
<1>13. r \in Trails(ups, dst, seen, d)
  BY <1>4, <1>8, <1>9, <1>10, <1>11, <1>12 DEF Trails
<1> QED BY <1>2, <1>5, <1>8, <1>13

Retraced(ups, src, dst, seen, prev, d) ==
  /\ <<dst>> \in Trails(ups, dst, seen, d)
  /\ \E f : WalkRounds(prev, src, dst, f) /\ Walk(prev, src, dst) = f[MeshNodes]

\* The rounds back are those that the recursive function has.
LEMMA WalkIsRecursive ==
  ASSUME NEW ups, NEW src \in Ids, NEW dst \in Ids, NEW seen, NEW prev, NEW d,
         Tree(ups, src, dst, seen, prev, d)
  PROVE  Retraced(ups, src, dst, seen, prev, d)
<1>12. seen \in SUBSET Ids /\ d \in [Ids -> Nat] /\ LinksDeepen(ups, seen, prev, d) /\ Rooted(src, seen, prev, d) /\ dst \in seen
  BY DEF Tree
<1>1. PICK S : S = Trails(ups, dst, seen, d)
  OBVIOUS
<1>2. PICK step : step = [p \in S |-> IF p[1] = src THEN p ELSE <<Origin(prev, p[1])>> \o p]
  OBVIOUS
<1>3. step \in [S -> S]
  <2>1. ASSUME NEW p \in S, p[1] # src PROVE <<Origin(prev, p[1])>> \o p \in S
    BY <1>1, <1>12, <2>1, BackOne
  <2> QED BY <1>2, <2>1
<1>4. <<dst>> \in S /\ MeshNodes \in Nat
  <2>1. PICK p : p = <<dst>>
    OBVIOUS
  <2>2. p \in Seq(Ids) /\ p # <<>> /\ Len(p) = 1 /\ p[1] = dst /\ d[dst] \in Nat
    BY <1>12, <2>1
  <2>4. p[Len(p)] = dst
    BY <2>2
  <2>5. Len(p) - 1 + d[p[1]] = d[dst]
    BY <2>2
  <2>6. \A i \in 1 .. Len(p) - 1 : <<p[i], p[i + 1]>> \in ups
    BY <2>2
  <2>7. p[1] \in seen
    BY <1>12, <2>2
  <2>3. p \in S
    BY <1>1, <2>2, <2>4, <2>5, <2>6, <2>7 DEF Trails
  <2> QED BY <2>1, <2>3, MeshAssumption
<1>5. PICK g : Steps(MeshNodes, S, <<dst>>, step, g)
  BY <1>3, <1>4, Iterates
<1>6. g \in [0 .. MeshNodes -> S] /\ g[0] = <<dst>> /\ \A k \in 1 .. MeshNodes : g[k] = step[g[k - 1]]
  BY <1>5 DEF Steps
<1>7. ASSUME NEW p \in S PROVE Head(p) = p[1]
  <2>1. p \in Seq(Ids) /\ p # <<>>
    BY <1>1 DEF Trails
  <2> QED BY <2>1
<1>8. ASSUME NEW k \in 0 .. MeshNodes
      PROVE  g[k] = IF k = 0 THEN <<dst>>
                    ELSE IF Head(g[k - 1]) = src THEN g[k - 1]
                         ELSE <<Origin(prev, Head(g[k - 1]))>> \o g[k - 1]
  <2>1. CASE k # 0
    <3>1. k \in 1 .. MeshNodes /\ k - 1 \in 0 .. MeshNodes
      BY <1>4, <2>1
    <3>2. g[k - 1] \in S /\ g[k] = step[g[k - 1]]
      BY <1>6, <3>1
    <3> QED BY <1>2, <1>7, <2>1, <3>2
  <2> QED BY <1>6, <2>1
<1>9. WalkRounds(prev, src, dst, g)
  <2>1. g = [k \in 0 .. MeshNodes |-> g[k]]
    BY <1>6
  <2>2. g = [k \in 0 .. MeshNodes |->
               IF k = 0 THEN <<dst>>
               ELSE IF Head(g[k - 1]) = src THEN g[k - 1] ELSE <<Origin(prev, Head(g[k - 1]))>> \o g[k - 1]]
    BY <1>8, <2>1
  <2> QED BY <2>2, Zenon DEF WalkRounds, Origin
<1>10. WalkRounds(prev, src, dst, CHOOSE f : WalkRounds(prev, src, dst, f))
  BY <1>9, Zenon
<1>11. Walk(prev, src, dst) = (CHOOSE f : WalkRounds(prev, src, dst, f))[MeshNodes]
  BY Zenon DEF Walk, WalkRounds
<1> QED BY <1>1, <1>4, <1>10, <1>11 DEF Retraced

\* The way back comes to the source, with one node for each depth.
LEMMA WalkArrives ==
  ASSUME NEW ups, NEW src \in Ids, NEW dst \in Ids, NEW seen, NEW prev, NEW d,
         Tree(ups, src, dst, seen, prev, d)
  PROVE  /\ IsRoute(ups, Walk(prev, src, dst), src, dst) /\ Walk(prev, src, dst) \in Seq(Ids)
         /\ Len(Walk(prev, src, dst)) = d[dst] + 1
<1>11. seen \in SUBSET Ids /\ d \in [Ids -> Nat] /\ LinksDeepen(ups, seen, prev, d) /\ Rooted(src, seen, prev, d)
       /\ dst \in seen /\ d[dst] <= MeshNodes
  BY DEF Tree
<1>12. Retraced(ups, src, dst, seen, prev, d)
  BY WalkIsRecursive
<1>1. PICK f : WalkRounds(prev, src, dst, f) /\ Walk(prev, src, dst) = f[MeshNodes]
  BY <1>12 DEF Retraced
<1>2. PICK S : S = Trails(ups, dst, seen, d)
  OBVIOUS
<1>3. ASSUME NEW p \in S
      PROVE  /\ p \in Seq(Ids) /\ p # <<>> /\ Head(p) = p[1] /\ p[1] \in seen /\ Len(p) \in Nat
             /\ p[Len(p)] = dst /\ Len(p) - 1 + d[p[1]] = d[dst] /\ d[p[1]] \in Nat /\ d[dst] \in Nat
             /\ \A i \in 1 .. Len(p) - 1 : <<p[i], p[i + 1]>> \in ups
  <2>1. p \in Seq(Ids) /\ p # <<>> /\ p[1] \in seen
    BY <1>2 DEF Trails
  <2> QED BY <1>2, <1>11, <2>1 DEF Trails
<1>4. \A k \in 0 .. MeshNodes :
        f[k] = IF k = 0 THEN <<dst>>
               ELSE IF Head(f[k - 1]) = src THEN f[k - 1] ELSE <<Origin(prev, Head(f[k - 1]))>> \o f[k - 1]
  BY <1>1 DEF WalkRounds, Origin
<1> DEFINE P == {k \in 0 .. MeshNodes : f[k] \in S /\ (f[k][1] = src \/ Len(f[k]) = k + 1)}
<1>5. 0 \in P
  <2>3. 0 \in 0 .. MeshNodes
    BY MeshAssumption
  <2>4. f[0] = <<dst>>
    BY <1>4, <2>3, Zenon
  <2>1. f[0] = <<dst>> /\ Len(<<dst>>) = 0 + 1
    BY <2>4
  <2>2. <<dst>> \in S
    BY <1>2, <1>12 DEF Retraced
  <2> QED BY <2>1, <2>2, <2>3
<1>6. ASSUME NEW k \in 0 .. MeshNodes - 1, k \in P PROVE k + 1 \in P
  <2>1. k + 1 \in 0 .. MeshNodes /\ k + 1 # 0 /\ (k + 1) - 1 = k /\ k \in Nat
    BY MeshAssumption
  <2>2. PICK p \in S : p = f[k] /\ (p[1] = src \/ Len(p) = k + 1)
    BY <1>6
  <2>3. f[k + 1] = IF p[1] = src THEN p ELSE <<Origin(prev, p[1])>> \o p
    BY <1>3, <1>4, <2>1, <2>2
  <2>4. CASE p[1] = src
    BY <2>1, <2>2, <2>3, <2>4
  <2>5. CASE p[1] # src
    <3>1. PICK r : r = <<Origin(prev, p[1])>> \o p
      OBVIOUS
    <3>2. r \in S /\ Len(r) = Len(p) + 1
      BY <1>2, <1>11, <2>5, <3>1, BackOne
    <3> QED BY <2>1, <2>2, <2>3, <2>5, <3>1, <3>2
  <2> QED BY <2>4, <2>5
<1>7. MeshNodes \in P
  <2> HIDE DEF P
  <2> QED BY <1>5, <1>6, UpTo, MeshAssumption
<1>8. PICK p \in S : p = Walk(prev, src, dst) /\ (p[1] = src \/ Len(p) = MeshNodes + 1)
  BY <1>1, <1>7
<1>9. p[1] = src
  <2> SUFFICES ASSUME p[1] # src PROVE FALSE
    OBVIOUS
  <2>1. d[p[1]] <= 0
    BY <1>3, <1>8, <1>11, MeshAssumption
  <2>2. PICK m \in Ids : d[p[1]] = d[m] + 1
    BY <1>3, <1>11 DEF Rooted, LinksDeepen
  <2>3. d[m] \in Nat
    BY <1>11
  <2> QED BY <2>1, <2>2, <2>3
<1>10. Len(p) = d[dst] + 1
  <2>1. d[p[1]] = 0
    BY <1>9, <1>11 DEF Rooted
  <2> QED BY <1>3, <2>1
<1> QED BY <1>3, <1>8, <1>9, <1>10 DEF IsRoute

--------------------------------------------------------------------------------
\* Whatever links are up, tracePath() finds a route exactly when there is one, and
\* no other has fewer hops.
THEOREM TracedRouteIsShortest ==
  ASSUME NEW ups, NEW src \in Ids, NEW dst \in Ids
  PROVE  IF dst \in Within(ups, src, MeshNodes)
         THEN /\ IsRoute(ups, TracePath(ups, src, dst), src, dst)
              /\ Len(TracePath(ups, src, dst)) > 1 => dst \notin Within(ups, src, Len(TracePath(ups, src, dst)) - 2)
         ELSE TracePath(ups, src, dst) = <<>>
<1>1. PICK s \in SearchStates : s = Search(ups, src, dst) /\ Stopped(dst, s.queue)
  BY SearchEnds
<1>2. PICK d \in [Ids -> Nat] : SearchInv(ups, src, dst, s, d, MeshNodes)
  BY <1>1, SearchEnds
<1>3. PICK queue, seen, prev : queue = s.queue /\ seen = s.seen /\ prev = s.prev
  OBVIOUS
<1>4. queue \in Seq(Ids) /\ seen \in SUBSET Ids /\ Stopped(dst, queue)
  BY <1>1, <1>3 DEF SearchStates
<1>5. /\ LinksDeepen(ups, seen, prev, d) /\ Rooted(src, seen, prev, d) /\ QueueInOrder(queue, seen, d)
      /\ Spread(ups, dst, queue, seen, d) /\ \A n \in seen : d[n] <= MeshNodes
  BY <1>2, <1>3 DEF SearchInv, Counted
<1>6. TracePath(ups, src, dst) = IF dst \notin seen THEN <<>> ELSE Walk(prev, src, dst)
  BY <1>1, <1>3 DEF TracePath
<1>7. src \in seen /\ d[src] = 0 /\ MeshNodes \in Nat /\ \A n \in Ids : d[n] \in Nat
  BY <1>5, MeshAssumption DEF Rooted
<1>8. CASE dst \notin seen
  <2>1. queue = <<>>
    <3>1. queue # <<>> => queue[1] \in seen
      BY <1>4, <1>5 DEF QueueInOrder
    <3> QED BY <1>4, <1>8, <3>1 DEF Stopped
  <2>2. \A n \in seen : \A m \in Ids : <<n, m>> \in ups => m \in seen /\ d[m] <= d[n] + 1
    BY <1>5, <2>1 DEF Spread
  <2>3. MeshNodes \in 0 .. MeshNodes
    BY <1>7
  <2>4. \A k \in 0 .. MeshNodes : \A n \in Within(ups, src, k) : n \in seen
    BY <1>4, <1>7, <2>2, <2>3, NearAreFound
  <2>5. dst \notin Within(ups, src, MeshNodes)
    BY <1>8, <2>3, <2>4
  <2> QED BY <1>6, <1>8, <2>5
<1>9. CASE dst \in seen
  <2>1. PICK p : p = Walk(prev, src, dst) /\ p = TracePath(ups, src, dst)
    BY <1>6, <1>9
  <2>2. IsRoute(ups, p, src, dst) /\ Len(p) = d[dst] + 1
    <3>1. d[dst] <= MeshNodes
      BY <1>5, <1>9
    <3>2. Tree(ups, src, dst, seen, prev, d)
      BY <1>4, <1>5, <1>9, <3>1 DEF Tree
    <3>3. IsRoute(ups, Walk(prev, src, dst), src, dst) /\ Len(Walk(prev, src, dst)) = d[dst] + 1
      BY <3>2, WalkArrives
    <3> QED BY <2>1, <3>3
  <2>3. dst \in Within(ups, src, MeshNodes)
    BY <1>4, <1>5, <1>9, FoundAreNear
  <2>4. queue # <<>> /\ queue[1] = dst
    <3>1. \E i \in 1 .. Len(queue) : queue[i] = dst
      BY <1>5, <1>9 DEF Spread
    <3> QED BY <1>4, <3>1 DEF Stopped
  <2>5. ASSUME NEW n \in seen, d[n] < d[dst]
        PROVE  \A m \in Ids : <<n, m>> \in ups => m \in seen /\ d[m] <= d[n] + 1
    <3>1. ASSUME NEW i \in 1 .. Len(queue) PROVE queue[i] # n
      <4>1. 1 \in 1 .. Len(queue) /\ 1 <= i
        BY <1>4
      <4>2. d[dst] <= d[queue[i]]
        BY <1>5, <2>4, <4>1 DEF QueueInOrder
      <4> QED BY <1>4, <1>7, <2>5, <4>2
    <3> QED BY <1>5, <3>1 DEF Spread
  <2>6. d[dst] \in 0 .. MeshNodes
    BY <1>5, <1>7, <1>9
  <2>7. \A k \in 0 .. d[dst] : \A n \in Within(ups, src, k) : d[n] <= k
    BY <1>4, <1>7, <2>5, <2>6, NearAreFound
  <2>8. Len(p) > 1 => dst \notin Within(ups, src, Len(p) - 2)
    <3> SUFFICES ASSUME Len(p) > 1, dst \in Within(ups, src, Len(p) - 2) PROVE FALSE
      OBVIOUS
    <3>1. PICK k : k = Len(p) - 2
      OBVIOUS
    <3>2. k \in 0 .. d[dst] /\ k < d[dst]
      BY <2>2, <2>6, <3>1
    <3>3. d[dst] <= k
      BY <2>7, <3>1, <3>2
    <3> QED BY <2>6, <3>2, <3>3
  <2> QED BY <2>1, <2>2, <2>3, <2>8
<1> QED BY <1>8, <1>9

(***************************************************************************)
(* The controller.                                                         *)
(***************************************************************************)
Statuses == {"free", "born", "up", "ending", "zombie"}
Entries == [who : Children \cup {Other}, st : Statuses]
Places == {"spawn", "loop", "read", "client", "lines", "asking", "asking for client", "reap", "respawn",
           "stop", "wait", "exited", "killed"}

ControllerTyped ==
  /\ table \in [Pids -> Entries] /\ pidOf \in [Children -> Pids \cup {NoPid}]
  /\ broker \in {"absent", "accepting", "serving", "gone"} /\ counted \in Nat
  /\ mode \in {"console", "scenario"} /\ running \in BOOLEAN
  /\ at \in [pc : Places, node : Children]
  /\ lines \in 0 .. MaxLines /\ client \in {"none", "silent", "sent"}

\* The start has not come to child c yet; the end has waited for it already.
YetToSpawn(c) == At("spawn") /\ (at.node = Broker \/ (c # Broker /\ at.node <= c))
WaitedFor(c) == At("exited") \/ (At("wait") /\ c < at.node)

\* When a child is forked, and when the controller has waited for it, the process
\* it had before is gone.
OldProcessesAreGone ==
  \A c \in Children :
    /\ YetToSpawn(c) => pidOf[c] = NoPid
    /\ (At("respawn") /\ c = at.node) \/ WaitedFor(c) => ProcessesOf(c) = {}

ControllerInv == ControllerTyped /\ OneProcessPerNode /\ OldProcessesAreGone

--------------------------------------------------------------------------------
LEMMA Numbers ==
  /\ Broker \in Children /\ 0 \in Children /\ 0 \in Nodes /\ Nodes \subseteq Children
  /\ \A n \in Children : n = Broker \/ n \in Nodes
  /\ Other \notin Children /\ NoPid \notin Pids
BY ControllerAssumption DEF Broker, Children, Nodes, Other, NoPid, Pids

\* The table of a step in which no child gets another process: those that are alive
\* after it have been so before.
NoneIsBorn ==
  /\ table' \in [Pids -> Entries]
  /\ \A p \in Pids : Live(p)' /\ table'[p].who \in Children => Live(p) /\ table'[p].who = table[p].who

LEMMA SignalBearsNone ==
  ASSUME table \in [Pids -> Entries], NEW S, table' = Signalled(S)
  PROVE  NoneIsBorn
<1>1. ASSUME NEW p \in Pids
      PROVE  table'[p] \in Entries /\ (Live(p)' => Live(p)) /\ table'[p].who = table[p].who
  <2>1. CASE p \in S /\ IsChild(p) /\ Live(p)
    <3>1. table'[p] = [table[p] EXCEPT !.st = "ending"]
      BY <2>1 DEF Signalled
    <3> QED BY <2>1, <3>1 DEF Entries, Statuses
  <2>2. CASE ~(p \in S /\ IsChild(p) /\ Live(p))
    <3>1. table'[p] = table[p]
      BY <2>2 DEF Signalled
    <3> QED BY <3>1 DEF Live
  <2> QED BY <2>1, <2>2
<1>2. table' \in [Pids -> Entries]
  <2>1. table' = [p \in Pids |-> table'[p]]
    BY DEF Signalled
  <2> QED BY <1>1, <2>1
<1> QED BY <1>1, <1>2 DEF NoneIsBorn

LEMMA WaitBearsNone ==
  ASSUME table \in [Pids -> Entries], NEW S, table' = Reaped(S)
  PROVE  NoneIsBorn
<1>1. ASSUME NEW p \in Pids
      PROVE  table'[p] \in Entries /\ (Live(p)' => Live(p) /\ table'[p].who = table[p].who)
  <2>1. CASE p \in S /\ table[p].st = "zombie"
    <3>1. table'[p] = [who |-> Other, st |-> "free"]
      BY <2>1 DEF Reaped
    <3> QED BY <3>1 DEF Live, Entries, Statuses
  <2>2. CASE ~(p \in S /\ table[p].st = "zombie")
    <3>1. table'[p] = table[p]
      BY <2>2 DEF Reaped
    <3> QED BY <3>1 DEF Live
  <2> QED BY <2>1, <2>2
<1>2. table' \in [Pids -> Entries]
  <2>1. table' = [p \in Pids |-> table'[p]]
    BY DEF Reaped
  <2> QED BY <1>1, <2>1
<1> QED BY <1>1, <1>2 DEF NoneIsBorn

\* One entry changes: to a status that is not alive, or from one that is.
LEMMA EntryBearsNone ==
  ASSUME table \in [Pids -> Entries], NEW p \in Pids, NEW entry \in Entries,
         table' = [table EXCEPT ![p] = entry],
         entry.who \in Children =>
           entry.who = table[p].who /\ (entry.st \in {"free", "zombie"} \/ Live(p))
  PROVE  NoneIsBorn
<1>1. table' \in [Pids -> Entries] /\ table'[p] = entry /\ \A q \in Pids : q # p => table'[q] = table[q]
  OBVIOUS
<1>2. ASSUME NEW q \in Pids, Live(q)', table'[q].who \in Children
      PROVE  Live(q) /\ table'[q].who = table[q].who
  BY <1>1, <1>2 DEF Live
<1> QED BY <1>1, <1>2 DEF NoneIsBorn

LEMMA EndBearsNone ==
  ASSUME table \in [Pids -> Entries], NEW p \in Pids, Ends(p)
  PROVE  NoneIsBorn
<1>1. PICK entry \in Entries : /\ table' = [table EXCEPT ![p] = entry] /\ entry.st \in {"free", "zombie"}
                               /\ entry.who = table[p].who
  <2>1. table[p] \in Entries /\ table[p] = [who |-> table[p].who, st |-> table[p].st]
    BY DEF Entries
  <2>2. CASE table[p].who = Other
    <3>1. table' = [table EXCEPT ![p] = [who |-> Other, st |-> "free"]]
      BY <2>2 DEF Ends
    <3> DEFINE entry == [who |-> Other, st |-> "free"]
    <3>2. entry \in Entries /\ entry.st = "free" /\ entry.who = table[p].who
      BY <2>2 DEF Entries, Statuses
    <3>3. table' = [table EXCEPT ![p] = entry]
      BY <3>1
    <3> HIDE DEF entry
    <3> QED BY <3>2, <3>3
  <2>3. CASE table[p].who # Other
    <3>1. table' = [table EXCEPT ![p] = [@ EXCEPT !.st = "zombie"]]
      BY <2>3 DEF Ends
    <3>2. [table[p] EXCEPT !.st = "zombie"] = [who |-> table[p].who, st |-> "zombie"]
      BY <2>1
    <3>3. [who |-> table[p].who, st |-> "zombie"] \in Entries
      BY <2>1 DEF Entries, Statuses
    <3>4. table' = [table EXCEPT ![p] = [who |-> table[p].who, st |-> "zombie"]]
      BY <3>1, <3>2
    <3> DEFINE entry == [who |-> table[p].who, st |-> "zombie"]
    <3>5. entry \in Entries /\ entry.st = "zombie" /\ entry.who = table[p].who
      BY <3>3
    <3>6. table' = [table EXCEPT ![p] = entry]
      BY <3>4
    <3> HIDE DEF entry
    <3> QED BY <3>5, <3>6
  <2> QED BY <2>2, <2>3
<1> QED BY <1>1, EntryBearsNone

\* In such a step, which writes no entry of node_pids, the children have at most the
\* processes they had.
LEMMA FewerProcesses ==
  ASSUME ControllerInv, NoneIsBorn, UNCHANGED pidOf
  PROVE  /\ OneProcessPerNode'
         /\ \A c \in Children : ProcessesOf(c)' \subseteq ProcessesOf(c)
<1>1. ASSUME NEW c \in Children PROVE ProcessesOf(c)' \subseteq ProcessesOf(c)
  BY DEF NoneIsBorn, ProcessesOf
<1> QED BY <1>1 DEF ControllerInv, OneProcessPerNode

LEMMA SameTableBearsNone ==
  ASSUME table \in [Pids -> Entries], UNCHANGED table
  PROVE  NoneIsBorn
BY DEF NoneIsBorn, Live

--------------------------------------------------------------------------------
(* The steps that start no process.                                          *)

\* While the controller stays where it is, or goes to a place that nothing is
\* promised for, such a step keeps the invariant.
LEMMA NoneBornKeeps ==
  ASSUME ControllerInv, NoneIsBorn, ControllerTyped', UNCHANGED pidOf,
         UNCHANGED at \/ at'.pc \notin {"spawn", "respawn", "wait", "exited"}
  PROVE  ControllerInv'
<1>1. OneProcessPerNode' /\ \A c \in Children : ProcessesOf(c)' \subseteq ProcessesOf(c)
  BY FewerProcesses
<1>2. OldProcessesAreGone'
  <2>1. CASE UNCHANGED at
    BY <1>1, <2>1 DEF ControllerInv, OldProcessesAreGone, YetToSpawn, WaitedFor, At
  <2>2. CASE at'.pc \notin {"spawn", "respawn", "wait", "exited"}
    BY <2>2 DEF OldProcessesAreGone, YetToSpawn, WaitedFor, At
  <2> QED BY <2>1, <2>2
<1> QED BY <1>1, <1>2 DEF ControllerInv

LEMMA GoTyped ==
  ASSUME NEW pc \in Places, Go(pc)
  PROVE  at' \in [pc : Places, node : Children] /\ at'.pc = pc
BY Numbers DEF Go

LEMMA GoOnTyped ==
  ASSUME NEW pc \in Places, NEW n \in Children, GoOn(pc, n)
  PROVE  at' \in [pc : Places, node : Children] /\ at'.pc = pc /\ at'.node = n
BY DEF GoOn

\* The children and other programs.
LEMMA ProcessesKeep ==
  ASSUME ControllerInv, NEW p \in Pids,
         Dies(p) \/ BrokerStarts(p) \/ BrokerFails(p) \/ NodeStarts(p) \/ NodeLeaves(p) \/ Others(p)
  PROVE  ControllerInv'
<1>1. /\ table \in [Pids -> Entries] /\ table[p] \in Entries
      /\ UNCHANGED <<pidOf, mode, running, at, lines, client>>
  BY DEF ControllerInv, ControllerTyped, Dies, BrokerStarts, BrokerFails, NodeStarts, NodeLeaves, Others
<1>2. ASSUME NEW st \in Statuses, table' = [table EXCEPT ![p].st = st],
             st \in {"free", "zombie"} \/ Live(p) \/ table[p].who = Other
      PROVE  NoneIsBorn
  <2> DEFINE entry == [who |-> table[p].who, st |-> st]
  <2>1. entry \in Entries /\ entry.who = table[p].who /\ entry.st = st
    BY <1>1 DEF Entries
  <2>2. table' = [table EXCEPT ![p] = entry]
    <3>1. [table[p] EXCEPT !.st = st] = entry
      BY <1>1 DEF Entries
    <3> HIDE DEF entry
    <3> QED BY <1>2, <3>1
  <2> HIDE DEF entry
  <2> QED BY <1>1, <1>2, <2>1, <2>2, Numbers, EntryBearsNone
<1>3. NoneIsBorn
  <2>1. CASE Ends(p)
    BY <1>1, <2>1, EndBearsNone
  <2>2. CASE ~Ends(p)
    <3>1. CASE BrokerStarts(p)
      BY <1>2, <2>2, <3>1 DEF BrokerStarts, Live, Statuses
    <3>2. CASE NodeStarts(p)
      BY <1>2, <2>2, <3>2 DEF NodeStarts, Live, Statuses
    <3>3. CASE Others(p)
      BY <1>2, <3>3 DEF Others, Statuses
    <3> QED BY <2>2, <3>1, <3>2, <3>3 DEF Dies, BrokerFails, NodeLeaves
  <2> QED BY <2>1, <2>2
<1>4. broker' \in {"absent", "accepting", "serving", "gone"} /\ counted' \in Nat
  BY DEF ControllerInv, ControllerTyped, Dies, BrokerStarts, BrokerFails, NodeStarts, NodeLeaves, Others
<1>5. ControllerTyped'
  BY <1>1, <1>3, <1>4 DEF ControllerInv, ControllerTyped, NoneIsBorn
<1> QED BY <1>1, <1>3, <1>5, NoneBornKeeps

\* The signal, the clients, and the controller where it starts and ends no child.
LEMMA LoopKeeps ==
  ASSUME ControllerInv,
         \/ Signal \/ Connects \/ Speaks \/ Loop \/ Read \/ LinesDone
         \/ Ask \/ Answered \/ Prints \/ Backhaul \/ Quit \/ Status \/ Serve
         \/ \E n \in Nodes : Crash(n) \/ Restart(n)
  PROVE  ControllerInv'
<1>1. table \in [Pids -> Entries]
  BY DEF ControllerInv, ControllerTyped
<1>2. UNCHANGED <<broker, counted, pidOf, mode>>
  BY DEF Signal, Connects, Speaks, Loop, Read, LinesDone, Ask, Answered, Prints, Backhaul, Quit, Status, Serve,
         SendResponse, Crash, Restart, TakeLine, kernelVars
<1>3. NoneIsBorn
  <2>1. table' = table \/ \E S : table' = Signalled(S) \/ table' = Reaped(S)
    BY DEF Signal, Connects, Speaks, Loop, Read, LinesDone, Ask, Answered, Prints, Backhaul, Quit, Status, Serve,
           SendResponse, Crash, Restart, kernelVars
  <2> QED BY <1>1, <2>1, SameTableBearsNone, SignalBearsNone, WaitBearsNone
<1>4. /\ at' \in [pc : Places, node : Children]
      /\ UNCHANGED at \/ at'.pc \notin {"spawn", "respawn", "wait", "exited"}
  <2>1. \/ UNCHANGED at
        \/ \E pc \in {"loop", "read", "client", "lines", "asking", "asking for client", "stop",
                    "killed"} : Go(pc)
        \/ \E n \in Nodes : GoOn("reap", n)
    BY DEF Signal, Connects, Speaks, Loop, Read, LinesDone, Ask, Answered, Prints, Backhaul, Quit, Status, Serve,
           SendResponse, Crash, Restart
  <2>2. CASE UNCHANGED at
    BY <2>2 DEF ControllerInv, ControllerTyped
  <2>3. CASE \E pc \in {"loop", "read", "client", "lines", "asking", "asking for client", "stop",
                    "killed"} : Go(pc)
    BY <2>3, GoTyped DEF Places
  <2>4. CASE \E n \in Nodes : GoOn("reap", n)
    BY <2>4, GoOnTyped, Numbers DEF Places
  <2> QED BY <2>1, <2>2, <2>3, <2>4
<1>5. running' \in BOOLEAN
  BY DEF ControllerInv, ControllerTyped, Signal, Connects, Speaks, Loop, Read, LinesDone, Ask, Answered, Prints,
         Backhaul, Quit, Status, Serve, SendResponse, Crash, Restart
<1>6. lines' \in 0 .. MaxLines
  <2>1. lines \in 0 .. MaxLines /\ MaxLines \in Nat
    BY ControllerAssumption DEF ControllerInv, ControllerTyped
  <2>2. lines' = lines \/ (lines > 0 /\ lines' = lines - 1) \/ lines' \in lines + 1 .. MaxLines
    BY DEF Signal, Connects, Speaks, Loop, Read, LinesDone, Ask, Answered, Prints, Backhaul, Quit, Status, Serve,
           SendResponse, Crash, Restart, TakeLine
  <2> QED BY <2>1, <2>2
<1>7. client' \in {"none", "silent", "sent"}
  BY DEF ControllerInv, ControllerTyped, Signal, Connects, Speaks, Loop, Read, LinesDone, Ask, Answered, Prints,
         Backhaul, Quit, Status, Serve, SendResponse, Crash, Restart
<1>8. ControllerTyped'
  BY <1>2, <1>3, <1>4, <1>5, <1>6, <1>7 DEF ControllerInv, ControllerTyped, NoneIsBorn
<1> QED BY <1>2, <1>3, <1>4, <1>8, NoneBornKeeps

--------------------------------------------------------------------------------
(* Starting and ending children.                                             *)

\* A child that has no process may be forked: it has one then, at its id.
LEMMA ForkKeeps ==
  ASSUME ControllerInv, NEW c \in Children, ProcessesOf(c) = {}, Fork(c)
  PROVE  /\ table' \in [Pids -> Entries] /\ pidOf' \in [Children -> Pids \cup {NoPid}]
         /\ OneProcessPerNode' /\ \A d \in Children : d # c => pidOf'[d] = pidOf[d]
<1>1. table \in [Pids -> Entries] /\ pidOf \in [Children -> Pids \cup {NoPid}]
  BY DEF ControllerInv, ControllerTyped
<1>2. PICK p \in Pids : /\ table' = [table EXCEPT ![p] = [who |-> c, st |-> "born"]]
                        /\ pidOf' = [pidOf EXCEPT ![c] = p]
  BY DEF Fork, NewIds
<1>3. [who |-> c, st |-> "born"] \in Entries
  BY DEF Entries, Statuses
<1>4. table' \in [Pids -> Entries] /\ pidOf' \in [Children -> Pids \cup {NoPid}]
  BY <1>1, <1>2, <1>3
<1>5. /\ pidOf'[c] = p /\ \A d \in Children : d # c => pidOf'[d] = pidOf[d]
      /\ table'[p].who = c /\ \A q \in Pids : q # p => table'[q] = table[q]
  BY <1>1, <1>2
<1>6. ASSUME NEW d \in Children, NEW q \in ProcessesOf(d)' PROVE q = pidOf'[d]
  <2>1. q \in Pids /\ Live(q)' /\ table'[q].who = d
    BY <1>6 DEF ProcessesOf
  <2>2. CASE q = p
    BY <1>5, <2>1, <2>2
  <2>3. CASE q # p
    <3>1. q \in ProcessesOf(d)
      BY <1>5, <2>1, <2>3 DEF ProcessesOf, Live
    <3>2. d # c /\ q = pidOf[d]
      BY <3>1 DEF ControllerInv, OneProcessPerNode
    <3> QED BY <1>5, <3>2
  <2> QED BY <2>2, <2>3
<1>7. OneProcessPerNode'
  BY <1>6 DEF OneProcessPerNode
<1> QED BY <1>4, <1>5, <1>7

\* A child whose id waitpid() has returned for has no process any more.
LEMMA WaitedHaveNone ==
  ASSUME ControllerInv, NEW c \in Children, Waited(pidOf[c])
  PROVE  ProcessesOf(c) = {}
<1> SUFFICES ASSUME NEW p \in ProcessesOf(c) PROVE FALSE
  OBVIOUS
<1>1. p \in Pids /\ p = pidOf[c] /\ Live(p) /\ table[p].who = c
  BY DEF ControllerInv, OneProcessPerNode, ProcessesOf
<1>2. IsChild(p)
  BY <1>1, Numbers DEF IsChild
<1> QED BY <1>1, <1>2 DEF Waited

\* A child that node_pids has no id for has no process.
LEMMA UnspawnedHaveNone ==
  ASSUME ControllerInv, NEW c \in Children, pidOf[c] = NoPid
  PROVE  ProcessesOf(c) = {}
BY Numbers DEF ControllerInv, OneProcessPerNode, ProcessesOf

LEMMA SpawnKeeps == ASSUME ControllerInv, Spawn PROVE ControllerInv'
<1>1. At("spawn") /\ at.node \in Children /\ Fork(at.node) /\ UNCHANGED <<broker, counted, mode, running, lines, client>>
  BY DEF Spawn, ControllerInv, ControllerTyped
<1>2. YetToSpawn(at.node)
  BY <1>1, ControllerAssumption DEF YetToSpawn, Children, Nodes, Broker
<1>3. ProcessesOf(at.node) = {}
  BY <1>1, <1>2, UnspawnedHaveNone DEF ControllerInv, OldProcessesAreGone
<1>4. /\ table' \in [Pids -> Entries] /\ pidOf' \in [Children -> Pids \cup {NoPid}]
      /\ OneProcessPerNode' /\ \A d \in Children : d # at.node => pidOf'[d] = pidOf[d]
  BY <1>1, <1>3, ForkKeeps
<1>5. CASE at.node = NumNodes - 1
  <2>1. at' \in [pc : Places, node : Children] /\ at'.pc = "loop"
    BY <1>5, GoTyped DEF Spawn, Places
  <2>2. ControllerTyped'
    BY <1>1, <1>4, <2>1 DEF ControllerInv, ControllerTyped
  <2>3. OldProcessesAreGone'
    BY <2>1 DEF OldProcessesAreGone, YetToSpawn, WaitedFor, At
  <2> QED BY <1>4, <2>2, <2>3 DEF ControllerInv
<1>6. CASE at.node # NumNodes - 1
  <2> DEFINE next == IF at.node = Broker THEN 0 ELSE at.node + 1
  <2>1. next \in Nodes /\ next \in Children /\ GoOn("spawn", next)
    BY <1>1, <1>6, Numbers, ControllerAssumption DEF Spawn, Children, Nodes, Broker
  <2>2. \A c \in Children : c # Broker /\ next <= c => YetToSpawn(c) /\ c # at.node
    BY <1>1, Numbers, ControllerAssumption DEF YetToSpawn, Children, Nodes, Broker
  <2> HIDE DEF next
  <2>3. at' \in [pc : Places, node : Children] /\ at'.pc = "spawn" /\ at'.node = next
    BY <2>1, GoOnTyped DEF Places
  <2>4. ControllerTyped'
    BY <1>1, <1>4, <2>3 DEF ControllerInv, ControllerTyped
  <2>5. ASSUME NEW c \in Children, YetToSpawn(c)' PROVE pidOf'[c] = NoPid
    <3>1. next # Broker
      BY <2>1, ControllerAssumption DEF Nodes, Broker
    <3>2. c # Broker /\ next <= c
      BY <2>3, <2>5, <3>1 DEF YetToSpawn
    <3>3. pidOf[c] = NoPid /\ c # at.node
      BY <2>2, <3>2 DEF ControllerInv, OldProcessesAreGone
    <3> QED BY <1>4, <3>3
  <2>6. OldProcessesAreGone'
    BY <2>3, <2>5 DEF OldProcessesAreGone, WaitedFor, At
  <2> QED BY <1>4, <2>4, <2>6 DEF ControllerInv
<1> QED BY <1>5, <1>6

\* A node is forked anew only when its old process is gone for good.
LEMMA ReapKeeps == ASSUME ControllerInv, Reap PROVE ControllerInv'
<1>1. /\ At("reap") /\ at.node \in Children /\ Waited(pidOf[at.node]) /\ table' = Reaped({pidOf[at.node]})
      /\ UNCHANGED <<broker, counted, pidOf, mode, running, lines, client>> /\ table \in [Pids -> Entries]
  BY DEF Reap, ControllerInv, ControllerTyped
<1>2. NoneIsBorn
  BY <1>1, WaitBearsNone
<1>3. OneProcessPerNode' /\ \A c \in Children : ProcessesOf(c)' \subseteq ProcessesOf(c)
  BY <1>1, <1>2, FewerProcesses
<1>4. at' \in [pc : Places, node : Children] /\ at'.pc = "respawn" /\ at'.node = at.node
  BY <1>1, GoOnTyped DEF Reap, Places
<1>5. ControllerTyped'
  BY <1>1, <1>2, <1>4 DEF ControllerInv, ControllerTyped, NoneIsBorn
<1>6. ProcessesOf(at.node)' = {}
  <2>1. PICK c \in Children : c = at.node /\ ProcessesOf(c) = {}
    BY <1>1, WaitedHaveNone
  <2>2. ProcessesOf(c)' = {} /\ c = at'.node
    BY <1>3, <1>4, <2>1
  <2> QED BY <2>2
<1>7. OldProcessesAreGone'
  BY <1>4, <1>6 DEF OldProcessesAreGone, YetToSpawn, WaitedFor, At
<1> QED BY <1>3, <1>5, <1>7 DEF ControllerInv

LEMMA RespawnKeeps == ASSUME ControllerInv, Respawn PROVE ControllerInv'
<1>1. At("respawn") /\ at.node \in Children /\ Fork(at.node) /\ UNCHANGED <<broker, counted, mode, running, lines, client>>
  BY DEF Respawn, ControllerInv, ControllerTyped
<1>2. ProcessesOf(at.node) = {}
  BY <1>1 DEF ControllerInv, OldProcessesAreGone
<1>3. table' \in [Pids -> Entries] /\ pidOf' \in [Children -> Pids \cup {NoPid}] /\ OneProcessPerNode'
  BY <1>1, <1>2, ForkKeeps
<1>4. at' \in [pc : Places, node : Children] /\ at'.pc = "lines"
  BY GoTyped DEF Respawn, Places
<1>5. ControllerTyped' /\ OldProcessesAreGone'
  BY <1>1, <1>3, <1>4 DEF ControllerInv, ControllerTyped, OldProcessesAreGone, YetToSpawn, WaitedFor, At
<1> QED BY <1>3, <1>5 DEF ControllerInv

LEMMA StopKeeps == ASSUME ControllerInv, Stop PROVE ControllerInv'
<1>1. /\ UNCHANGED <<broker, counted, pidOf, mode, running, lines>> /\ table \in [Pids -> Entries]
      /\ client' = "none" /\ table' = Signalled(Held)
  BY DEF Stop, ControllerInv, ControllerTyped
<1>2. NoneIsBorn
  BY <1>1, SignalBearsNone
<1>3. at' \in [pc : Places, node : Children] /\ at'.pc = "wait" /\ at'.node = 0
  BY GoOnTyped, Numbers DEF Stop, Places
<1>4. OneProcessPerNode' /\ ControllerTyped'
  BY <1>1, <1>2, <1>3, FewerProcesses DEF ControllerInv, ControllerTyped, NoneIsBorn
<1>5. \A c \in Children : ~(c < 0)
  BY ControllerAssumption DEF Children, Nodes, Broker
<1>6. OldProcessesAreGone'
  BY <1>3, <1>5 DEF OldProcessesAreGone, YetToSpawn, WaitedFor, At
<1> QED BY <1>4, <1>6 DEF ControllerInv

\* The controller waits for one child after the other, the broker last.
LEMMA WaitKeeps == ASSUME ControllerInv, Wait PROVE ControllerInv'
<1>1. /\ At("wait") /\ at.node \in Children /\ Waited(pidOf[at.node]) /\ table' = Reaped({pidOf[at.node]})
      /\ UNCHANGED <<broker, counted, pidOf, mode, running, lines, client>> /\ table \in [Pids -> Entries]
  BY DEF Wait, ControllerInv, ControllerTyped
<1>2. NoneIsBorn
  BY <1>1, WaitBearsNone
<1>3. OneProcessPerNode' /\ \A c \in Children : ProcessesOf(c)' \subseteq ProcessesOf(c)
  BY <1>1, <1>2, FewerProcesses
<1>4. \A c \in Children : c = at.node \/ c < at.node => ProcessesOf(c)' = {}
  <2>1. ProcessesOf(at.node) = {}
    BY <1>1, WaitedHaveNone
  <2>2. \A c \in Children : c = at.node \/ c < at.node => ProcessesOf(c) = {}
    BY <1>1, <2>1 DEF ControllerInv, OldProcessesAreGone, WaitedFor
  <2> QED BY <1>3, <2>2
<1>5. CASE at.node = Broker
  <2>1. at' \in [pc : Places, node : Children] /\ at'.pc = "exited"
    BY <1>5, GoTyped DEF Wait, Places
  <2>2. \A c \in Children : ProcessesOf(c)' = {}
    <3>1. \A c \in Children : c = Broker \/ c < Broker
      BY ControllerAssumption DEF Children, Nodes, Broker
    <3> QED BY <1>4, <1>5, <3>1
  <2>3. ControllerTyped'
    BY <1>1, <1>2, <2>1 DEF ControllerInv, ControllerTyped, NoneIsBorn
  <2>4. OldProcessesAreGone'
    BY <2>1, <2>2 DEF OldProcessesAreGone, YetToSpawn, At
  <2> QED BY <1>3, <2>3, <2>4 DEF ControllerInv
<1>6. CASE at.node # Broker
  <2>1. at.node + 1 \in Children /\ \A c \in Children : c < at.node + 1 => c = at.node \/ c < at.node
    BY <1>1, <1>6, ControllerAssumption DEF Children, Nodes, Broker
  <2>2. at' \in [pc : Places, node : Children] /\ at'.pc = "wait" /\ at'.node = at.node + 1
    BY <1>6, <2>1, GoOnTyped DEF Wait, Places
  <2>3. ControllerTyped'
    BY <1>1, <1>2, <2>2 DEF ControllerInv, ControllerTyped, NoneIsBorn
  <2>4. OldProcessesAreGone'
    BY <1>4, <2>1, <2>2 DEF OldProcessesAreGone, YetToSpawn, WaitedFor, At
  <2> QED BY <1>3, <2>3, <2>4 DEF ControllerInv
<1> QED BY <1>5, <1>6

--------------------------------------------------------------------------------
LEMMA ControllerStarts == ControllerInit => ControllerInv
<1> SUFFICES ASSUME ControllerInit PROVE ControllerInv
  OBVIOUS
<1> USE DEF ControllerInit
<1>1. table \in [Pids -> Entries] /\ \A p \in Pids : ~Live(p)
  BY DEF Entries, Statuses, Live
<1>2. at \in [pc : Places, node : Children] /\ at.pc = "spawn"
  BY Numbers DEF Places
<1>3. ControllerTyped
  BY <1>1, <1>2, ControllerAssumption DEF ControllerTyped
<1>4. OneProcessPerNode /\ OldProcessesAreGone
  BY <1>1, <1>2 DEF OneProcessPerNode, OldProcessesAreGone, ProcessesOf, WaitedFor, At
<1> QED BY <1>3, <1>4 DEF ControllerInv

LEMMA ControllerSteps == ControllerInv /\ [ControllerNext]_controllerVars => ControllerInv'
<1> SUFFICES ASSUME ControllerInv, [ControllerNext]_controllerVars PROVE ControllerInv'
  OBVIOUS
<1>1. CASE Works
  BY <1>1, LoopKeeps, SpawnKeeps, ReapKeeps, RespawnKeeps, StopKeeps, WaitKeeps DEF Works
<1>2. CASE Environment
  BY <1>2, LoopKeeps, ProcessesKeep DEF Environment
<1>3. CASE UNCHANGED controllerVars
  BY <1>3 DEF controllerVars, kernelVars, ControllerInv, ControllerTyped, OneProcessPerNode, OldProcessesAreGone,
              YetToSpawn, WaitedFor, At, ProcessesOf, Live
<1> QED BY <1>1, <1>2, <1>3 DEF ControllerNext

\* The controller's variables keep their types, and a child is only forked, and only
\* given up, when its old process is gone.
THEOREM ControllerInvariant == ControllerSpec => []ControllerInv
BY ControllerStarts, ControllerSteps, PTL DEF ControllerSpec

\* Whatever is crashed, restarted and reaped in whichever order, and whoever is given
\* the ids in between: a child has at most one process, the one in node_pids.
THEOREM EachHasOneProcess == ControllerSpec => []OneProcessPerNode
<1>1. ControllerInv => OneProcessPerNode
  BY DEF ControllerInv
<1> QED BY <1>1, ControllerInvariant, PTL

\* A controller that is told to end, and is not killed by an answer to the dashboard
\* on the way, returns from main() after all of its children have ended.
THEOREM ShutdownLeavesNone == ControllerSpec => []NoneOutlivesTheShutdown
<1>1. ControllerInv => NoneOutlivesTheShutdown
  BY DEF ControllerInv, OldProcessesAreGone, WaitedFor, NoneOutlivesTheShutdown
<1> QED BY <1>1, ControllerInvariant, PTL

\* Whatever is started and killed, the routes that the controller prints are there
\* exactly when the destination can be reached, and no other has fewer hops.
THEOREM RoutesStayShortest == ControllerSpec => []RoutesAreShortest
<1>1. ASSUME NEW ups \in SUBSET Links, NEW src \in Ids, NEW dst \in Ids
      PROVE  IF dst \in Within(ups, src, MeshNodes)
             THEN /\ IsRoute(ups, TracePath(ups, src, dst), src, dst)
                  /\ Len(TracePath(ups, src, dst)) > 1 =>
                       dst \notin Within(ups, src, Len(TracePath(ups, src, dst)) - 2)
             ELSE TracePath(ups, src, dst) = <<>>
  BY TracedRouteIsShortest
<1>2. RoutesAreShortest
  BY <1>1 DEF RoutesAreShortest
<1> QED BY <1>2, PTL

(***************************************************************************)
(* The broker.                                                             *)
(***************************************************************************)
Numbered == 0 .. MaxBorn
HeldCopies == [frame : Frames, to : Ids, left : Int]

BrokerTyped ==
  /\ phase \in {"accepting", "forwarding", "dead"} /\ tracer \in BOOLEAN
  /\ conn \in [Ids -> Numbered] /\ born \in [Ids -> Numbered] /\ live \in [Ids -> Numbered]
  /\ backlog \in Seq(Incarnations) /\ greeted \subseteq Incarnations
  /\ wire \in [Incarnations -> Seq(Frames)]
  /\ delayed \subseteq HeldCopies /\ IsFiniteSet(delayed)
  /\ forwarded \in Nat /\ dropped \in Nat /\ copies \in Nat /\ sent \in Nat

\* Only incarnations that were started run, wait for the broker or are connected.
OnlyTheBorn ==
  /\ \A n \in Ids : conn[n] <= born[n] /\ live[n] <= born[n]
  /\ \A k \in 1 .. Len(backlog) : backlog[k][2] <= born[backlog[k][1]]

\* A frame on a connection is from its node, and to another one.
FromItsNode(c, frame) == frame.src = c[1] /\ frame.dst # c[1] /\ frame.id <= sent
FramesAreTheirSenders == \A c \in Incarnations : \A k \in 1 .. Len(wire[c]) : FromItsNode(c, wire[c][k])

\* A frame is in one place: on a connection or, in copies, in the queue.
FramesDiffer ==
  /\ \A c, e \in Incarnations : \A k \in 1 .. Len(wire[c]), m \in 1 .. Len(wire[e]) :
       wire[c][k].id = wire[e][m].id => c = e /\ k = m
  /\ \A d \in delayed : d.frame.id <= sent
  /\ \A d \in delayed, c \in Incarnations : \A k \in 1 .. Len(wire[c]) : wire[c][k].id # d.frame.id

QuietAtFirst ==
  phase = "accepting" => delayed = {} /\ copies = 0 /\ forwarded = 0 /\ dropped = 0

BrokerInv ==
  BrokerTyped /\ OnlyTheBorn /\ FramesAreTheirSenders /\ FramesDiffer /\ QuietAtFirst

--------------------------------------------------------------------------------
(* Counting.                                                                 *)

LEMMA ImageCounts ==
  ASSUME NEW S, IsFiniteSet(S), NEW T, NEW f, f \in [S -> T],
         \A x, y \in S : f[x] = f[y] => x = y, \A t \in T : \E x \in S : f[x] = t
  PROVE  IsFiniteSet(T) /\ Cardinality(T) = Cardinality(S)
<1>1. f \in Bijection(S, T)
  BY DEF Bijection, Injection, Surjection, IsInjective
<1> QED BY <1>1, FS_Bijection DEF ExistsBijection

LEMMA FatesCount ==
  ASSUME NEW S \in SUBSET Ids, NEW fate \in [S -> {-1} \cup 0 .. MaxDelay]
  PROVE  LET lost == {t \in S : fate[t] < 0}
             now == {t \in S : fate[t] = 0}
             later == {t \in S : fate[t] > 0}
         IN  /\ IsFiniteSet(lost) /\ IsFiniteSet(now) /\ IsFiniteSet(later)
             /\ Cardinality(S) = Cardinality(lost) + Cardinality(now) + Cardinality(later)
<1> DEFINE lost == {t \in S : fate[t] < 0}
           now == {t \in S : fate[t] = 0}
           later == {t \in S : fate[t] > 0}
<1>1. IsFiniteSet(lost) /\ IsFiniteSet(now) /\ IsFiniteSet(later) /\ IsFiniteSet(now \cup later)
  BY FiniteIds
<1>2. \A t \in S : fate[t] \in Int
  BY BrokerAssumption
<1>3. now \cap later = {} /\ lost \cap (now \cup later) = {} /\ S = lost \cup (now \cup later)
  BY <1>2
<1> HIDE DEF lost, now, later
<1>4. Cardinality(now \cup later) = Cardinality(now) + Cardinality(later)
  BY <1>1, <1>3, DisjointCounts
<1>5. Cardinality(S) = Cardinality(lost) + Cardinality(now \cup later)
  BY <1>1, <1>3, DisjointCounts
<1>6. Cardinality(lost) \in Nat /\ Cardinality(now) \in Nat /\ Cardinality(later) \in Nat
  BY <1>1, FS_CardinalityType
<1>7. Cardinality(S) = Cardinality(lost) + Cardinality(now) + Cardinality(later)
  BY <1>4, <1>5, <1>6
<1> USE DEF lost, now, later
<1> QED BY <1>1, <1>7

--------------------------------------------------------------------------------
(* Delivery.                                                                 *)

\* Copies for connected nodes: one for each is counted if no peer is gone, and
\* none is counted twice.
LEMMA DeliverCounts ==
  ASSUME NEW tos \in SUBSET Ids, forwarded \in Nat, Deliver(tos)
  PROVE  /\ forwarded' \in Nat /\ forwarded <= forwarded' /\ forwarded' <= forwarded + Cardinality(tos)
         /\ phase' \in {phase, "dead"}
         /\ (\A t \in tos : ~PeerGone(t)) => forwarded' = forwarded + Cardinality(tos)
<1> DEFINE gone == {t \in tos : PeerGone(t)}
<1>1. PICK s \in SendAll(gone) :
        forwarded' = forwarded + Cardinality(tos \ gone) + Cardinality(s.lucky) /\ phase' = s.phase
  BY DEF Deliver
<1>3. s.lucky \in SUBSET gone /\ s.phase \in {phase} \cup (IF gone # {} THEN {"dead"} ELSE {})
  BY <1>1 DEF SendAll
<1>4. gone \in SUBSET tos /\ ((\A t \in tos : ~PeerGone(t)) => gone = {})
  OBVIOUS
<1> HIDE DEF gone
<1>5. IsFiniteSet(tos) /\ IsFiniteSet(gone) /\ IsFiniteSet(tos \ gone) /\ IsFiniteSet(s.lucky)
  BY <1>3, <1>4, FiniteIds
<1>6. Cardinality(tos) = Cardinality(tos \ gone) + Cardinality(gone)
  <2>1. tos = (tos \ gone) \cup gone /\ (tos \ gone) \cap gone = {}
    BY <1>4
  <2> QED BY <1>5, <2>1, DisjointCounts
<1>7. Cardinality(s.lucky) <= Cardinality(gone)
  BY <1>3, <1>5, FS_Subset
<1>8. Cardinality(tos \ gone) \in Nat /\ Cardinality(gone) \in Nat /\ Cardinality(s.lucky) \in Nat
  BY <1>5, FS_CardinalityType
<1>9. forwarded' \in Nat /\ forwarded <= forwarded' /\ forwarded' <= forwarded + Cardinality(tos)
  BY <1>1, <1>6, <1>7, <1>8
<1>10. gone = {} => forwarded' = forwarded + Cardinality(tos)
  <2> SUFFICES ASSUME gone = {} PROVE forwarded' = forwarded + Cardinality(tos)
    OBVIOUS
  <2>1. Cardinality(gone) = 0
    BY FS_EmptySet
  <2> QED BY <1>1, <1>6, <1>7, <1>8, <2>1
<1> QED BY <1>1, <1>3, <1>4, <1>9, <1>10

LEMMA DeliverNone ==
  ASSUME forwarded \in Nat, UNCHANGED <<phase, forwarded>>
  PROVE  Deliver({})
<1>1. PICK s : s = [lucky |-> {}, phase |-> phase]
  OBVIOUS
<1>2. s \in SendAll({}) /\ s.lucky = {} /\ s.phase = phase
  BY <1>1 DEF SendAll
<1>3. Cardinality({}) = 0 /\ {t \in {} : PeerGone(t)} = {} /\ {} \ {} = {}
  BY FS_EmptySet
<1>4. forwarded' = forwarded + Cardinality({} \ {}) + Cardinality(s.lucky) /\ phase' = s.phase
  BY <1>2, <1>3
<1> QED BY <1>2, <1>3, <1>4 DEF Deliver

\* What became of a frame: copies for the nodes `now', the copies `later' in the
\* queue, and a number of drops.
Handled(frame, now, later, lost) ==
  /\ now \in SUBSET Ids /\ later \in SUBSET HeldCopies /\ IsFiniteSet(later) /\ lost \in Nat
  /\ \A d \in later : d.frame = frame
  /\ Deliver(now)
  /\ delayed' = delayed \cup later /\ dropped' = dropped + lost
  /\ copies' = copies + lost + Cardinality(now) + Cardinality(later)

LEMMA StarHandles ==
  ASSUME BrokerTyped, NEW n \in Ids, NEW frame \in Frames, Star(n, frame)
  PROVE  \E now, later, lost : Handled(frame, now, later, lost)
<1> DEFINE S == Targets(frame, n)
<1>1. PICK fate \in [S -> {-1} \cup 0 .. MaxDelay] :
        /\ Count({<<n, t>> : t \in {x \in S : fate[x] >= 0}}, {<<n, t>> : t \in {x \in S : fate[x] < 0}})
        /\ delayed' = delayed \cup {[frame |-> frame, to |-> t, left |-> fate[t]] : t \in {x \in S : fate[x] > 0}}
        /\ Deliver({t \in S : fate[t] = 0})
        /\ copies' = copies + Cardinality(S)
  BY DEF Star
<1>2. S \in SUBSET Ids
  BY DEF Targets, Connected
<1> HIDE DEF S
<1> DEFINE lost == {t \in S : fate[t] < 0}
           now == {t \in S : fate[t] = 0}
           later == {t \in S : fate[t] > 0}
           links == {<<n, t>> : t \in lost}
           entry == [t \in later |-> [frame |-> frame, to |-> t, left |-> fate[t]]]
           entries == {[frame |-> frame, to |-> t, left |-> fate[t]] : t \in later}
<1>3. /\ IsFiniteSet(lost) /\ IsFiniteSet(now) /\ IsFiniteSet(later)
      /\ Cardinality(S) = Cardinality(lost) + Cardinality(now) + Cardinality(later)
  BY <1>2, FatesCount
<1>4. IsFiniteSet(links) /\ Cardinality(links) = Cardinality(lost)
  <2> DEFINE link == [t \in lost |-> <<n, t>>]
  <2>1. link \in [lost -> links] /\ (\A x, y \in lost : link[x] = link[y] => x = y) /\ \A l \in links : \E x \in lost : link[x] = l
    OBVIOUS
  <2> HIDE DEF link, links, lost
  <2> QED BY <1>3, <2>1, ImageCounts
<1>5. IsFiniteSet(entries) /\ Cardinality(entries) = Cardinality(later)
  <2>1. entry \in [later -> entries] /\ \A e \in entries : \E x \in later : entry[x] = e
    OBVIOUS
  <2>2. \A x, y \in later : entry[x] = entry[y] => x = y
    <3>1. \A x \in later : entry[x].to = x
      OBVIOUS
    <3> QED BY <3>1
  <2> HIDE DEF entry, entries, later
  <2> QED BY <1>3, <2>1, <2>2, ImageCounts
<1>6. entries \in SUBSET HeldCopies /\ \A d \in entries : d.frame = frame
  <2>1. \A t \in later : t \in Ids /\ fate[t] \in Int
    BY <1>2, BrokerAssumption
  <2> QED BY <2>1 DEF HeldCopies
<1>7. dropped' = dropped + Cardinality(links)
  BY <1>1 DEF Count
<1>9. now \in SUBSET Ids
  BY <1>2
<1>10. delayed' = delayed \cup entries /\ Deliver(now) /\ copies' = copies + Cardinality(S)
  BY <1>1
<1>11. Cardinality(lost) \in Nat /\ Cardinality(now) \in Nat /\ Cardinality(later) \in Nat /\ copies \in Nat
  BY <1>3, FS_CardinalityType DEF BrokerTyped
<1> HIDE DEF lost, now, later, links, entry, entries
<1>12. copies' = copies + Cardinality(lost) + Cardinality(now) + Cardinality(entries)
  BY <1>3, <1>5, <1>10, <1>11
<1>13. Handled(frame, now, entries, Cardinality(lost))
  BY <1>4, <1>5, <1>6, <1>7, <1>9, <1>10, <1>11, <1>12 DEF Handled
<1> QED BY <1>13

LEMMA RelayHandles ==
  ASSUME BrokerTyped, NEW n \in Ids, NEW frame \in Frames, Relays(frame, n), Relay(n, frame)
  PROVE  \E now, later, lost : Handled(frame, now, later, lost)
<1> DEFINE path == TracePath(up, n, frame.dst)
           hop(i) == <<path[i], path[i + 1]>>
           last == Len(path) - 1
<1>1. frame.dst \in Ids /\ {frame.dst} \in SUBSET Ids
  BY DEF Relays, Connected
<1>2. Cardinality({}) = 0 /\ IsFiniteSet({}) /\ \A x : Cardinality({x}) = 1 /\ IsFiniteSet({x})
  BY FS_EmptySet, FS_Singleton
<1>3. forwarded \in Nat /\ copies \in Nat /\ dropped \in Nat
  BY DEF BrokerTyped
<1>4. copies' = copies + 1
  BY DEF Relay
<1>5. CASE dropped' = dropped + 1 /\ UNCHANGED <<phase, delayed, forwarded>>
  <2>1. Deliver({})
    BY <1>3, <1>5, DeliverNone
  <2>2. delayed' = delayed \cup {}
    BY <1>5
  <2>3. copies' = copies + 1 + Cardinality({}) + Cardinality({})
    BY <1>2, <1>3, <1>4
  <2>4. Handled(frame, {}, {}, 1)
    BY <1>2, <1>5, <2>1, <2>2, <2>3 DEF Handled
  <2> QED BY <2>4
<1>6. ASSUME NEW delay \in 0 .. MaxDelay, dropped' = dropped, delay > 0,
             delayed' = delayed \cup {[frame |-> frame, to |-> frame.dst, left |-> delay]},
             UNCHANGED <<phase, forwarded>>
      PROVE  \E now, later, lost : Handled(frame, now, later, lost)
  <2>1. PICK d : d = [frame |-> frame, to |-> frame.dst, left |-> delay]
    OBVIOUS
  <2>2. d \in HeldCopies /\ d.frame = frame /\ d.to = frame.dst
    BY <1>1, <2>1, BrokerAssumption DEF HeldCopies
  <2>3. Deliver({})
    BY <1>3, <1>6, DeliverNone
  <2>4. copies' = copies + 0 + Cardinality({}) + Cardinality({d}) /\ dropped' = dropped + 0
    <3>1. Cardinality({}) = 0 /\ Cardinality({d}) = 1
      BY <1>2
    <3> QED BY <1>3, <1>4, <1>6, <3>1
  <2>5. Handled(frame, {}, {d}, 0)
    BY <1>2, <1>6, <2>1, <2>2, <2>3, <2>4 DEF Handled
  <2> QED BY <2>5
<1>7. ASSUME dropped' = dropped, UNCHANGED delayed, Deliver({frame.dst})
      PROVE  \E now, later, lost : Handled(frame, now, later, lost)
  <2>0. Cardinality({frame.dst}) = 1
    BY <1>2
  <2>1. copies' = copies + 0 + Cardinality({frame.dst}) + Cardinality({}) /\ dropped' = dropped + 0
    BY <1>2, <1>3, <1>4, <1>7, <2>0
  <2>2. delayed' = delayed \cup {}
    BY <1>7
  <2>3. Handled(frame, {frame.dst}, {}, 0)
    BY <1>1, <1>2, <1>7, <2>1, <2>2 DEF Handled
  <2> QED BY <2>3
<1>8. CASE path = <<>>
  <2>1. dropped' = dropped + 1 /\ UNCHANGED <<phase, delayed, forwarded>>
    BY <1>8 DEF Relay
  <2> QED BY <1>5, <2>1
<1>9. CASE path # <<>>
  <2>1. \/ \E k \in 1 .. last : Count({hop(i) : i \in 1 .. k - 1}, {hop(k)}) /\ UNCHANGED <<phase, delayed, forwarded>>
        \/ \E delay \in 0 .. MaxDelay :
             /\ Count({hop(i) : i \in 1 .. last}, {})
             /\ IF delay > 0
                THEN /\ delayed' = delayed \cup {[frame |-> frame, to |-> frame.dst, left |-> delay]}
                     /\ UNCHANGED <<phase, forwarded>>
                ELSE Deliver({frame.dst}) /\ UNCHANGED delayed
    BY <1>9 DEF Relay
  <2> HIDE DEF path
  <2>2. \A passed, died : Count(passed, died) => dropped' = dropped + Cardinality(died)
    BY DEF Count
  <2>3. CASE \E k \in 1 .. last : Count({hop(i) : i \in 1 .. k - 1}, {hop(k)}) /\ UNCHANGED <<phase, delayed, forwarded>>
    <3>1. dropped' = dropped + 1
      BY <1>2, <2>2, <2>3
    <3> QED BY <1>5, <2>3, <3>1
  <2>4. CASE \E delay \in 0 .. MaxDelay :
             /\ Count({hop(i) : i \in 1 .. last}, {})
             /\ IF delay > 0
                THEN /\ delayed' = delayed \cup {[frame |-> frame, to |-> frame.dst, left |-> delay]}
                     /\ UNCHANGED <<phase, forwarded>>
                ELSE Deliver({frame.dst}) /\ UNCHANGED delayed
    <3>1. dropped' = dropped
      BY <1>2, <1>3, <2>2, <2>4
    <3>2. PICK delay \in 0 .. MaxDelay :
             IF delay > 0
             THEN /\ delayed' = delayed \cup {[frame |-> frame, to |-> frame.dst, left |-> delay]}
                  /\ UNCHANGED <<phase, forwarded>>
             ELSE Deliver({frame.dst}) /\ UNCHANGED delayed
      BY <2>4
    <3> QED BY <1>6, <1>7, <3>1, <3>2
  <2> QED BY <2>1, <2>3, <2>4
<1> QED BY <1>8, <1>9

--------------------------------------------------------------------------------
(* The steps.                                                                *)

LEMMA ServiceStarts == BrokerInit => BrokerInv
<1> HAVE BrokerInit
<1>1. /\ phase = "accepting" /\ conn = [n \in Ids |-> 0] /\ tracer \in BOOLEAN
      /\ delayed = {} /\ forwarded = 0 /\ dropped = 0 /\ born = [n \in Ids |-> 0] /\ live = [n \in Ids |-> 0]
      /\ backlog = <<>> /\ greeted = {} /\ wire = [i \in Incarnations |-> <<>>]
      /\ sent = 0 /\ copies = 0
  BY DEF BrokerInit
<1>2. 0 \in 0 .. MaxBorn
  BY BrokerAssumption
<1>3. BrokerTyped
  BY <1>1, <1>2, FS_EmptySet DEF BrokerTyped, Numbered
<1>4. OnlyTheBorn /\ FramesAreTheirSenders /\ FramesDiffer
  BY <1>1 DEF OnlyTheBorn, FramesAreTheirSenders, FramesDiffer
<1>5. QuietAtFirst
  BY <1>1 DEF QuietAtFirst
<1> QED BY <1>3, <1>4, <1>5 DEF BrokerInv

LEMMA Appended ==
  ASSUME NEW T, NEW s \in Seq(T), NEW x \in T
  PROVE  /\ Append(s, x) \in Seq(T) /\ Len(Append(s, x)) = Len(s) + 1
         /\ \A k \in 1 .. Len(s) + 1 : Append(s, x)[k] = IF k = Len(s) + 1 THEN x ELSE s[k]
OBVIOUS

LEMMA Tailed ==
  ASSUME NEW T, NEW s \in Seq(T), s # <<>>
  PROVE  /\ Tail(s) \in Seq(T) /\ Len(s) \in Nat \ {0} /\ Len(Tail(s)) = Len(s) - 1
         /\ Head(s) = s[1] /\ s[1] \in T
         /\ \A k \in 1 .. Len(s) - 1 : Tail(s)[k] = s[k + 1]
OBVIOUS

\* An incarnation starts: its number is above those of all that were before.
LEMMA StartKeeps == ASSUME BrokerInv, NEW n \in Ids, Start(n) PROVE BrokerInv'
<1>1. /\ born[n] < MaxBorn /\ born' = [born EXCEPT ![n] = born[n] + 1] /\ live' = [live EXCEPT ![n] = born[n] + 1]
      /\ backlog' = Append(backlog, <<n, born[n] + 1>>) /\ UNCHANGED <<brokerVars, greeted, wire, historyVars>>
  BY DEF Start
<1>2. /\ born \in [Ids -> Numbered] /\ live \in [Ids -> Numbered] /\ conn \in [Ids -> Numbered]
      /\ backlog \in Seq(Incarnations) /\ born[n] \in Nat
  BY BrokerAssumption DEF BrokerInv, BrokerTyped, Numbered
<1>3. <<n, born[n] + 1>> \in Incarnations /\ born[n] + 1 \in Numbered
  BY <1>1, <1>2, BrokerAssumption DEF Incarnations, Numbered
<1>4. BrokerTyped'
  <2>1. backlog' \in Seq(Incarnations)
    BY <1>1, <1>2, <1>3
  <2> QED BY <1>1, <1>2, <1>3, <2>1 DEF BrokerInv, BrokerTyped, brokerVars, historyVars
<1>5. OnlyTheBorn'
  <2>1. ASSUME NEW m \in Ids PROVE conn'[m] <= born'[m] /\ live'[m] <= born'[m] /\ born[m] <= born'[m] /\ born[m] \in Nat /\ born'[m] \in Nat
    BY <1>1, <1>2, BrokerAssumption DEF BrokerInv, OnlyTheBorn, Numbered, brokerVars
  <2>2. ASSUME NEW k \in 1 .. Len(backlog') PROVE backlog'[k][2] <= born'[backlog'[k][1]]
    <3>1. Len(backlog) \in Nat /\ Len(backlog') = Len(backlog) + 1
      BY <1>1, <1>2, <1>3, Appended
    <3>2. CASE k = Len(backlog) + 1
      <4>1. backlog'[k] = <<n, born[n] + 1>>
        BY <1>1, <1>2, <1>3, <3>1, <3>2, Appended
      <4> QED BY <1>1, <1>2, <4>1
    <3>3. CASE k # Len(backlog) + 1
      <4>1. k \in 1 .. Len(backlog)
        BY <3>1, <3>3
      <4>2. backlog'[k] = backlog[k]
        BY <1>1, <1>2, <1>3, <3>1, <3>3, Appended
      <4>3. backlog[k] \in Incarnations
        BY <1>2, <4>1
      <4>4. backlog[k][1] \in Ids /\ backlog[k][2] \in Nat /\ backlog[k][2] <= born[backlog[k][1]]
        BY <4>1, <4>3 DEF Incarnations, BrokerInv, OnlyTheBorn
      <4> QED BY <2>1, <4>2, <4>4
    <3> QED BY <3>2, <3>3
  <2> QED BY <2>1, <2>2 DEF OnlyTheBorn
<1>6. (FramesAreTheirSenders /\ FramesDiffer /\ QuietAtFirst)'
  BY <1>1 DEF brokerVars, historyVars, BrokerInv, FramesAreTheirSenders, FromItsNode, FramesDiffer, QuietAtFirst
<1> QED BY <1>4, <1>5, <1>6 DEF BrokerInv

\* Steps that move no frame and connect no one.
LEMMA QuietKeeps ==
  ASSUME BrokerInv, \/ \E n \in Ids : Greet(n) \/ NodeDies(n) \/ Hangup(n)
                    \/ Control
  PROVE  BrokerInv'
<1>1. UNCHANGED <<phase, tracer, born, backlog, wire, delayed, forwarded, dropped, copies, sent>>
  BY DEF Greet, NodeDies, Hangup, Control, brokerVars, nodeVars, historyVars
<1>2. BrokerAssumption /\ Numbered = 0 .. MaxBorn
  BY BrokerAssumption DEF Numbered, BrokerAssumption
<1>3. /\ live' \in [Ids -> Numbered] /\ conn' \in [Ids -> Numbered] /\ greeted' \subseteq Incarnations
      /\ \A n \in Ids : live'[n] \in {live[n], 0} /\ conn'[n] \in {conn[n], 0}
  <2>1. live \in [Ids -> Numbered] /\ conn \in [Ids -> Numbered] /\ greeted \subseteq Incarnations /\ 0 \in Numbered
    BY <1>2, BrokerAssumption DEF BrokerInv, BrokerTyped
  <2>2. ASSUME NEW n \in Ids, Greet(n) PROVE greeted' \subseteq Incarnations /\ UNCHANGED <<live, conn>>
    <3>1. live[n] \in 1 .. MaxBorn
      BY <1>2, <2>1, <2>2, BrokerAssumption DEF Greet
    <3> QED BY <2>1, <2>2, <3>1 DEF Greet, Incarnations, brokerVars
  <2>3. ASSUME NEW n \in Ids, NodeDies(n)
        PROVE  live' = [live EXCEPT ![n] = 0] /\ UNCHANGED <<conn, greeted>>
    BY <2>3 DEF NodeDies, brokerVars
  <2>4. ASSUME NEW n \in Ids, Hangup(n)
        PROVE  conn' = [conn EXCEPT ![n] = 0] /\ UNCHANGED <<live, greeted>>
    BY <2>4 DEF Hangup, nodeVars
  <2>5. CASE Control
    BY <2>1, <2>5 DEF Control, nodeVars
  <2> QED BY <2>1, <2>2, <2>3, <2>4, <2>5
<1>4. BrokerTyped'
  BY <1>1, <1>3 DEF BrokerInv, BrokerTyped
<1>5. OnlyTheBorn'
  <2>1. ASSUME NEW n \in Ids PROVE conn'[n] <= born'[n] /\ live'[n] <= born'[n]
    <3>1. born[n] \in Nat /\ conn[n] \in Nat /\ live[n] \in Nat /\ conn[n] <= born[n] /\ live[n] <= born[n]
      BY <1>2, BrokerAssumption DEF BrokerInv, BrokerTyped, OnlyTheBorn
    <3> QED BY <1>1, <1>3, <3>1
  <2>2. \A k \in 1 .. Len(backlog') : backlog'[k][2] <= born'[backlog'[k][1]]
    BY <1>1 DEF BrokerInv, OnlyTheBorn
  <2> QED BY <2>1, <2>2 DEF OnlyTheBorn
<1>6. (FramesAreTheirSenders /\ FramesDiffer /\ QuietAtFirst)'
  BY <1>1 DEF BrokerInv, FramesAreTheirSenders, FromItsNode, FramesDiffer, QuietAtFirst
<1> QED BY <1>4, <1>5, <1>6 DEF BrokerInv

\* The broker accepts one connection and waits for its registration; what it
\* forwards is still to come.
LEMMA AcceptKeeps == ASSUME BrokerInv, Accept PROVE BrokerInv'
<1> DEFINE c == Head(backlog)
<1>1. /\ phase = "accepting" /\ backlog # <<>> /\ backlog' = Tail(backlog)
      /\ \/ conn' = [conn EXCEPT ![c[1]] = c[2]] /\ phase' \in {"forwarding", phase}
         \/ UNCHANGED <<conn, phase>>
      /\ UNCHANGED <<delayed, tracer, forwarded, dropped, born, live, greeted, wire, sent, copies>>
  BY DEF Accept, historyVars
<1>2. backlog \in Seq(Incarnations) /\ conn \in [Ids -> Numbered] /\ born \in [Ids -> Numbered] /\ Numbered \subseteq Nat
  BY BrokerAssumption DEF BrokerInv, BrokerTyped, Numbered
<1>3. /\ Tail(backlog) \in Seq(Incarnations) /\ Len(backlog) \in Nat \ {0} /\ Len(Tail(backlog)) = Len(backlog) - 1
      /\ c = backlog[1] /\ backlog[1] \in Incarnations
      /\ \A k \in 1 .. Len(backlog) - 1 : Tail(backlog)[k] = backlog[k + 1]
  BY <1>1, <1>2, Tailed
<1>4. c[1] \in Ids /\ c[2] \in Numbered /\ c[2] <= born[c[1]]
  <2>1. 1 \in 1 .. Len(backlog)
    BY <1>3
  <2> QED BY <1>3, <2>1, BrokerAssumption DEF Incarnations, Numbered, BrokerInv, OnlyTheBorn
<1> HIDE DEF c
<1>5. conn' \in [Ids -> Numbered] /\ phase' \in {"accepting", "forwarding"}
  BY <1>1, <1>2, <1>4
<1>6. \A n \in Ids : conn'[n] = conn[n] \/ (n = c[1] /\ conn'[n] = c[2])
  BY <1>1, <1>2, <1>4
<1>7. BrokerTyped'
  BY <1>1, <1>3, <1>5 DEF BrokerInv, BrokerTyped
<1>8. OnlyTheBorn'
  <2>1. \A n \in Ids : conn'[n] <= born'[n] /\ live'[n] <= born'[n]
    BY <1>1, <1>4, <1>6 DEF BrokerInv, OnlyTheBorn
  <2>2. ASSUME NEW k \in 1 .. Len(backlog') PROVE backlog'[k][2] <= born'[backlog'[k][1]]
    <3>1. backlog'[k] = backlog[k + 1] /\ k + 1 \in 1 .. Len(backlog)
      BY <1>1, <1>3
    <3> QED BY <1>1, <3>1 DEF BrokerInv, OnlyTheBorn
  <2> QED BY <2>1, <2>2 DEF OnlyTheBorn
<1>9. (FramesAreTheirSenders /\ FramesDiffer)'
  BY <1>1 DEF BrokerInv, FramesAreTheirSenders, FromItsNode, FramesDiffer
<1>10. QuietAtFirst'
  BY <1>1 DEF BrokerInv, QuietAtFirst
<1> QED BY <1>7, <1>8, <1>9, <1>10 DEF BrokerInv

\* A node writes a frame with an id of its own.
LEMMA SendKeeps ==
  ASSUME BrokerInv, NEW n \in Ids, NEW dst \in Ids \cup {All}, dst # n, Send(n, dst)
  PROVE  BrokerInv'
<1>1. PICK c : c = <<n, live[n]>>
  OBVIOUS
<1>2. PICK frame : frame = [id |-> sent + 1, src |-> n, dst |-> dst]
  OBVIOUS
<1>3. /\ c \in greeted /\ sent < MaxFrames /\ sent' = sent + 1
      /\ wire' = [wire EXCEPT ![c] = Append(wire[c], frame)]
      /\ UNCHANGED <<brokerVars, born, live, backlog, greeted, copies>>
  BY <1>1, <1>2 DEF Send
<1>4. wire \in [Incarnations -> Seq(Frames)] /\ c \in Incarnations /\ c[1] = n /\ sent \in Nat
  BY <1>1, <1>3 DEF BrokerInv, BrokerTyped
<1>5. frame \in Frames /\ frame.id = sent + 1 /\ frame.src = n /\ frame.dst = dst
  BY <1>2, <1>3, <1>4, BrokerAssumption DEF Frames
<1>6. /\ Append(wire[c], frame) \in Seq(Frames) /\ Len(Append(wire[c], frame)) = Len(wire[c]) + 1
      /\ \A k \in 1 .. Len(wire[c]) + 1 : Append(wire[c], frame)[k] = IF k = Len(wire[c]) + 1 THEN frame ELSE wire[c][k]
  BY <1>4, <1>5, Appended
<1>7. wire' \in [Incarnations -> Seq(Frames)]
  BY <1>3, <1>4, <1>6
<1>8. ASSUME NEW x \in Incarnations, NEW k \in 1 .. Len(wire'[x])
      PROVE  \/ x = c /\ k = Len(wire[c]) + 1 /\ wire'[x][k] = frame
             \/ k \in 1 .. Len(wire[x]) /\ wire'[x][k] = wire[x][k]
  <2>1. CASE x = c
    <3>1. Len(wire[c]) \in Nat /\ wire'[x] = Append(wire[c], frame)
      BY <1>3, <1>4, <2>1
    <3> QED BY <1>6, <2>1, <3>1
  <2>2. CASE x # c
    <3>1. wire'[x] = wire[x]
      BY <1>3, <1>4, <2>2
    <3> QED BY <3>1
  <2> QED BY <2>1, <2>2
<1>9. ASSUME NEW x \in Incarnations, NEW k \in 1 .. Len(wire[x])
      PROVE  wire[x][k].id <= sent /\ wire[x][k].id \in Nat
  <2>1. wire[x] \in Seq(Frames)
    BY <1>4
  <2>2. wire[x][k] \in Frames
    BY <2>1
  <2>3. wire[x][k].id \in Nat
    BY <2>2 DEF Frames
  <2> QED BY <2>3 DEF BrokerInv, FramesAreTheirSenders, FromItsNode
<1>10. BrokerTyped'
  BY <1>3, <1>4, <1>7 DEF BrokerInv, BrokerTyped, brokerVars
<1>11. FramesAreTheirSenders'
  <2> SUFFICES ASSUME NEW x \in Incarnations, NEW k \in 1 .. Len(wire'[x])
               PROVE  wire'[x][k].src = x[1] /\ wire'[x][k].dst # x[1] /\ wire'[x][k].id <= sent'
    BY DEF FramesAreTheirSenders, FromItsNode
  <2>1. CASE x = c /\ wire'[x][k] = frame
    BY <1>3, <1>4, <1>5, <2>1 DEF FromItsNode
  <2>2. CASE k \in 1 .. Len(wire[x]) /\ wire'[x][k] = wire[x][k]
    BY <1>3, <1>4, <1>9, <2>2 DEF BrokerInv, FramesAreTheirSenders, FromItsNode
  <2> QED BY <1>8, <2>1, <2>2
<1>12. FramesDiffer'
  <2>1. ASSUME NEW x \in Incarnations, NEW y \in Incarnations, NEW k \in 1 .. Len(wire'[x]), NEW m \in 1 .. Len(wire'[y]),
               wire'[x][k].id = wire'[y][m].id
        PROVE  x = y /\ k = m
    <3>1. \/ x = c /\ k = Len(wire[c]) + 1 /\ wire'[x][k] = frame
          \/ k \in 1 .. Len(wire[x]) /\ wire'[x][k] = wire[x][k]
      BY <1>8
    <3>2. \/ y = c /\ m = Len(wire[c]) + 1 /\ wire'[y][m] = frame
          \/ m \in 1 .. Len(wire[y]) /\ wire'[y][m] = wire[y][m]
      BY <1>8
    <3>3. CASE k \in 1 .. Len(wire[x]) /\ wire'[x][k] = wire[x][k] /\ m \in 1 .. Len(wire[y]) /\ wire'[y][m] = wire[y][m]
      BY <2>1, <3>3 DEF BrokerInv, FramesDiffer
    <3>4. CASE x = c /\ k = Len(wire[c]) + 1 /\ wire'[x][k] = frame
      BY <1>4, <1>5, <1>9, <2>1, <3>2, <3>4
    <3>5. CASE y = c /\ m = Len(wire[c]) + 1 /\ wire'[y][m] = frame
      BY <1>4, <1>5, <1>9, <2>1, <3>1, <3>5
    <3> QED BY <3>1, <3>2, <3>3, <3>4, <3>5
  <2>2. ASSUME NEW d \in delayed PROVE d.frame.id <= sent /\ d.frame.id \in Nat
    BY DEF BrokerInv, BrokerTyped, FramesDiffer, HeldCopies, Frames
  <2>3. ASSUME NEW d \in delayed, NEW x \in Incarnations, NEW k \in 1 .. Len(wire'[x]) PROVE wire'[x][k].id # d.frame.id
    <3>1. CASE x = c /\ wire'[x][k] = frame
      BY <1>4, <1>5, <2>2, <3>1
    <3>2. CASE k \in 1 .. Len(wire[x]) /\ wire'[x][k] = wire[x][k]
      BY <3>2 DEF BrokerInv, FramesDiffer
    <3> QED BY <1>8, <3>1, <3>2
  <2>4. delayed' = delayed /\ \A d \in delayed : d.frame.id <= sent'
    BY <1>3, <1>4, <2>2 DEF brokerVars
  <2> QED BY <2>1, <2>3, <2>4 DEF FramesDiffer
<1>13. (OnlyTheBorn /\ QuietAtFirst)'
  BY <1>3 DEF BrokerInv, OnlyTheBorn, QuietAtFirst, brokerVars
<1> QED BY <1>10, <1>11, <1>12, <1>13 DEF BrokerInv

\* The broker reads a frame: the others on its connection move up.
LEMMA WireMovesUp ==
  ASSUME BrokerInv, NEW c \in Incarnations, wire[c] # <<>>, wire' = [wire EXCEPT ![c] = Tail(wire[c])]
  PROVE  /\ wire' \in [Incarnations -> Seq(Frames)]
         /\ Head(wire[c]) = wire[c][1] /\ wire[c][1] \in Frames /\ 1 \in 1 .. Len(wire[c])
         /\ \A x \in Incarnations : \A k \in 1 .. Len(wire'[x]) :
              LET j == IF x = c THEN k + 1 ELSE k
              IN  j \in 1 .. Len(wire[x]) /\ wire'[x][k] = wire[x][j]
<1>1. wire \in [Incarnations -> Seq(Frames)] /\ wire[c] \in Seq(Frames)
  BY DEF BrokerInv, BrokerTyped
<1>2. /\ Tail(wire[c]) \in Seq(Frames) /\ Len(wire[c]) \in Nat \ {0} /\ Len(Tail(wire[c])) = Len(wire[c]) - 1
      /\ Head(wire[c]) = wire[c][1] /\ wire[c][1] \in Frames
      /\ \A k \in 1 .. Len(wire[c]) - 1 : Tail(wire[c])[k] = wire[c][k + 1]
  BY <1>1, Tailed
<1>3. wire' \in [Incarnations -> Seq(Frames)]
  BY <1>1, <1>2
<1>4. ASSUME NEW x \in Incarnations, NEW k \in 1 .. Len(wire'[x])
      PROVE  LET j == IF x = c THEN k + 1 ELSE k
             IN  j \in 1 .. Len(wire[x]) /\ wire'[x][k] = wire[x][j]
  <2>1. CASE x = c
    <3>1. wire'[x] = Tail(wire[c])
      BY <1>1, <2>1
    <3>2. k \in 1 .. Len(wire[c]) - 1
      BY <1>2, <3>1
    <3>3. k + 1 \in 1 .. Len(wire[c]) /\ Tail(wire[c])[k] = wire[c][k + 1]
      BY <1>2, <3>2
    <3> QED BY <2>1, <3>1, <3>3
  <2>2. CASE x # c
    <3>1. wire'[x] = wire[x]
      BY <1>1, <2>2
    <3> QED BY <2>2, <3>1
  <2> QED BY <2>1, <2>2
<1>5. 1 \in 1 .. Len(wire[c])
  BY <1>2
<1> QED BY <1>2, <1>3, <1>4, <1>5

\* A frame of a node: its copies are delivered, held or dropped.
LEMMA ForwardHandles ==
  ASSUME BrokerInv, NEW n \in Ids, Forward(n)
  PROVE  LET c == <<n, conn[n]>>
         IN  /\ phase = "forwarding" /\ c \in Incarnations /\ wire[c] # <<>>
             /\ wire' = [wire EXCEPT ![c] = Tail(wire[c])]
             /\ \E now, later, lost : Handled(wire[c][1], now, later, lost)
             /\ UNCHANGED <<conn, tracer, born, live, backlog, greeted, sent>>
<1> DEFINE c == <<n, conn[n]>>
<1>1. /\ phase = "forwarding" /\ conn[n] # 0 /\ wire[c] # <<>>
      /\ wire' = [wire EXCEPT ![c] = Tail(wire[c])]
      /\ IF Relays(Head(wire[c]), n) THEN Relay(n, Head(wire[c])) ELSE Star(n, Head(wire[c]))
      /\ UNCHANGED <<conn, tracer, born, live, backlog, greeted, sent>>
  BY DEF Forward
<1>2. BrokerTyped /\ conn[n] \in Numbered
  BY DEF BrokerInv, BrokerTyped
<1>3. conn[n] \in 1 .. MaxBorn
  BY <1>1, <1>2, BrokerAssumption DEF Numbered
<1>4. c \in Incarnations /\ c[1] = n
  BY <1>3 DEF Incarnations
<1> HIDE DEF c
<1>5. Head(wire[c]) = wire[c][1] /\ wire[c][1] \in Frames /\ 1 \in 1 .. Len(wire[c])
  BY <1>1, <1>4, WireMovesUp
<1>7. \E now, later, lost : Handled(wire[c][1], now, later, lost)
  <2>1. CASE Relays(wire[c][1], n)
    <3>1. Relay(n, wire[c][1])
      BY <1>1, <1>5, <2>1
    <3> QED BY <1>2, <1>5, <2>1, <3>1, RelayHandles
  <2>2. CASE ~Relays(wire[c][1], n)
    <3>1. Star(n, wire[c][1])
      BY <1>1, <1>5, <2>2
    <3> QED BY <1>2, <1>5, <3>1, StarHandles
  <2> QED BY <2>1, <2>2
<1> QED BY <1>1, <1>4, <1>7 DEF c

LEMMA ForwardKeeps == ASSUME BrokerInv, NEW n \in Ids, Forward(n) PROVE BrokerInv'
<1>1. PICK c \in Incarnations :
        /\ phase = "forwarding" /\ wire[c] # <<>> /\ wire' = [wire EXCEPT ![c] = Tail(wire[c])]
        /\ \E now, later, lost : Handled(wire[c][1], now, later, lost)
        /\ UNCHANGED <<conn, tracer, born, live, backlog, greeted, sent>>
  BY ForwardHandles
<1>2. PICK frame : frame = wire[c][1]
  OBVIOUS
<1>3. PICK now, later, lost : Handled(frame, now, later, lost)
  BY <1>1, <1>2
<1>4. /\ wire' \in [Incarnations -> Seq(Frames)] /\ frame \in Frames /\ 1 \in 1 .. Len(wire[c])
      /\ \A x \in Incarnations : \A k \in 1 .. Len(wire'[x]) :
           LET j == IF x = c THEN k + 1 ELSE k
           IN  j \in 1 .. Len(wire[x]) /\ wire'[x][k] = wire[x][j]
  BY <1>1, <1>2, WireMovesUp
<1>5. /\ now \in SUBSET Ids /\ later \in SUBSET HeldCopies /\ IsFiniteSet(later) /\ lost \in Nat
      /\ \A d \in later : d.frame = frame
      /\ Deliver(now)
      /\ delayed' = delayed \cup later /\ dropped' = dropped + lost
      /\ copies' = copies + lost + Cardinality(now) + Cardinality(later)
  BY <1>3 DEF Handled
<1>6. /\ forwarded \in Nat /\ dropped \in Nat /\ copies \in Nat /\ IsFiniteSet(delayed)
      /\ delayed \subseteq HeldCopies
  BY DEF BrokerInv, BrokerTyped
<1>7. forwarded' \in Nat /\ phase' \in {phase, "dead"}
  BY <1>5, <1>6, DeliverCounts
<1>8. IsFiniteSet(now) /\ Cardinality(now) \in Nat /\ Cardinality(later) \in Nat
  BY <1>5, FiniteIds, FS_CardinalityType
<1>9. BrokerTyped'
  <2>1. phase' \in {"forwarding", "dead"} /\ IsFiniteSet(delayed') /\ delayed' \subseteq HeldCopies
    BY <1>1, <1>5, <1>6, <1>7, FS_Union
  <2>3. forwarded' \in Nat /\ dropped' \in Nat /\ copies' \in Nat
    BY <1>5, <1>6, <1>7, <1>8
  <2> QED BY <1>1, <1>4, <2>1, <2>3 DEF BrokerInv, BrokerTyped
<1>10. (OnlyTheBorn /\ FramesAreTheirSenders)'
  <2>1. OnlyTheBorn'
    BY <1>1 DEF BrokerInv, OnlyTheBorn
  <2>2. ASSUME NEW x \in Incarnations, NEW k \in 1 .. Len(wire'[x])
        PROVE  wire'[x][k].src = x[1] /\ wire'[x][k].dst # x[1] /\ wire'[x][k].id <= sent'
    <3>1. PICK j \in 1 .. Len(wire[x]) : wire'[x][k] = wire[x][j]
      BY <1>4
    <3> QED BY <1>1, <3>1 DEF BrokerInv, FramesAreTheirSenders, FromItsNode
  <2> QED BY <2>1, <2>2 DEF FramesAreTheirSenders, FromItsNode
<1>11. FramesDiffer'
  <2>1. ASSUME NEW x \in Incarnations, NEW y \in Incarnations, NEW k \in 1 .. Len(wire'[x]), NEW m \in 1 .. Len(wire'[y]),
               wire'[x][k].id = wire'[y][m].id
        PROVE  x = y /\ k = m
    <3>1. PICK j : /\ j = (IF x = c THEN k + 1 ELSE k) /\ j \in 1 .. Len(wire[x]) /\ wire'[x][k] = wire[x][j]
      BY <1>4
    <3>2. PICK i : /\ i = (IF y = c THEN m + 1 ELSE m) /\ i \in 1 .. Len(wire[y]) /\ wire'[y][m] = wire[y][i]
      BY <1>4
    <3>3. x = y /\ j = i
      BY <2>1, <3>1, <3>2 DEF BrokerInv, FramesDiffer
    <3> QED BY <3>1, <3>2, <3>3
  <2>2. ASSUME NEW d \in delayed' PROVE d.frame.id <= sent'
    <3>1. frame.id <= sent
      BY <1>2, <1>4 DEF BrokerInv, FramesAreTheirSenders, FromItsNode
    <3> QED BY <1>1, <1>5, <3>1 DEF BrokerInv, FramesDiffer
  <2>3. ASSUME NEW d \in delayed', NEW x \in Incarnations, NEW k \in 1 .. Len(wire'[x])
        PROVE  wire'[x][k].id # d.frame.id
    <3>1. PICK j : /\ j = (IF x = c THEN k + 1 ELSE k) /\ j \in 1 .. Len(wire[x]) /\ wire'[x][k] = wire[x][j]
      BY <1>4
    <3>2. CASE d \in delayed
      BY <3>1, <3>2 DEF BrokerInv, FramesDiffer
    <3>3. CASE d \in later
      <4>1. d.frame = wire[c][1]
        BY <1>2, <1>5, <3>3
      <4>2. wire[x][j].id = wire[c][1].id => x = c /\ j = 1
        BY <1>4, <3>1 DEF BrokerInv, FramesDiffer
      <4> QED BY <3>1, <4>1, <4>2
    <3> QED BY <1>5, <3>2, <3>3
  <2> QED BY <2>1, <2>2, <2>3 DEF FramesDiffer
<1>12. QuietAtFirst'
  BY <1>1, <1>7 DEF QuietAtFirst
<1> QED BY <1>9, <1>10, <1>11, <1>12 DEF BrokerInv

\* A held copy is due: it is in the queue no more.
LEMMA DueGoes ==
  ASSUME BrokerInv, DeliverDelayed
  PROVE  \E d \in delayed :
           /\ phase = "forwarding" /\ delayed' = delayed \ {d}
           /\ Deliver({d.to} \cap Connected) /\ {d.to} \cap Connected \in SUBSET Ids
           /\ UNCHANGED <<conn, tracer, born, live, backlog, greeted, wire, dropped, sent, copies>>
<1>1. PICK d \in delayed : /\ phase = "forwarding" /\ delayed' = delayed \ {d}
                           /\ Deliver({d.to} \cap Connected)
                           /\ UNCHANGED <<conn, tracer, born, live, backlog, greeted, wire, dropped, sent, copies>>
  BY DEF DeliverDelayed, nodeVars
<1>2. {d.to} \cap Connected \in SUBSET Ids
  BY DEF Connected
<1> QED BY <1>1, <1>2

LEMMA DeliverDelayedKeeps == ASSUME BrokerInv, DeliverDelayed PROVE BrokerInv'
<1>1. PICK d \in delayed :
        /\ phase = "forwarding" /\ delayed' = delayed \ {d}
        /\ Deliver({d.to} \cap Connected) /\ {d.to} \cap Connected \in SUBSET Ids
        /\ UNCHANGED <<conn, tracer, born, live, backlog, greeted, wire, dropped, sent, copies>>
  BY DueGoes
<1>2. /\ forwarded \in Nat /\ IsFiniteSet(delayed) /\ delayed \subseteq HeldCopies
  BY DEF BrokerInv, BrokerTyped, HeldCopies
<1>3. PICK tos \in SUBSET Ids : tos = {d.to} \cap Connected
  BY <1>1
<1>4. forwarded' \in Nat /\ phase' \in {phase, "dead"}
  BY <1>1, <1>2, <1>3, DeliverCounts
<1>5. BrokerTyped'
  <2>1. IsFiniteSet(delayed') /\ delayed' \subseteq HeldCopies /\ phase' \in {"forwarding", "dead"}
    BY <1>1, <1>2, <1>4, FS_RemoveElement
  <2> QED BY <1>1, <1>4, <2>1 DEF BrokerInv, BrokerTyped
<1>6. (OnlyTheBorn /\ FramesAreTheirSenders /\ FramesDiffer)'
  BY <1>1 DEF BrokerInv, OnlyTheBorn, FramesAreTheirSenders, FromItsNode, FramesDiffer
<1>7. QuietAtFirst'
  BY <1>1, <1>4 DEF QuietAtFirst
<1> QED BY <1>5, <1>6, <1>7 DEF BrokerInv

\* Time passes: no held copy is lost, and none becomes another's.
LEMMA QueueShifts ==
  ASSUME BrokerInv, Elapse
  PROVE  /\ phase = "forwarding" /\ delayed' \subseteq HeldCopies
         /\ IsFiniteSet(delayed') /\ Cardinality(delayed') = Cardinality(delayed)
         /\ \A e \in delayed' : \E d \in delayed : e.frame = d.frame /\ e.to = d.to
         /\ UNCHANGED <<phase, conn, tracer, forwarded, dropped, nodeVars, historyVars>>
<1>1. /\ phase = "forwarding" /\ delayed' = {[d EXCEPT !.left = d.left - 1] : d \in delayed}
      /\ UNCHANGED <<phase, conn, tracer, forwarded, dropped, nodeVars, historyVars>>
  BY DEF Elapse
<1>2. delayed \subseteq HeldCopies /\ IsFiniteSet(delayed)
  BY DEF BrokerInv, BrokerTyped
<1> DEFINE shift == [d \in delayed |-> [frame |-> d.frame, to |-> d.to, left |-> d.left - 1]]
<1>3. ASSUME NEW d \in delayed
      PROVE  /\ [d EXCEPT !.left = d.left - 1] = shift[d] /\ shift[d] \in HeldCopies
             /\ shift[d].frame = d.frame /\ shift[d].to = d.to /\ shift[d].left = d.left - 1
             /\ d = [frame |-> d.frame, to |-> d.to, left |-> d.left] /\ d.left \in Int
  BY <1>2 DEF HeldCopies
<1>4. /\ \A d \in delayed : shift[d] \in delayed'
      /\ \A e \in delayed' : \E d \in delayed : e = shift[d]
  <2>1. \A d \in delayed : [d EXCEPT !.left = d.left - 1] = shift[d]
    BY <1>3
  <2> HIDE DEF shift
  <2> QED BY <1>1, <2>1
<1>5. DOMAIN shift = delayed /\ shift = [d \in delayed |-> shift[d]]
  OBVIOUS
<1> HIDE DEF shift
<1>6. shift \in [delayed -> delayed'] /\ \A e \in delayed' : \E d \in delayed : shift[d] = e
  BY <1>4, <1>5
<1>7. \A d, e \in delayed : shift[d] = shift[e] => d = e
  <2> SUFFICES ASSUME NEW d \in delayed, NEW e \in delayed, shift[d] = shift[e] PROVE d = e
    OBVIOUS
  <2>1. /\ shift[d].frame = d.frame /\ shift[d].to = d.to /\ shift[d].left = d.left - 1
        /\ d = [frame |-> d.frame, to |-> d.to, left |-> d.left] /\ d.left \in Int
    BY <1>3
  <2>2. /\ shift[e].frame = e.frame /\ shift[e].to = e.to /\ shift[e].left = e.left - 1
        /\ e = [frame |-> e.frame, to |-> e.to, left |-> e.left] /\ e.left \in Int
    BY <1>3
  <2>3. d.frame = e.frame /\ d.to = e.to /\ d.left - 1 = e.left - 1
    BY <2>1, <2>2
  <2>4. d.left = e.left
    BY <2>1, <2>2, <2>3
  <2> QED BY <2>1, <2>2, <2>3, <2>4
<1>8. IsFiniteSet(delayed') /\ Cardinality(delayed') = Cardinality(delayed)
  BY <1>2, <1>6, <1>7, ImageCounts
<1>9. ASSUME NEW e \in delayed' PROVE e \in HeldCopies /\ \E d \in delayed : e.frame = d.frame /\ e.to = d.to
  <2>1. PICK d \in delayed : e = shift[d]
    BY <1>4
  <2> QED BY <1>3, <2>1
<1> QED BY <1>1, <1>8, <1>9

LEMMA QueueKeeps == ASSUME BrokerInv, Elapse PROVE BrokerInv'
<1>1. /\ phase = "forwarding" /\ delayed' \subseteq HeldCopies /\ IsFiniteSet(delayed')
      /\ \A e \in delayed' : \E d \in delayed : e.frame = d.frame /\ e.to = d.to
      /\ UNCHANGED <<phase, conn, tracer, forwarded, dropped, born, live, backlog, greeted, wire, sent, copies>>
  BY QueueShifts DEF nodeVars, historyVars
<1>2. BrokerTyped'
  BY <1>1 DEF BrokerInv, BrokerTyped
<1>3. (OnlyTheBorn /\ FramesAreTheirSenders /\ QuietAtFirst)'
  BY <1>1 DEF BrokerInv, OnlyTheBorn, FramesAreTheirSenders, FromItsNode, QuietAtFirst
<1>4. FramesDiffer'
  <2>1. ASSUME NEW e \in delayed'
        PROVE  e.frame.id <= sent /\ \A c \in Incarnations : \A k \in 1 .. Len(wire[c]) : wire[c][k].id # e.frame.id
    <3>1. PICK d \in delayed : e.frame = d.frame
      BY <1>1
    <3> QED BY <3>1 DEF BrokerInv, FramesDiffer
  <2>2. \A c, e \in Incarnations : \A k \in 1 .. Len(wire'[c]), m \in 1 .. Len(wire'[e]) :
          wire'[c][k].id = wire'[e][m].id => c = e /\ k = m
    BY <1>1 DEF BrokerInv, FramesDiffer
  <2> QED BY <1>1, <2>1, <2>2 DEF FramesDiffer
<1> QED BY <1>2, <1>3, <1>4 DEF BrokerInv

--------------------------------------------------------------------------------
LEMMA ServiceSteps == BrokerInv /\ [BrokerNext]_vars => BrokerInv'
<1> SUFFICES ASSUME BrokerInv, [BrokerNext]_vars PROVE BrokerInv'
  OBVIOUS
<1>1. ASSUME NEW n \in Ids, Start(n) PROVE BrokerInv'
  BY <1>1, StartKeeps
<1>2. ASSUME NEW n \in Ids, Greet(n) \/ NodeDies(n) \/ Hangup(n) PROVE BrokerInv'
  BY <1>2, QuietKeeps
<1>3. ASSUME NEW n \in Ids, NEW dst \in Ids \cup {All}, dst # n, Send(n, dst) PROVE BrokerInv'
  BY <1>3, SendKeeps
<1>4. ASSUME NEW n \in Ids, Forward(n) PROVE BrokerInv'
  BY <1>4, ForwardKeeps
<1>5. CASE Accept
  BY <1>5, AcceptKeeps
<1>6. CASE DeliverDelayed
  BY <1>6, DeliverDelayedKeeps
<1>7. CASE Elapse
  BY <1>7, QueueKeeps
<1>8. CASE Control
  BY <1>8, QuietKeeps
<1>9. CASE UNCHANGED vars
  BY <1>9 DEF vars, brokerVars, nodeVars, historyVars, BrokerInv, BrokerTyped, OnlyTheBorn, FramesAreTheirSenders,
              FromItsNode, FramesDiffer, QuietAtFirst
<1> QED BY <1>1, <1>2, <1>3, <1>4, <1>5, <1>6, <1>7, <1>8, <1>9 DEF BrokerNext

\* The broker's variables keep their types; frames have ids of their own; what a
\* connection carries is its node's; nothing is forwarded while it accepts.
THEOREM BrokerInvariant == BrokerSpec => []BrokerInv
BY ServiceStarts, ServiceSteps, PTL DEF BrokerSpec

--------------------------------------------------------------------------------
(* Copies and their fates.                                                   *)

AllStay == phase = "forwarding" /\ \A n \in Ids : conn[n] # 0 /\ ~PeerGone(n)
Known == forwarded + dropped + Cardinality(delayed)

\* Who is gone is gone for good: nobody dies and comes back to the connection it
\* had.  Nodes that have all stayed have done so before, or the broker has just
\* accepted the last.
LEMMA StayersWereThere ==
  ASSUME BrokerInv, [BrokerNext]_vars, AllStay'
  PROVE  AllStay \/ phase = "accepting"
<1>1. /\ born \in [Ids -> Numbered] /\ live \in [Ids -> Numbered] /\ conn \in [Ids -> Numbered] /\ Numbered \subseteq Nat
      /\ \A n \in Ids : conn[n] <= born[n] /\ live[n] <= born[n]
  BY BrokerAssumption DEF BrokerInv, BrokerTyped, OnlyTheBorn, Numbered
<1>2. phase' = "forwarding" /\ \A n \in Ids : conn'[n] # 0 /\ live'[n] = conn'[n]
  BY DEF AllStay, PeerGone
<1>3. ASSUME UNCHANGED <<conn, live>>, phase = "forwarding" PROVE AllStay
  BY <1>2, <1>3 DEF AllStay, PeerGone
<1>4. ASSUME NEW n \in Ids, Start(n) PROVE FALSE
  <2>1. live'[n] = born[n] + 1 /\ conn'[n] = conn[n]
    BY <1>1, <1>4 DEF Start, brokerVars
  <2>2. born[n] \in Nat /\ conn[n] \in Nat /\ conn[n] <= born[n] /\ live'[n] = conn'[n]
    BY <1>1, <1>2
  <2> QED BY <2>1, <2>2
<1>5. ASSUME NEW n \in Ids, NodeDies(n) PROVE FALSE
  <2>1. live'[n] = 0
    BY <1>1, <1>5 DEF NodeDies
  <2> QED BY <1>2, <2>1
<1>6. ASSUME NEW n \in Ids, Hangup(n) PROVE FALSE
  <2>1. conn'[n] = 0
    BY <1>1, <1>6 DEF Hangup
  <2> QED BY <1>2, <2>1
<1>7. CASE \/ \E n \in Ids : Greet(n) \/ \E dst \in Ids \cup {All} : dst # n /\ Send(n, dst)
           \/ UNCHANGED vars
  <2>1. UNCHANGED <<conn, live, phase>>
    BY <1>7 DEF Greet, Send, vars, brokerVars, nodeVars
  <2> QED BY <1>2, <1>3, <2>1
<1>8. CASE (\E n \in Ids : Forward(n)) \/ DeliverDelayed \/ Elapse \/ Control
  <2>1. UNCHANGED <<conn, live>> /\ phase = "forwarding"
    BY <1>8 DEF Forward, DeliverDelayed, Elapse, Control, nodeVars
  <2> QED BY <1>3, <2>1
<1>9. CASE Accept
  BY <1>9 DEF Accept
<1> QED BY <1>4, <1>5, <1>6, <1>7, <1>8, <1>9 DEF BrokerNext

LEMMA QueueCounts ==
  ASSUME BrokerInv
  PROVE  /\ forwarded \in Nat /\ dropped \in Nat /\ copies \in Nat /\ Cardinality(delayed) \in Nat
         /\ phase = "accepting" => Known = copies
<1>1. /\ forwarded \in Nat /\ dropped \in Nat /\ copies \in Nat /\ Cardinality(delayed) \in Nat
  BY FS_CardinalityType DEF BrokerInv, BrokerTyped
<1>2. phase = "accepting" => Known = copies
  <2>1. delayed = {} => Cardinality(delayed) = 0
    BY FS_EmptySet
  <2> QED BY <2>1 DEF BrokerInv, QuietAtFirst, Known
<1> QED BY <1>1, <1>2

\* The copies of a frame that is read are new in the queue.
LEMMA ForwardCounts ==
  ASSUME BrokerInv, NEW n \in Ids, Forward(n)
  PROVE  \E new, arrived \in Nat :
           /\ copies' = copies + new /\ arrived <= new /\ Known' = Known + arrived
           /\ AllStay => arrived = new
<1>1. PICK c \in Incarnations :
        /\ phase = "forwarding" /\ wire[c] # <<>> /\ wire' = [wire EXCEPT ![c] = Tail(wire[c])]
        /\ \E now, later, lost : Handled(wire[c][1], now, later, lost)
  BY ForwardHandles
<1>2. PICK frame : frame = wire[c][1]
  OBVIOUS
<1>3. PICK now, later, lost : Handled(frame, now, later, lost)
  BY <1>1, <1>2
<1>4. 1 \in 1 .. Len(wire[c])
  BY <1>1, WireMovesUp
<1>5. /\ now \in SUBSET Ids /\ IsFiniteSet(later) /\ lost \in Nat /\ \A d \in later : d.frame = frame
      /\ Deliver(now) /\ delayed' = delayed \cup later /\ dropped' = dropped + lost
      /\ copies' = copies + lost + Cardinality(now) + Cardinality(later)
  BY <1>3 DEF Handled
<1>6. /\ forwarded \in Nat /\ dropped \in Nat /\ copies \in Nat /\ IsFiniteSet(delayed) /\ Cardinality(delayed) \in Nat
  BY QueueCounts DEF BrokerInv, BrokerTyped
<1>7. /\ forwarded' \in Nat /\ forwarded <= forwarded' /\ forwarded' <= forwarded + Cardinality(now)
      /\ (\A t \in now : ~PeerGone(t)) => forwarded' = forwarded + Cardinality(now)
  BY <1>5, <1>6, DeliverCounts
<1>8. IsFiniteSet(now) /\ Cardinality(now) \in Nat /\ Cardinality(later) \in Nat
  BY <1>5, FiniteIds, FS_CardinalityType
<1>9. Cardinality(delayed') = Cardinality(delayed) + Cardinality(later)
  <2>1. \A d \in delayed : wire[c][1].id # d.frame.id
    BY <1>4 DEF BrokerInv, FramesDiffer
  <2>2. delayed \cap later = {}
    BY <1>2, <1>5, <2>1
  <2> QED BY <1>5, <1>6, <2>2, DisjointCounts
<1>11. PICK new : new = lost + Cardinality(now) + Cardinality(later)
  OBVIOUS
<1>12. PICK arrived : arrived = lost + Cardinality(later) + (forwarded' - forwarded)
  OBVIOUS
<1>13. /\ new \in Nat /\ arrived \in Nat /\ copies' = copies + new /\ arrived <= new
  BY <1>5, <1>6, <1>7, <1>8, <1>11, <1>12
<1>14. Known' = Known + arrived
  BY <1>5, <1>6, <1>7, <1>8, <1>9, <1>12 DEF Known
<1>15. AllStay => arrived = new
  <2>1. AllStay => \A t \in now : ~PeerGone(t)
    BY <1>5 DEF AllStay
  <2>2. AllStay => forwarded' - forwarded = Cardinality(now)
    BY <1>6, <1>7, <1>8, <2>1
  <2> QED BY <1>5, <1>8, <1>11, <1>12, <2>2
<1> QED BY <1>13, <1>14, <1>15

LEMMA DueCounts ==
  ASSUME BrokerInv, DeliverDelayed
  PROVE  copies' = copies /\ Known' <= Known /\ (AllStay => Known' = Known)
<1>1. PICK d \in delayed :
        /\ delayed' = delayed \ {d} /\ Deliver({d.to} \cap Connected)
        /\ {d.to} \cap Connected \in SUBSET Ids /\ UNCHANGED <<dropped, copies>>
  BY DueGoes
<1>2. /\ forwarded \in Nat /\ dropped \in Nat /\ IsFiniteSet(delayed) /\ Cardinality(delayed) \in Nat /\ d.to \in Ids
  BY QueueCounts DEF BrokerInv, BrokerTyped, HeldCopies
<1>3. PICK tos \in SUBSET Ids : tos = {d.to} \cap Connected
  BY <1>1
<1>4. /\ forwarded' \in Nat /\ forwarded' <= forwarded + Cardinality(tos)
      /\ (\A t \in tos : ~PeerGone(t)) => forwarded' = forwarded + Cardinality(tos)
  BY <1>1, <1>2, <1>3, DeliverCounts
<1>5. Cardinality(delayed') = Cardinality(delayed) - 1
  BY <1>1, <1>2, FS_RemoveElement
<1>6. Cardinality(tos) \in Nat /\ Cardinality(tos) <= 1 /\ (AllStay => Cardinality(tos) = 1 /\ \A t \in tos : ~PeerGone(t))
  <2>1. tos = {} \/ tos = {d.to}
    BY <1>3
  <2>2. Cardinality({}) = 0 /\ \A x : Cardinality({x}) = 1
    BY FS_EmptySet, FS_Singleton
  <2>3. Cardinality({d.to}) = 1
    BY <2>2
  <2>4. AllStay => tos = {d.to} /\ ~PeerGone(d.to)
    BY <1>2, <1>3 DEF AllStay, Connected
  <2> QED BY <2>1, <2>2, <2>3, <2>4
<1>7. Known' <= Known
  BY <1>1, <1>2, <1>4, <1>5, <1>6 DEF Known
<1>8. AllStay => Known' = Known
  BY <1>1, <1>2, <1>4, <1>5, <1>6 DEF Known
<1> QED BY <1>1, <1>7, <1>8

LEMMA OthersCountNone ==
  ASSUME BrokerInv, [BrokerNext]_vars, ~DeliverDelayed, \A n \in Ids : ~Forward(n)
  PROVE  copies' = copies /\ Known' = Known
<1>1. CASE Elapse
  <2>1. Cardinality(delayed') = Cardinality(delayed) /\ UNCHANGED <<forwarded, dropped, copies>>
    BY <1>1, QueueShifts DEF historyVars
  <2> QED BY <2>1 DEF Known
<1>2. CASE ~Elapse
  <2>1. UNCHANGED <<delayed, forwarded, dropped, copies>>
    BY <1>2 DEF BrokerNext, Start, Greet, NodeDies, Send, Accept, Hangup, Control, vars, brokerVars, historyVars
  <2> QED BY <2>1 DEF Known
<1> QED BY <1>1, <1>2

\* No copy is counted twice, and as long as all nodes stay none is missing.
THEOREM CopiesAddUp == BrokerSpec => []EveryCopyHasOneFate
<1>1. EveryCopyHasOneFate <=> Known <= copies /\ (AllStay => Known = copies)
  BY DEF EveryCopyHasOneFate, Known, AllStay
<1>2. BrokerInit => EveryCopyHasOneFate
  <2> SUFFICES ASSUME BrokerInit PROVE EveryCopyHasOneFate
    OBVIOUS
  <2>1. BrokerInv /\ phase = "accepting"
    BY ServiceStarts DEF BrokerInit
  <2>2. Known = copies /\ copies \in Nat
    BY <2>1, QueueCounts
  <2> QED BY <1>1, <2>2
<1>3. BrokerInv /\ EveryCopyHasOneFate /\ [BrokerNext]_vars => EveryCopyHasOneFate'
  <2> SUFFICES ASSUME BrokerInv, EveryCopyHasOneFate, [BrokerNext]_vars PROVE EveryCopyHasOneFate'
    OBVIOUS
  <2>1. /\ Known <= copies /\ (AllStay => Known = copies) /\ Known \in Nat /\ copies \in Nat
        /\ phase = "accepting" => Known = copies
    BY <1>1, QueueCounts DEF Known
  <2>2. AllStay' => AllStay \/ phase = "accepting"
    BY StayersWereThere
  <2>3. Known' \in Int
    <3>1. BrokerInv'
      BY ServiceSteps
    <3>2. forwarded' \in Nat /\ dropped' \in Nat /\ IsFiniteSet(delayed')
      BY <3>1 DEF BrokerInv, BrokerTyped
    <3> QED BY <3>2, FS_CardinalityType DEF Known
  <2>4. SUFFICES Known' <= copies' /\ (AllStay' => Known' = copies')
    BY DEF EveryCopyHasOneFate, Known, AllStay
  <2>5. ASSUME NEW n \in Ids, Forward(n) PROVE Known' <= copies' /\ (AllStay' => Known' = copies')
    <3>1. PICK new, arrived \in Nat :
            /\ copies' = copies + new /\ arrived <= new /\ Known' = Known + arrived /\ (AllStay => arrived = new)
      BY <2>5, ForwardCounts
    <3>2. phase # "accepting"
      BY <2>5 DEF Forward
    <3> QED BY <2>1, <2>2, <3>1, <3>2
  <2>6. CASE DeliverDelayed
    <3>1. copies' = copies /\ Known' <= Known /\ (AllStay => Known' = Known) /\ phase # "accepting"
      BY <2>6, DueCounts DEF DeliverDelayed
    <3> QED BY <2>1, <2>2, <2>3, <3>1
  <2>7. CASE ~DeliverDelayed /\ \A n \in Ids : ~Forward(n)
    <3>1. copies' = copies /\ Known' = Known
      BY <2>7, OthersCountNone
    <3> QED BY <2>1, <2>2, <3>1
  <2> QED BY <2>5, <2>6, <2>7
<1> QED BY <1>2, <1>3, BrokerInvariant, PTL DEF BrokerSpec

--------------------------------------------------------------------------------
(* The drops of all links.                                                   *)

LEMMA FiniteLinks == ASSUME NEW S \in SUBSET Links PROVE IsFiniteSet(S) /\ Cardinality(S) \in Nat
<1>1. IsFiniteSet(Ids)
  BY FiniteIds
<1>2. IsFiniteSet(Ids \X Ids)
  BY <1>1, FS_Product
<1>3. IsFiniteSet(S)
  BY <1>2, FS_Subset DEF Links
<1> QED BY <1>3, FS_CardinalityType

\* The sum takes one link after the other.
NextLink(S) == CHOOSE l \in S : TRUE
LinkCounters == [Links -> [fwd : Nat, drop : Nat]]
TotalDrops(stats) == MapThenSumSet(LAMBDA l : stats[l].drop, Links)
SumRounds(stats, f) ==
  f = [S \in SUBSET Links |-> IF S = {} THEN 0 ELSE stats[CHOOSE l \in S : TRUE].drop + f[S \ {CHOOSE l \in S : TRUE}]]
Sums(stats, n, f) ==
  /\ f \in [SUBSET Links -> Nat] /\ f[{}] = 0
  /\ \A S \in SUBSET Links : S # {} /\ Cardinality(S) <= n => f[S] = stats[NextLink(S)].drop + f[S \ {NextLink(S)}]

LEMMA NextLinkCounts ==
  ASSUME NEW S \in SUBSET Links, S # {}
  PROVE  /\ NextLink(S) \in S /\ S \ {NextLink(S)} \in SUBSET Links
         /\ Cardinality(S) \in Nat \ {0} /\ Cardinality(S \ {NextLink(S)}) = Cardinality(S) - 1
<1>1. NextLink(S) \in S
  BY Zenon DEF NextLink
<1>2. IsFiniteSet(S) /\ Cardinality(S) \in Nat
  BY FiniteLinks
<1>3. Cardinality(S \ {NextLink(S)}) = Cardinality(S) - 1
  BY <1>1, <1>2, FS_RemoveElement
<1>4. Cardinality(S) # 0
  BY <1>2, FS_EmptySet
<1> QED BY <1>1, <1>2, <1>3, <1>4

\* What holds of the empty set, and of a set when it does without its next link,
\* holds of all sets of links.
LEMMA TakenOneByOne ==
  ASSUME NEW P, {} \in P, \A S \in SUBSET Links : S # {} /\ S \ {NextLink(S)} \in P => S \in P
  PROVE  \A S \in SUBSET Links : S \in P
<1> DEFINE N == Cardinality(Links)
           Q == {n \in 0 .. N : \A S \in SUBSET Links : Cardinality(S) <= n => S \in P}
<1>1. N \in Nat /\ IsFiniteSet(Links)
  BY FiniteLinks
<1>2. 0 \in Q
  <2>1. ASSUME NEW S \in SUBSET Links, Cardinality(S) <= 0 PROVE S = {}
    <3> SUFFICES ASSUME S # {} PROVE FALSE
      OBVIOUS
    <3>1. Cardinality(S) \in Nat \ {0}
      BY NextLinkCounts
    <3> QED BY <2>1, <3>1
  <2>2. 0 \in 0 .. N
    BY <1>1
  <2> HIDE DEF N
  <2> QED BY <2>1, <2>2
<1>3. ASSUME NEW n \in 0 .. N - 1, n \in Q PROVE n + 1 \in Q
  <2>1. ASSUME NEW S \in SUBSET Links, Cardinality(S) <= n + 1 PROVE S \in P
    <3>1. CASE S # {}
      <4>1. /\ S \ {NextLink(S)} \in SUBSET Links /\ Cardinality(S) \in Nat \ {0}
            /\ Cardinality(S \ {NextLink(S)}) = Cardinality(S) - 1
        BY <3>1, NextLinkCounts
      <4>2. Cardinality(S \ {NextLink(S)}) <= n
        BY <1>1, <2>1, <4>1
      <4> QED BY <1>3, <3>1, <4>1, <4>2
    <3> QED BY <3>1
  <2> QED BY <1>1, <2>1
<1>4. N \in Q
  <2> HIDE DEF Q, N
  <2>1. \A k \in 0 .. N : k \in Q
    BY <1>1, <1>2, <1>3, UpTo
  <2> QED BY <1>1, <2>1
<1>5. \A S \in SUBSET Links : Cardinality(S) <= N
  BY <1>1, FS_Subset
<1> QED BY <1>4, <1>5

\* The recursive function of the sum exists ...
LEMMA SumExists ==
  ASSUME NEW stats \in LinkCounters
  PROVE  \E f : Sums(stats, Cardinality(Links), f)
<1> DEFINE N == Cardinality(Links)
           P == {n \in 0 .. N : \E f : Sums(stats, n, f)}
<1>1. N \in Nat
  BY FiniteLinks
<1>2. 0 \in P
  <2>1. PICK f : f = [S \in SUBSET Links |-> 0]
    OBVIOUS
  <2>2. f \in [SUBSET Links -> Nat] /\ f[{}] = 0
    BY <2>1
  <2>3. ASSUME NEW S \in SUBSET Links, S # {} PROVE ~(Cardinality(S) <= 0)
    <3>1. Cardinality(S) \in Nat \ {0}
      BY <2>3, NextLinkCounts
    <3> QED BY <3>1
  <2>4. Sums(stats, 0, f)
    BY <2>2, <2>3 DEF Sums
  <2> QED BY <1>1, <2>4
<1>3. ASSUME NEW n \in 0 .. N - 1, n \in P PROVE n + 1 \in P
  <2>1. PICK f : Sums(stats, n, f)
    BY <1>3
  <2>2. f \in [SUBSET Links -> Nat] /\ f[{}] = 0 /\ n \in Nat
    BY <1>1, <2>1 DEF Sums
  <2>3. PICK g : g = [S \in SUBSET Links |-> IF S # {} /\ Cardinality(S) = n + 1
                                             THEN stats[NextLink(S)].drop + f[S \ {NextLink(S)}] ELSE f[S]]
    OBVIOUS
  <2>4. ASSUME NEW S \in SUBSET Links, S # {} PROVE stats[NextLink(S)].drop \in Nat /\ f[S \ {NextLink(S)}] \in Nat
    <3>1. NextLink(S) \in Links /\ S \ {NextLink(S)} \in SUBSET Links
      BY <2>4, NextLinkCounts
    <3> QED BY <2>2, <3>1 DEF LinkCounters
  <2>5. g \in [SUBSET Links -> Nat] /\ g[{}] = 0
    BY <2>2, <2>3, <2>4
  <2>6. ASSUME NEW S \in SUBSET Links, S # {}, Cardinality(S) <= n + 1
        PROVE  g[S] = stats[NextLink(S)].drop + g[S \ {NextLink(S)}]
    <3>1. /\ S \ {NextLink(S)} \in SUBSET Links /\ Cardinality(S) \in Nat \ {0}
          /\ Cardinality(S \ {NextLink(S)}) = Cardinality(S) - 1
      BY <2>6, NextLinkCounts
    <3>2. Cardinality(S \ {NextLink(S)}) # n + 1
      BY <2>2, <2>6, <3>1
    <3>3. g[S \ {NextLink(S)}] = f[S \ {NextLink(S)}]
      BY <2>3, <3>1, <3>2
    <3>4. CASE Cardinality(S) = n + 1
      BY <2>3, <2>6, <3>3, <3>4
    <3>5. CASE Cardinality(S) # n + 1
      <4>1. Cardinality(S) <= n
        BY <2>2, <2>6, <3>1, <3>5
      <4>2. f[S] = stats[NextLink(S)].drop + f[S \ {NextLink(S)}]
        BY <2>1, <2>6, <4>1 DEF Sums
      <4>3. g[S] = f[S]
        BY <2>3, <3>5
      <4> QED BY <3>3, <4>2, <4>3
    <3> QED BY <3>4, <3>5
  <2>7. Sums(stats, n + 1, g)
    BY <2>5, <2>6 DEF Sums
  <2> QED BY <1>1, <2>7
<1>4. N \in P
  <2> HIDE DEF P, N
  <2>1. \A k \in 0 .. N : k \in P
    BY <1>1, <1>2, <1>3, UpTo
  <2> QED BY <1>1, <2>1
<1> QED BY <1>4

IsTotal(stats, f) ==
  /\ f \in [SUBSET Links -> Nat] /\ f[{}] = 0 /\ TotalDrops(stats) = f[Links]
  /\ \A S \in SUBSET Links : S # {} => f[S] = stats[NextLink(S)].drop + f[S \ {NextLink(S)}]

\* ... and the total is its value for all links.
LEMMA TotalIsRecursive ==
  ASSUME NEW stats \in LinkCounters
  PROVE  \E f : IsTotal(stats, f)
<1>1. PICK g : Sums(stats, Cardinality(Links), g)
  BY SumExists
<1>2. g \in [SUBSET Links -> Nat] /\ g[{}] = 0
  BY <1>1 DEF Sums
<1>3. ASSUME NEW S \in SUBSET Links, S # {} PROVE g[S] = stats[NextLink(S)].drop + g[S \ {NextLink(S)}]
  <2>1. IsFiniteSet(Links) /\ Cardinality(Links) \in Nat
    BY FiniteLinks
  <2>2. Cardinality(S) <= Cardinality(Links)
    BY <2>1, FS_Subset
  <2> QED BY <1>1, <1>3, <2>2 DEF Sums
<1>4. SumRounds(stats, g)
  <2>1. g = [S \in SUBSET Links |-> g[S]]
    BY <1>2
  <2>2. g = [S \in SUBSET Links |-> IF S = {} THEN 0 ELSE stats[NextLink(S)].drop + g[S \ {NextLink(S)}]]
    BY <1>2, <1>3, <2>1
  <2> QED BY <2>2, Zenon DEF SumRounds, NextLink
<1>5. PICK f : f = CHOOSE h : SumRounds(stats, h)
  OBVIOUS
<1>6. SumRounds(stats, f)
  BY <1>4, <1>5, Zenon
<1>7. TotalDrops(stats) = f[Links]
  BY <1>5, Zenon DEF TotalDrops, SumRounds, MapThenSumSet, MapThenFoldSet
<1>8. DOMAIN f = SUBSET Links
  BY <1>6, Zenon DEF SumRounds
<1>9. ASSUME NEW S \in SUBSET Links PROVE f[S] = IF S = {} THEN 0 ELSE stats[NextLink(S)].drop + f[S \ {NextLink(S)}]
  BY <1>6, Zenon DEF SumRounds, NextLink
<1>10. \A S \in SUBSET Links : f[S] \in Nat
  <2> DEFINE P == {S \in SUBSET Links : f[S] \in Nat}
  <2>1. {} \in P
    BY <1>9
  <2>2. ASSUME NEW S \in SUBSET Links, S # {}, S \ {NextLink(S)} \in P PROVE S \in P
    <3>1. NextLink(S) \in Links
      BY <2>2, NextLinkCounts
    <3>2. stats[NextLink(S)].drop \in Nat
      BY <3>1 DEF LinkCounters
    <3> QED BY <1>9, <2>2, <3>2
  <2>3. \A S \in SUBSET Links : S \in P
    <3> HIDE DEF P
    <3> QED BY <2>1, <2>2, TakenOneByOne
  <2> QED BY <2>3
<1>11. f \in [SUBSET Links -> Nat] /\ f[{}] = 0
  <2>1. f = [S \in SUBSET Links |-> f[S]]
    BY <1>6, <1>8, Zenon DEF SumRounds
  <2>2. f[{}] = 0
    BY <1>9
  <2> QED BY <1>10, <2>1, <2>2
<1>12. IsTotal(stats, f)
  BY <1>7, <1>9, <1>11 DEF IsTotal
<1> QED BY <1>12

\* A frame that dies on some links adds one to the drops of each.
LEMMA DeathsAdd ==
  ASSUME NEW stats \in LinkCounters, NEW later \in LinkCounters, NEW died \in SUBSET Links,
         \A l \in Links : later[l].drop = stats[l].drop + (IF l \in died THEN 1 ELSE 0)
  PROVE  TotalDrops(later) = TotalDrops(stats) + Cardinality(died)
<1>1. PICK f : IsTotal(stats, f)
  BY TotalIsRecursive
<1>2. PICK g : IsTotal(later, g)
  BY TotalIsRecursive
<1>3. f \in [SUBSET Links -> Nat] /\ f[{}] = 0 /\ g \in [SUBSET Links -> Nat] /\ g[{}] = 0
  BY <1>1, <1>2 DEF IsTotal
<1> DEFINE P == {S \in SUBSET Links : g[S] = f[S] + Cardinality(S \cap died)}
<1>4. {} \in P
  <2>1. Cardinality({} \cap died) = 0
    BY FS_EmptySet
  <2> QED BY <1>3, <2>1
<1>5. ASSUME NEW S \in SUBSET Links, S # {}, S \ {NextLink(S)} \in P PROVE S \in P
  <2>1. PICK l, R : l = NextLink(S) /\ R = S \ {NextLink(S)}
    OBVIOUS
  <2>2. l \in S /\ R \in SUBSET Links /\ R = S \ {l}
    BY <1>5, <2>1, NextLinkCounts
  <2>3. g[R] = f[R] + Cardinality(R \cap died)
    BY <1>5, <2>1
  <2>4. f[S] = stats[l].drop + f[R]
    BY <1>1, <1>5, <2>1 DEF IsTotal
  <2>5. g[S] = later[l].drop + g[R]
    BY <1>2, <1>5, <2>1 DEF IsTotal
  <2>6. IsFiniteSet(R \cap died) /\ Cardinality(R \cap died) \in Nat
    BY <2>2, FiniteLinks
  <2>7. Cardinality(S \cap died) = Cardinality(R \cap died) + (IF l \in died THEN 1 ELSE 0)
    <3>1. CASE l \in died
      <4>1. S \cap died = (R \cap died) \cup {l} /\ l \notin R \cap died
        BY <2>2, <3>1
      <4>2. Cardinality((R \cap died) \cup {l}) = Cardinality(R \cap died) + 1
        BY <2>6, <4>1, FS_AddElement
      <4> QED BY <3>1, <4>1, <4>2
    <3>2. CASE l \notin died
      <4>1. S \cap died = R \cap died
        BY <2>2, <3>2
      <4>2. Cardinality(S \cap died) = Cardinality(R \cap died)
        BY <4>1
      <4> QED BY <2>6, <3>2, <4>2
    <3> QED BY <3>1, <3>2
  <2>8. stats[l].drop \in Nat /\ f[R] \in Nat /\ later[l].drop = stats[l].drop + (IF l \in died THEN 1 ELSE 0)
    BY <1>3, <2>2 DEF LinkCounters
  <2> QED BY <2>3, <2>4, <2>5, <2>6, <2>7, <2>8
<1>6. \A S \in SUBSET Links : S \in P
  <2> HIDE DEF P
  <2> QED BY <1>4, <1>5, TakenOneByOne
<1>8. g[Links] = f[Links] + Cardinality(Links \cap died)
  BY <1>6
<1>9. Links \cap died = died
  OBVIOUS
<1> QED BY <1>1, <1>2, <1>8, <1>9 DEF IsTotal

\* Links that have dropped nothing have no total.
LEMMA NothingAdds ==
  ASSUME NEW stats \in LinkCounters, \A l \in Links : stats[l].drop = 0
  PROVE  TotalDrops(stats) = 0
<1>1. PICK f : IsTotal(stats, f)
  BY TotalIsRecursive
<1> DEFINE P == {S \in SUBSET Links : f[S] = 0}
<1>2. {} \in P
  BY <1>1 DEF IsTotal
<1>3. ASSUME NEW S \in SUBSET Links, S # {}, S \ {NextLink(S)} \in P PROVE S \in P
  <2>1. stats[NextLink(S)].drop = 0
    BY <1>3, NextLinkCounts
  <2>2. f[S] = stats[NextLink(S)].drop + f[S \ {NextLink(S)}]
    BY <1>1, <1>3 DEF IsTotal
  <2> QED BY <1>3, <2>1, <2>2
<1>4. \A S \in SUBSET Links : S \in P
  <2> HIDE DEF P
  <2> QED BY <1>2, <1>3, TakenOneByOne
<1>5. f[Links] = 0
  BY <1>4
<1> QED BY <1>1, <1>5 DEF IsTotal

\* Every drop is on a link's account or had no route.  The routes of the relay and
\* the star's copies go over links that there are.
Attributed ==
  /\ up \in SUBSET Links /\ noRoute \in Nat /\ dropped \in Nat /\ linkStats \in LinkCounters
  /\ tracer => dropped = noRoute + TotalDrops(linkStats)

LEMMA CountAttributes ==
  ASSUME Attributed, NEW passed, NEW died \in SUBSET Links, Count(passed, died), UNCHANGED <<up, tracer, noRoute>>
  PROVE  Attributed'
<1>1. /\ dropped' = dropped + Cardinality(died)
      /\ linkStats' = IF tracer
                      THEN [l \in Links |-> [fwd  |-> linkStats[l].fwd + (IF l \in passed THEN 1 ELSE 0),
                                             drop |-> linkStats[l].drop + (IF l \in died THEN 1 ELSE 0)]]
                      ELSE linkStats
  BY DEF Count
<1>2. Cardinality(died) \in Nat
  BY FiniteLinks
<1>3. up' \in SUBSET Links /\ noRoute' \in Nat /\ dropped' \in Nat
  BY <1>1, <1>2 DEF Attributed
<1>4. CASE ~tracer
  BY <1>1, <1>3, <1>4 DEF Attributed
<1>5. CASE tracer
  <2>1. ASSUME NEW l \in Links
        PROVE  /\ linkStats[l].fwd + (IF l \in passed THEN 1 ELSE 0) \in Nat
               /\ linkStats[l].drop + (IF l \in died THEN 1 ELSE 0) \in Nat
    <3>1. linkStats[l].fwd \in Nat /\ linkStats[l].drop \in Nat
      BY DEF Attributed, LinkCounters
    <3> QED BY <3>1
  <2>2. linkStats' \in LinkCounters
    BY <1>1, <1>5, <2>1 DEF LinkCounters
  <2>3. \A l \in Links : linkStats'[l].drop = linkStats[l].drop + (IF l \in died THEN 1 ELSE 0)
    BY <1>1, <1>5
  <2>4. PICK before \in LinkCounters : before = linkStats
    BY DEF Attributed
  <2>5. PICK after \in LinkCounters : after = linkStats'
    BY <2>2
  <2>6. TotalDrops(after) = TotalDrops(before) + Cardinality(died)
    BY <2>3, <2>4, <2>5, DeathsAdd
  <2>7. PICK f : IsTotal(before, f)
    BY TotalIsRecursive
  <2>8. TotalDrops(before) \in Nat
    BY <2>7 DEF IsTotal
  <2>9. dropped = noRoute + TotalDrops(before) /\ noRoute \in Nat /\ dropped \in Nat
    BY <1>5, <2>4 DEF Attributed
  <2>10. dropped' = noRoute' + TotalDrops(after)
    BY <1>1, <1>2, <2>6, <2>8, <2>9
  <2> QED BY <1>3, <2>2, <2>5, <2>10 DEF Attributed
<1> QED BY <1>4, <1>5

LEMMA StarAttributes ==
  ASSUME Attributed, NEW n \in Ids, NEW frame, Star(n, frame), UNCHANGED <<up, tracer>>
  PROVE  Attributed'
<1> DEFINE S == Targets(frame, n)
<1>1. PICK fate \in [S -> {-1} \cup 0 .. MaxDelay] :
        Count({<<n, t>> : t \in {x \in S : fate[x] >= 0}}, {<<n, t>> : t \in {x \in S : fate[x] < 0}})
  BY DEF Star
<1>2. UNCHANGED noRoute
  BY DEF Star
<1>3. \A t \in S : t \in Ids /\ t # n
  BY DEF Targets, Connected
<1>4. PICK died : died = {<<n, t>> : t \in {x \in S : fate[x] < 0}}
  OBVIOUS
<1>5. died \in SUBSET Links
  <2> HIDE DEF S
  <2> QED BY <1>3, <1>4 DEF Links
<1>6. PICK passed : passed = {<<n, t>> : t \in {x \in S : fate[x] >= 0}}
  OBVIOUS
<1>7. Count(passed, died)
  BY <1>1, <1>4, <1>6
<1> QED BY <1>2, <1>5, <1>7, CountAttributes

LEMMA RelayAttributes ==
  ASSUME Attributed, NEW n \in Ids, NEW frame, Relays(frame, n), Relay(n, frame), UNCHANGED <<up, tracer>>
  PROVE  Attributed'
<1> DEFINE path == TracePath(up, n, frame.dst)
           hop(i) == <<path[i], path[i + 1]>>
           last == Len(path) - 1
<1>1. frame.dst \in Ids
  BY DEF Relays, Connected
<1>2. CASE path = <<>>
  <2>1. dropped' = dropped + 1 /\ noRoute' = noRoute + 1 /\ UNCHANGED linkStats
    BY <1>2 DEF Relay
  <2>2. PICK stats \in LinkCounters : stats = linkStats
    BY DEF Attributed
  <2>3. PICK f : IsTotal(stats, f)
    BY TotalIsRecursive
  <2>4. TotalDrops(stats) \in Nat
    BY <2>3 DEF IsTotal
  <2> QED BY <2>1, <2>2, <2>4 DEF Attributed
<1>3. CASE path # <<>>
  <2>1. \A i \in 1 .. last : hop(i) \in up
    <3>1. path # <<>> => IsRoute(up, path, n, frame.dst)
      BY <1>1, TracedRouteIsShortest
    <3> QED BY <1>3, <3>1 DEF IsRoute
  <2>2. /\ UNCHANGED noRoute
        /\ \/ \E k \in 1 .. last : Count({hop(i) : i \in 1 .. k - 1}, {hop(k)})
           \/ Count({hop(i) : i \in 1 .. last}, {})
    BY <1>3 DEF Relay
  <2> HIDE DEF path
  <2>3. CASE \E k \in 1 .. last : Count({hop(i) : i \in 1 .. k - 1}, {hop(k)})
    <3>1. PICK k \in 1 .. last : Count({hop(i) : i \in 1 .. k - 1}, {hop(k)})
      BY <2>3
    <3>2. {hop(k)} \in SUBSET Links
      BY <2>1 DEF Attributed
    <3> HIDE DEF hop, last
    <3> QED BY <2>2, <3>1, <3>2, CountAttributes
  <2>4. CASE Count({hop(i) : i \in 1 .. last}, {})
    <3> HIDE DEF hop, last
    <3> QED BY <2>2, <2>4, CountAttributes
  <2> QED BY <2>2, <2>3, <2>4
<1> QED BY <1>2, <1>3

\* In tracer mode every drop is on some link's account or had no route, whatever
\* the topology and its changes, and whoever comes and goes.
THEOREM EveryDropHasItsAccount == BrokerSpec => []DropsAreAttributed
<1>1. BrokerInit => Attributed
  <2> SUFFICES ASSUME BrokerInit PROVE Attributed
    OBVIOUS
  <2>1. up = TopologyFromName[Preset].up
    BY DEF BrokerInit, ApplyTopology
  <2>2. up \in SUBSET Links
    BY <2>1, BrokerAssumption DEF TopologyFromName, FullyConnected, LinearChain, StarFromLeader, VanWithPhone
  <2>3. /\ linkStats = [l \in Links |-> [fwd |-> 0, drop |-> 0]] /\ noRoute = 0 /\ dropped = 0
    BY DEF BrokerInit
  <2>4. PICK stats \in LinkCounters : stats = linkStats /\ \A l \in Links : stats[l].drop = 0
    BY <2>3 DEF LinkCounters
  <2>5. TotalDrops(stats) = 0
    BY <2>4, NothingAdds
  <2> QED BY <2>2, <2>3, <2>4, <2>5 DEF Attributed
<1>2. Attributed /\ [BrokerNext]_vars => Attributed'
  <2> SUFFICES ASSUME Attributed, [BrokerNext]_vars PROVE Attributed'
    OBVIOUS
  <2>1. ASSUME UNCHANGED <<up, tracer, dropped, noRoute, linkStats>> PROVE Attributed'
    BY <2>1 DEF Attributed
  <2>2. CASE \/ \E n \in Ids : \/ Start(n) \/ Greet(n) \/ NodeDies(n) \/ Hangup(n)
                               \/ \E dst \in Ids \cup {All} : dst # n /\ Send(n, dst)
             \/ Accept \/ DeliverDelayed \/ Elapse \/ UNCHANGED vars
    <3>1. UNCHANGED <<up, tracer, dropped, noRoute, linkStats>>
      BY <2>2 DEF Start, Greet, NodeDies, Hangup, Send, Accept, DeliverDelayed, Elapse, vars, brokerVars, historyVars
    <3> QED BY <2>1, <3>1
  <2>3. ASSUME NEW n \in Ids, Forward(n) PROVE Attributed'
    <3>1. PICK frame : /\ IF Relays(frame, n) THEN Relay(n, frame) ELSE Star(n, frame)
                       /\ UNCHANGED <<up, tracer>>
      BY <2>3 DEF Forward
    <3>2. CASE Relays(frame, n)
      BY <3>1, <3>2, RelayAttributes
    <3>3. CASE ~Relays(frame, n)
      <4>1. Star(n, frame)
        BY <3>1, <3>3
      <4> QED BY <3>1, <4>1, StarAttributes
    <3> QED BY <3>2, <3>3
  <2>4. CASE Control
    <3>1. UNCHANGED <<tracer, dropped, noRoute, linkStats>>
      BY <2>4 DEF Control
    <3>2. up' \in SUBSET Links
      BY <2>4 DEF Control, SetLink, Attributed
    <3> QED BY <3>1, <3>2 DEF Attributed
  <2> QED BY <2>2, <2>3, <2>4 DEF BrokerNext
<1>3. Attributed => DropsAreAttributed
  BY DEF Attributed, DropsAreAttributed, TotalDrops, MapThenSumSet, MapThenFoldSet
<1> QED BY <1>1, <1>2, <1>3, PTL DEF BrokerSpec
===============================================================================
