-------------------------- MODULE OfflineBuffer_proofs -------------------------
(***************************************************************************)
(* Theorems of OfflineBuffer for any vans, limits and ages.                *)
(***************************************************************************)
EXTENDS OfflineBuffer, FiniteSetTheorems, WellFoundedInduction, TLAPS

\* Between two calls: the properties, the finiteness that counting needs, and
\* cursors that do not run ahead.
CursorsInRange ==
  \A c \in Readers : /\ cursor[c] < next
                     /\ \A s \in seen[c] : s <= cursor[c]

BufferInv ==
  /\ BufferTypeOK
  /\ IsFiniteSet(events)
  /\ CountIsExact
  /\ WithinLimits
  /\ IdsAreUnique
  /\ CursorsInRange
  /\ NoneSkipped

--------------------------------------------------------------------------------
\* A nonempty set of naturals has a least element.
LEMMA LeastNatural ==
  ASSUME NEW S \in SUBSET Nat, S # {}
  PROVE  \E x \in S : \A y \in S : x <= y
<1>1. \E x \in S : \A y \in S : ~ (<<y, x>> \in OpToRel(<, Nat))
  BY WFMin, NatLessThanWellFounded, Zenon
<1>2. PICK x \in S : \A y \in S : ~ (<<y, x>> \in OpToRel(<, Nat))
  BY <1>1
<1>3. ASSUME NEW y \in S PROVE x <= y
  <2>1. x \in Nat /\ y \in Nat
    OBVIOUS
  <2>2. ~(y < x)
    BY <1>2, <2>1 DEF OpToRel
  <2> QED BY <2>1, <2>2
<1> QED BY <1>3

\* A nonempty set of naturals with an upper bound has a greatest element.
LEMMA GreatestNatural ==
  ASSUME NEW S \in SUBSET Nat, S # {}, NEW n \in Nat, \A s \in S : s <= n
  PROVE  \E x \in S : \A y \in S : y <= x
<1> DEFINE U == {m \in Nat : \A s \in S : s <= m}
<1>1. U \in SUBSET Nat /\ n \in U
  OBVIOUS
<1>2. PICK m \in U : \A k \in U : m <= k
  BY <1>1, LeastNatural
<1>3. m \in S
  <2> SUFFICES ASSUME m \notin S PROVE FALSE
    OBVIOUS
  <2>1. PICK s \in S : TRUE
    OBVIOUS
  <2>2. \A t \in S : t <= m - 1 /\ t \in Nat
    BY <1>2
  <2>3. m - 1 \in Nat
    BY <2>1, <2>2, <1>2
  <2>4. m - 1 \in U
    BY <2>2, <2>3
  <2> QED BY <1>2, <2>4
<1> QED BY <1>2, <1>3

\* In a nonempty set of events with ids of their own, the oldest is one event.
LEMMA OldestIsOne ==
  ASSUME NEW S, S # {}, \A e \in S : e.seq \in Nat,
         \A e, f \in S : e.seq = f.seq => e = f
  PROVE  \E e \in S : Oldest(S) = {e} /\ \A f \in S : f # e => e.seq < f.seq
<1> DEFINE Ids == {e.seq : e \in S}
<1>1. Ids \in SUBSET Nat /\ Ids # {}
  OBVIOUS
<1> HIDE DEF Ids
<1>2. PICK i \in Ids : \A j \in Ids : i <= j
  BY <1>1, LeastNatural
<1>3. PICK e \in S : e.seq = i
  BY DEF Ids
<1>4. \A f \in S : e.seq <= f.seq
  BY <1>2, <1>3 DEF Ids
<1>5. Oldest(S) = {e}
  BY <1>4 DEF Oldest
<1>6. \A f \in S : f # e => e.seq < f.seq
  BY <1>4
<1> QED BY <1>5, <1>6

\* Taking out what a full van loses, and counting it.
LEMMA DroppedCounts ==
  ASSUME NEW S, NEW D \in SUBSET S, IsFiniteSet(S)
  PROVE  /\ IsFiniteSet(D) /\ IsFiniteSet(S \ D)
         /\ Cardinality(D) \in Nat /\ Cardinality(S) \in Nat
         /\ Cardinality(S \ D) = Cardinality(S) - Cardinality(D)
<1>1. IsFiniteSet(D) /\ IsFiniteSet(S \ D)
  BY FS_Subset
<1>2. Cardinality(D) \in Nat /\ Cardinality(S \ D) \in Nat /\ Cardinality(S) \in Nat
  BY <1>1, FS_CardinalityType
<1>3. (S \ D) \cup D = S /\ (S \ D) \cap D = {}
  OBVIOUS
<1>4. Cardinality((S \ D) \cup D)
        = Cardinality(S \ D) + Cardinality(D) - Cardinality((S \ D) \cap D)
  BY <1>1, FS_Union
<1>5. Cardinality({}) = 0
  BY FS_EmptySet
<1>6. Cardinality(S) = Cardinality(S \ D) + Cardinality(D) - 0
  BY <1>3, <1>4, <1>5, Zenon
<1>7. Cardinality(S \ D) = Cardinality(S) - Cardinality(D)
  BY <1>2, <1>6
<1> QED BY <1>1, <1>2, <1>7

\* Growing older changes no id, no van and no number of events.
LEMMA OlderKeepsIds ==
  ASSUME NEW e \in Event
  PROVE  /\ Older(e) \in Event
         /\ Older(e).seq = e.seq /\ Older(e).van = e.van
         /\ Older(e).age = IF e.age > MaxAge THEN e.age ELSE e.age + 1
<1>1. e = [seq |-> e.seq, van |-> e.van, age |-> e.age]
      /\ e.seq \in Nat /\ e.van \in VanIds /\ e.age \in Ages
  BY DEF Event
<1>2. Older(e) = [seq |-> e.seq, van |-> e.van,
                  age |-> IF e.age > MaxAge THEN e.age ELSE e.age + 1]
  BY <1>1 DEF Older
<1> QED BY <1>1, <1>2, LimitsAssumption DEF Event, Ages

LEMMA OlderCounts ==
  ASSUME NEW S \in SUBSET Event, IsFiniteSet(S)
  PROVE  LET T == {Older(e) : e \in S}
         IN /\ IsFiniteSet(T) /\ Cardinality(T) <= Cardinality(S)
            /\ (\A e, f \in S : e.seq = f.seq => e = f)
                 => Cardinality(T) = Cardinality(S)
<1> DEFINE T == {Older(e) : e \in S}
           g == [e \in S |-> Older(e)]
<1>1. g \in Surjection(S, T)
  BY DEF Surjection
<1>2. /\ IsFiniteSet(T) /\ Cardinality(T) <= Cardinality(S)
      /\ Cardinality(T) = Cardinality(S) <=> g \in Injection(S, T)
  BY <1>1, FS_Surjection, Zenon
<1>3. ASSUME \A e, f \in S : e.seq = f.seq => e = f
      PROVE  g \in Injection(S, T)
  <2>1. \A e, f \in S : Older(e) = Older(f) => e.seq = f.seq
    BY OlderKeepsIds
  <2>2. g \in [S -> T]
    OBVIOUS
  <2>3. \A e, f \in S : g[e] = g[f] => e = f
    BY <1>3, <2>1
  <2> QED BY <2>2, <2>3 DEF Injection, IsInjective
<1> QED BY <1>2, <1>3

--------------------------------------------------------------------------------
(***************************************************************************)
(* The invariant, one lemma per kind of step.                              *)
(***************************************************************************)
LEMMA InitInv == BufferInit => BufferInv
<1> SUFFICES ASSUME BufferInit PROVE BufferInv
  OBVIOUS
<1>1. IsFiniteSet(events) /\ Cardinality(events) = 0
  BY FS_EmptySet DEF BufferInit
<1>2. \A v \in VanIds : Of(v, events) = {}
  BY DEF BufferInit, Of
<1>3. WithinLimits
  BY <1>1, <1>2, LimitsAssumption DEF BufferInit, WithinLimits
<1> QED BY <1>1, <1>3 DEF BufferInit, BufferInv, BufferTypeOK, CountIsExact,
             IdsAreUnique, CursorsInRange, NoneSkipped, Batch

\* clear(), clearAll() and evict() only take events out, and count them.
LEMMA ShrinkInv ==
  ASSUME BufferInv, events' \subseteq events,
         total' = total - Cardinality(events \ events'),
         next' = next, cursor' = cursor, seen' = seen
  PROVE  BufferInv'
<1>1. /\ IsFiniteSet(events') /\ Cardinality(events') \in Nat
      /\ Cardinality(events') = Cardinality(events) - Cardinality(events \ events')
      /\ Cardinality(events') <= Cardinality(events) /\ Cardinality(events) \in Nat
  <2>1. IsFiniteSet(events) /\ (events \ events') \in SUBSET events
    BY DEF BufferInv
  <2>2. events \ (events \ events') = events'
    OBVIOUS
  <2>3. /\ IsFiniteSet(events') /\ Cardinality(events) \in Nat
        /\ Cardinality(events') = Cardinality(events) - Cardinality(events \ events')
    BY <2>1, <2>2, DroppedCounts
  <2> QED BY <2>1, <2>3, FS_Subset, FS_CardinalityType
<1>2. CountIsExact' /\ total' \in Nat
  BY <1>1 DEF BufferInv, CountIsExact
<1>3. WithinLimits'
  <2>1. ASSUME NEW v \in VanIds PROVE Cardinality(Of(v, events')) <= PerVan
    <3>1. IsFiniteSet(Of(v, events)) /\ Of(v, events') \in SUBSET Of(v, events)
      BY FS_Subset DEF BufferInv, Of
    <3>2. /\ Cardinality(Of(v, events')) <= Cardinality(Of(v, events))
          /\ Cardinality(Of(v, events')) \in Nat /\ Cardinality(Of(v, events)) \in Nat
      BY <3>1, FS_Subset, FS_CardinalityType
    <3> QED BY <3>2, LimitsAssumption DEF BufferInv, WithinLimits
  <2> QED BY <2>1, <1>1, LimitsAssumption DEF BufferInv, WithinLimits
<1>4. BufferTypeOK'
  BY <1>2 DEF BufferInv, BufferTypeOK
<1>5. IdsAreUnique' /\ CursorsInRange'
  BY DEF BufferInv, IdsAreUnique, CursorsInRange
<1>6. NoneSkipped'
  BY DEF BufferInv, NoneSkipped, Batch
<1> QED BY <1>1, <1>2, <1>3, <1>4, <1>5, <1>6 DEF BufferInv

LEMMA FetchInv == ASSUME BufferInv, NEW c \in Readers, Fetch(c) PROVE BufferInv'
<1> DEFINE batch == Batch(c, cursor[c])
           ids == {e.seq : e \in batch}
<1>1. ids \in SUBSET Nat /\ ids # {} /\ \A i \in ids : i <= next - 1 /\ cursor[c] < i
  BY DEF Fetch, Batch, BufferInv, BufferTypeOK, Event, IdsAreUnique
<1>2. next - 1 \in Nat
  BY DEF BufferInv, BufferTypeOK
<1>3. \E x \in ids : \A y \in ids : y <= x
  <2> HIDE DEF ids
  <2> QED BY <1>1, <1>2, GreatestNatural
<1>4. LastOf(batch) \in ids /\ \A i \in ids : i <= LastOf(batch)
  <2>1. LastOf(batch) = CHOOSE s \in ids : \A e \in batch : e.seq <= s
    BY DEF LastOf
  <2>2. \E s \in ids : \A e \in batch : e.seq <= s
    BY <1>3
  <2> QED BY <2>1, <2>2
<1> DEFINE last == LastOf(batch)
<1>5. last \in Nat /\ last < next /\ cursor[c] < last
  BY <1>1, <1>2, <1>4 DEF BufferInv, BufferTypeOK
<1>6. /\ cursor' = [cursor EXCEPT ![c] = last]
      /\ seen' = [seen EXCEPT ![c] = seen[c] \cup ids]
      /\ UNCHANGED <<events, next, total>>
  BY DEF Fetch
<1> HIDE DEF batch, ids, last
<1>7. BufferTypeOK'
  BY <1>1, <1>5, <1>6 DEF BufferInv, BufferTypeOK
<1>8. CursorsInRange'
  <2> SUFFICES ASSUME NEW d \in Readers
               PROVE  /\ cursor'[d] < next'
                      /\ \A s \in seen'[d] : s <= cursor'[d]
    BY DEF CursorsInRange
  <2>1. CASE d = c
    <3>1. cursor'[d] = last /\ seen'[d] = seen[c] \cup ids
      BY <2>1, <1>6 DEF BufferInv, BufferTypeOK
    <3>2. \A s \in seen[c] : s <= cursor[c] /\ s \in Nat /\ cursor[c] \in Nat
      BY DEF BufferInv, BufferTypeOK, CursorsInRange
    <3>3. \A i \in ids : i <= last
      BY <1>4 DEF last
    <3> QED BY <3>1, <3>2, <3>3, <1>5, <1>6
  <2>2. CASE d # c
    BY <2>2, <1>6 DEF BufferInv, BufferTypeOK, CursorsInRange
  <2> QED BY <2>1, <2>2
<1>9. NoneSkipped'
  <2> SUFFICES ASSUME NEW d \in Readers, NEW e \in Batch(d, 0),
                      e.seq <= cursor'[d]
               PROVE  e.seq \in seen'[d]
    BY <1>6 DEF NoneSkipped, Batch
  <2>1. CASE d # c
    BY <2>1, <1>6 DEF BufferInv, BufferTypeOK, NoneSkipped
  <2>2. CASE d = c /\ e.seq <= cursor[c]
    BY <2>2, <1>6 DEF BufferInv, BufferTypeOK, NoneSkipped
  <2>3. CASE d = c /\ ~(e.seq <= cursor[c])
    <3>1. e.seq \in Nat /\ cursor[c] \in Nat
      BY DEF BufferInv, BufferTypeOK, Event, Batch
    <3>2. e \in batch
      BY <2>3, <3>1 DEF batch, Batch
    <3> QED BY <2>3, <3>2, <1>6 DEF ids, BufferInv, BufferTypeOK
  <2> QED BY <2>1, <2>2, <2>3
<1> QED BY <1>6, <1>7, <1>8, <1>9 DEF BufferInv, CountIsExact, WithinLimits,
                                      IdsAreUnique

LEMMA ElapseInv == ASSUME BufferInv, Elapse PROVE BufferInv'
<1>1. /\ events \in SUBSET Event /\ IsFiniteSet(events)
      /\ \A e, f \in events : e.seq = f.seq => e = f
      /\ events' = {Older(e) : e \in events}
      /\ UNCHANGED <<next, total, cursor, seen>>
  BY DEF BufferInv, BufferTypeOK, IdsAreUnique, Elapse
<1>2. IsFiniteSet(events') /\ Cardinality(events') = Cardinality(events)
  BY <1>1, OlderCounts, Zenon
<1>3. \A e \in events : e \in Event
  BY <1>1
<1>4. BufferTypeOK'
  BY <1>1, <1>3, OlderKeepsIds DEF BufferInv, BufferTypeOK
<1>5. WithinLimits'
  <2>1. ASSUME NEW v \in VanIds PROVE Cardinality(Of(v, events')) <= PerVan
    <3>1. Of(v, events') = {Older(e) : e \in Of(v, events)}
      BY <1>1, <1>3, OlderKeepsIds DEF Of
    <3>2. Of(v, events) \in SUBSET Event /\ IsFiniteSet(Of(v, events))
      BY <1>1, FS_Subset DEF Of
    <3>3. IsFiniteSet(Of(v, events'))
          /\ Cardinality(Of(v, events')) <= Cardinality(Of(v, events))
      BY <3>1, <3>2, OlderCounts, Zenon
    <3>4. Cardinality(Of(v, events')) \in Nat /\ Cardinality(Of(v, events)) \in Nat
      BY <3>2, <3>3, FS_CardinalityType
    <3>5. Cardinality(Of(v, events)) <= PerVan
      BY DEF BufferInv, WithinLimits
    <3> QED BY <3>3, <3>4, <3>5, LimitsAssumption
  <2> QED BY <2>1, <1>2 DEF BufferInv, WithinLimits
<1>6. IdsAreUnique'
  BY <1>1, <1>3, OlderKeepsIds DEF BufferInv, IdsAreUnique
<1>8. CursorsInRange'
  BY <1>1 DEF BufferInv, CursorsInRange
<1>9. NoneSkipped'
  BY <1>1, <1>3, OlderKeepsIds DEF BufferInv, NoneSkipped, Batch
<1> QED BY <1>1, <1>2, <1>4, <1>5, <1>6, <1>8, <1>9 DEF BufferInv, CountIsExact

\* What a push does, with the two limits: one event more, at most one less.
PushFacts(v, age, new, added, kept) ==
  /\ new = [seq |-> next, van |-> v, age |-> age]
  /\ added = events \cup {new}
  /\ kept = added \ OverVan(v, added)
  /\ kept \subseteq added /\ events' \subseteq kept
  /\ IsFiniteSet(events')
  /\ total' = Cardinality(events')
  /\ Cardinality(events') <= MaxTotal
  /\ Cardinality(Of(v, kept)) <= PerVan

LEMMA PushDoes ==
  ASSUME BufferInv, NEW v \in VanIds, NEW age \in Ages, Push(v, age)
  PROVE  \E new, added, kept :
           /\ PushFacts(v, age, new, added, kept)
           \* nothing, or the oldest of the full van, or the oldest of all
           /\ \/ events' = added
              \/ \E e \in Of(v, added) :
                   /\ events' = added \ {e} /\ Cardinality(Of(v, added)) > PerVan
                   /\ \A f \in Of(v, added) : f # e => e.seq < f.seq
              \/ \E e \in added :
                   /\ events' = added \ {e}
                   /\ \A f \in added : f # e => e.seq < f.seq
<1> DEFINE new == [seq |-> next, van |-> v, age |-> age]
           added == events \cup {new}
           over == OverVan(v, added)
           kept == added \ over
           count == total + 1 - Cardinality(over)
           dropped == OverTotal(v, kept, count)
<1>1. /\ events' = kept \ dropped
      /\ total' = count - Cardinality(dropped)
      /\ next \in Nat /\ total \in Nat /\ total <= MaxTotal
      /\ total = Cardinality(events) /\ IsFiniteSet(events)
  BY DEF Push, BufferInv, BufferTypeOK, CountIsExact, WithinLimits
<1>2. /\ \A e \in added : e.seq \in Nat
      /\ \A e, f \in added : e.seq = f.seq => e = f
      /\ new \notin events
  BY <1>1 DEF BufferInv, BufferTypeOK, Event, IdsAreUnique
<1>3. IsFiniteSet(added) /\ Cardinality(added) = total + 1
  BY <1>1, <1>2, FS_AddElement
<1>4. /\ IsFiniteSet(Of(v, added)) /\ Cardinality(Of(v, added)) \in Nat
      /\ Cardinality(Of(v, added)) <= PerVan + 1
  <2>1. Of(v, added) = Of(v, events) \cup {new}
    BY DEF Of
  <2>2. IsFiniteSet(Of(v, events)) /\ new \notin Of(v, events)
    BY <1>1, <1>2, FS_Subset DEF Of
  <2>3. /\ IsFiniteSet(Of(v, events) \cup {new})
        /\ Cardinality(Of(v, events) \cup {new}) = Cardinality(Of(v, events)) + 1
    BY <2>2, FS_AddElement
  <2>4. Cardinality(Of(v, events)) \in Nat /\ Cardinality(Of(v, events)) <= PerVan
    BY <2>2, FS_CardinalityType DEF BufferInv, WithinLimits
  <2>5. /\ IsFiniteSet(Of(v, added))
        /\ Cardinality(Of(v, added)) = Cardinality(Of(v, events)) + 1
    BY <2>1, <2>3, Zenon
  <2> QED BY <2>4, <2>5, LimitsAssumption
<1> HIDE DEF new, added
\* The van's limit takes its oldest event, or nothing.
<1>5. /\ \/ over = {} /\ Cardinality(over) = 0
         \/ /\ Cardinality(Of(v, added)) > PerVan
            /\ \E e \in Of(v, added) :
                 /\ over = {e} /\ Cardinality(over) = 1
                 /\ \A f \in Of(v, added) : f # e => e.seq < f.seq
      /\ Cardinality(Of(v, kept)) <= PerVan
  <2>1. CASE Cardinality(Of(v, added)) > PerVan
    <3>1. Of(v, added) # {}
      BY <2>1, FS_EmptySet, LimitsAssumption
    <3>2. \E e \in Of(v, added) :
            Oldest(Of(v, added)) = {e} /\ \A f \in Of(v, added) : f # e => e.seq < f.seq
      <4>1. \A e \in Of(v, added) : e.seq \in Nat
        BY <1>2 DEF Of
      <4>2. \A e, f \in Of(v, added) : e.seq = f.seq => e = f
        BY <1>2 DEF Of
      <4> QED BY <3>1, <4>1, <4>2, OldestIsOne
    <3>3. PICK e \in Of(v, added) :
            Oldest(Of(v, added)) = {e} /\ \A f \in Of(v, added) : f # e => e.seq < f.seq
      BY <3>2
    <3>4. over = {e} /\ Cardinality(over) = 1
      BY <2>1, <3>3, FS_Singleton DEF OverVan
    <3>5. Of(v, kept) = Of(v, added) \ {e}
      BY <3>4 DEF Of
    <3>6. Cardinality(Of(v, added) \ {e}) = Cardinality(Of(v, added)) - 1
      BY <1>4, FS_RemoveElement
    <3>7. Cardinality(Of(v, kept)) = Cardinality(Of(v, added)) - 1
      BY <3>5, <3>6, Zenon
    <3>8. Cardinality(Of(v, kept)) <= PerVan
      BY <3>7, <1>4, LimitsAssumption
    <3> QED BY <2>1, <3>3, <3>4, <3>8
  <2>2. CASE ~(Cardinality(Of(v, added)) > PerVan)
    <3>1. over = {}
      BY <2>2 DEF OverVan
    <3>2. kept = added /\ Cardinality(over) = 0
      BY <3>1, FS_EmptySet
    <3>3. Cardinality(Of(v, added)) <= PerVan
      BY <2>2, <1>4, LimitsAssumption
    <3>4. Cardinality(Of(v, kept)) <= PerVan
      BY <3>2, <3>3, Zenon
    <3> QED BY <3>1, <3>2, <3>4
  <2> QED BY <2>1, <2>2
<1>6. over \in SUBSET added
  BY <1>5 DEF Of
<1> HIDE DEF over
<1>7. IsFiniteSet(kept) /\ Cardinality(kept) = count /\ count \in Nat
  <2>1. /\ IsFiniteSet(added \ over)
        /\ Cardinality(added \ over) = Cardinality(added) - Cardinality(over)
    BY <1>3, <1>6, DroppedCounts
  <2>2. Cardinality(added \ over) \in Nat
    BY <2>1, FS_CardinalityType
  <2>3. total \in Nat /\ Cardinality(over) \in Nat
    BY <1>1, <1>5
  <2>4. Cardinality(added \ over) = count
    BY <2>1, <2>3, <1>3
  <2> QED BY <2>1, <2>2, <2>4
<1>8. kept \subseteq added
  OBVIOUS
<1> HIDE DEF kept, count
\* When that took an event, the total is what it was and nothing more goes.
<1>9. over # {} => dropped = {}
  BY <1>1, <1>5, LimitsAssumption DEF OverTotal, count
<1>10. /\ \/ dropped = {} /\ Cardinality(dropped) = 0 /\ count <= MaxTotal
          \/ /\ count = MaxTotal + 1
             /\ \E e \in kept :
                  /\ dropped = {e} /\ Cardinality(dropped) = 1
                  /\ \A f \in kept : f # e => e.seq < f.seq
  <2>1. CASE count > MaxTotal
    <3>1. count = MaxTotal + 1
      BY <2>1, <1>1, <1>5, LimitsAssumption DEF count
    <3>2. kept # {}
      BY <2>1, <1>7, FS_EmptySet, LimitsAssumption
    <3>3. \E e \in kept : Oldest(kept) = {e} /\ \A f \in kept : f # e => e.seq < f.seq
      <4>1. \A e \in kept : e.seq \in Nat
        BY <1>2, <1>8
      <4>2. \A e, f \in kept : e.seq = f.seq => e = f
        BY <1>2, <1>8
      <4> QED BY <3>2, <4>1, <4>2, OldestIsOne
    <3> QED BY <2>1, <3>1, <3>3, FS_Singleton DEF OverTotal
  <2>2. CASE ~(count > MaxTotal)
    BY <2>2, <1>7, FS_EmptySet, LimitsAssumption DEF OverTotal
  <2> QED BY <2>1, <2>2
<1>11. dropped \in SUBSET kept
  BY <1>10
<1> HIDE DEF dropped
<1>12. /\ IsFiniteSet(events') /\ total' = Cardinality(events')
       /\ Cardinality(events') <= MaxTotal
  <2>1. /\ IsFiniteSet(kept \ dropped)
        /\ Cardinality(kept \ dropped) = Cardinality(kept) - Cardinality(dropped)
    BY <1>7, <1>11, DroppedCounts
  <2>2. events' = kept \ dropped /\ total' = Cardinality(kept) - Cardinality(dropped)
    BY <1>1, <1>7 DEF count
  <2>3. Cardinality(kept) - Cardinality(dropped) <= MaxTotal
    BY <1>7, <1>10, LimitsAssumption
  <2>4. IsFiniteSet(events')
        /\ Cardinality(events') = Cardinality(kept) - Cardinality(dropped)
    BY <2>1, <2>2, Zenon
  <2> QED BY <2>2, <2>3, <2>4
<1>13. PushFacts(v, age, new, added, kept)
  BY <1>1, <1>5, <1>8, <1>12 DEF PushFacts, new, added, kept, over
<1>14. \/ events' = added
       \/ \E e \in Of(v, added) :
            /\ events' = added \ {e} /\ Cardinality(Of(v, added)) > PerVan
            /\ \A f \in Of(v, added) : f # e => e.seq < f.seq
       \/ \E e \in added :
            events' = added \ {e} /\ \A f \in added : f # e => e.seq < f.seq
  <2>1. CASE over # {}
    <3>1. events' = added \ over
      BY <2>1, <1>1, <1>9 DEF kept
    <3> QED BY <2>1, <3>1, <1>5
  <2>2. CASE over = {}
    <3>1. kept = added
      BY <2>2 DEF kept
    <3> QED BY <3>1, <1>1, <1>10
  <2> QED BY <2>1, <2>2
<1> QED BY <1>13, <1>14

LEMMA PushInv == ASSUME BufferInv, NEW v \in VanIds, NEW age \in Ages, Push(v, age) PROVE BufferInv'
<1>1. PICK new, added, kept : PushFacts(v, age, new, added, kept)
  BY PushDoes
<1>2. /\ new = [seq |-> next, van |-> v, age |-> age]
      /\ events' \subseteq events \cup {new} /\ events' \subseteq kept
      /\ IsFiniteSet(events') /\ total' = Cardinality(events')
      /\ Cardinality(events') <= MaxTotal
      /\ kept \subseteq events \cup {new} /\ Cardinality(Of(v, kept)) <= PerVan
  BY <1>1 DEF PushFacts
<1>3. /\ next' = next + 1 /\ UNCHANGED <<cursor, seen>>
      /\ next \in Nat \ {0}
  BY DEF Push, BufferInv, BufferTypeOK
<1>4. new \in Event /\ new.seq = next /\ new.van = v
  BY <1>2, <1>3, LimitsAssumption DEF Event
<1>5. IsFiniteSet(kept)
  <2>1. IsFiniteSet(events \cup {new})
    BY FS_AddElement DEF BufferInv
  <2> QED BY <1>2, <2>1, FS_Subset
<1>6. BufferTypeOK'
  <2>1. total' \in Nat
    BY <1>2, FS_CardinalityType
  <2> QED BY <1>2, <1>3, <1>4, <2>1 DEF BufferInv, BufferTypeOK
<1>7. WithinLimits'
  <2>1. ASSUME NEW u \in VanIds PROVE Cardinality(Of(u, events')) <= PerVan
    <3>1. CASE u = v
      <4>1. IsFiniteSet(Of(v, kept)) /\ Of(v, events') \in SUBSET Of(v, kept)
        BY <1>2, <1>5, FS_Subset DEF Of
      <4>2. /\ Cardinality(Of(v, events')) <= Cardinality(Of(v, kept))
            /\ Cardinality(Of(v, events')) \in Nat /\ Cardinality(Of(v, kept)) \in Nat
        BY <4>1, FS_Subset, FS_CardinalityType
      <4> QED BY <3>1, <4>2, <1>2, LimitsAssumption
    <3>2. CASE u # v
      <4>1. IsFiniteSet(Of(u, events)) /\ Of(u, events') \in SUBSET Of(u, events)
        BY <3>2, <1>2, <1>4, FS_Subset DEF Of, BufferInv
      <4>2. /\ Cardinality(Of(u, events')) <= Cardinality(Of(u, events))
            /\ Cardinality(Of(u, events')) \in Nat /\ Cardinality(Of(u, events)) \in Nat
        BY <4>1, FS_Subset, FS_CardinalityType
      <4> QED BY <4>2, LimitsAssumption DEF BufferInv, WithinLimits
    <3> QED BY <3>1, <3>2
  <2> QED BY <2>1, <1>2 DEF WithinLimits
<1>8. \A e \in events : e \in Event /\ e.seq \in 1 .. next - 1
  BY DEF BufferInv, BufferTypeOK, IdsAreUnique
<1>9. IdsAreUnique'
  BY <1>2, <1>3, <1>4, <1>8 DEF BufferInv, IdsAreUnique
<1>11. CursorsInRange'
  BY <1>3 DEF BufferInv, BufferTypeOK, CursorsInRange
<1>12. NoneSkipped'
  <2> SUFFICES ASSUME NEW c \in Readers, NEW e \in Batch(c, 0)', e.seq <= cursor[c]
               PROVE  e.seq \in seen[c]
    BY <1>3 DEF NoneSkipped
  <2>1. e # new
    BY <1>3, <1>4 DEF BufferInv, BufferTypeOK, CursorsInRange
  <2>2. e \in Batch(c, 0)
    BY <2>1, <1>2 DEF Batch
  <2> QED BY <2>2 DEF BufferInv, NoneSkipped
<1> QED BY <1>2, <1>6, <1>7, <1>9, <1>11, <1>12 DEF BufferInv, CountIsExact

LEMMA NextInv == BufferInv /\ [BufferNext]_bufferVars => BufferInv'
<1> SUFFICES ASSUME BufferInv, [BufferNext]_bufferVars PROVE BufferInv'
  OBVIOUS
<1>1. ASSUME NEW v \in VanIds, NEW age \in Ages, Push(v, age) PROVE BufferInv'
  BY <1>1, PushInv
<1>2. ASSUME NEW c \in Readers, Fetch(c) PROVE BufferInv'
  BY <1>2, FetchInv
<1>3. ASSUME NEW v \in VanIds, Clear(v) PROVE BufferInv'
  <2>1. events \ events' = Of(v, events)
    BY <1>3 DEF Clear, Of
  <2> QED BY <1>3, <2>1, ShrinkInv DEF Clear
<1>4. ASSUME ClearAll PROVE BufferInv'
  <2>1. events \ events' = events /\ Cardinality(events) \in Nat
    BY <1>4, FS_CardinalityType DEF ClearAll, BufferInv
  <2>2. total' = total - Cardinality(events)
    BY <1>4, <2>1 DEF ClearAll, BufferInv, CountIsExact
  <2> QED BY <1>4, <2>1, <2>2, ShrinkInv DEF ClearAll
<1>5. ASSUME Evict PROVE BufferInv'
  <2>1. events \ events' = Expired(events)
    BY <1>5 DEF Evict, Expired
  <2> QED BY <1>5, <2>1, ShrinkInv DEF Evict
<1>6. ASSUME Elapse PROVE BufferInv'
  BY <1>6, ElapseInv
<1>7. CASE UNCHANGED bufferVars
  BY <1>7 DEF bufferVars, BufferInv, BufferTypeOK, CountIsExact, WithinLimits, Of,
              IdsAreUnique, CursorsInRange, NoneSkipped, Batch
<1> QED BY <1>1, <1>2, <1>3, <1>4, <1>5, <1>6, <1>7 DEF BufferNext

\* The invariant holds throughout one life of the gateway.
THEOREM BufferInvariant == BufferSpec => []BufferInv
BY InitInv, NextInv, PTL DEF BufferSpec

--------------------------------------------------------------------------------
\* The variables have their types; the unsigned total_count_ never underflows.
THEOREM BufferTypeCorrect == BufferSpec => []BufferTypeOK
<1>1. BufferInv => BufferTypeOK
  BY DEF BufferInv
<1> QED BY <1>1, BufferInvariant, PTL

\* total_count_ is the number of events held, whatever the sequence of calls.
THEOREM TotalIsExact == BufferSpec => []CountIsExact
<1>1. BufferInv => CountIsExact
  BY DEF BufferInv
<1> QED BY <1>1, BufferInvariant, PTL

\* Each limit loop of push() needs at most one turn to restore its limit.
THEOREM LimitsHold == BufferSpec => []WithinLimits
<1>1. BufferInv => WithinLimits
  BY DEF BufferInv
<1> QED BY <1>1, BufferInvariant, PTL

\* Sequence ids name events.
THEOREM IdsNameEvents == BufferSpec => []IdsAreUnique
<1>1. BufferInv => IdsAreUnique
  BY DEF BufferInv
<1> QED BY <1>1, BufferInvariant, PTL

\* A consumer that pages with `since' misses nothing that is still buffered.
THEOREM PagingSkipsNothing == BufferSpec => []NoneSkipped
<1>1. BufferInv => NoneSkipped
  BY DEF BufferInv
<1> QED BY <1>1, BufferInvariant, PTL

\* And is never given an event twice.
THEOREM PagingRepeatsNothing == BufferSpec => NothingRepeated
<1>1. BufferInv => \A c \in Readers : \A e \in Batch(c, cursor[c]) : e.seq \notin seen[c]
  <2> SUFFICES ASSUME BufferInv, NEW c \in Readers, NEW e \in Batch(c, cursor[c]),
                      e.seq \in seen[c]
               PROVE  FALSE
    OBVIOUS
  <2>1. e.seq > cursor[c] /\ e.seq <= cursor[c] /\ e.seq \in Nat /\ cursor[c] \in Nat
    BY DEF BufferInv, BufferTypeOK, CursorsInRange, Batch, Event
  <2> QED BY <2>1
<1>2. BufferInv => [\A c \in Readers :
                      Fetch(c) => \A e \in Batch(c, cursor[c]) : e.seq \notin seen[c]]_bufferVars
  BY <1>1
<1> QED BY <1>2, BufferInvariant, PTL DEF NothingRepeated

\* An event past its age survives eviction only behind a younger one of its van, and
\* eviction takes nothing else.
THEOREM EvictionStopsAtTheYoung == BufferSpec => OldStayOnlyBehindYoung
<1>1. ASSUME BufferInv, Evict
      PROVE  /\ \A e \in events \ events' : e.age > MaxAge
             /\ \A e \in events' : e.age > MaxAge =>
                  \E f \in Of(e.van, events') : f.seq < e.seq /\ f.age <= MaxAge
  <2>1. \A e \in events : e.seq \in Nat /\ e.age \in Int
    BY <1>1, LimitsAssumption DEF BufferInv, BufferTypeOK, Event, Ages
  <2>2. \A e \in Expired(events) : e.age > MaxAge
    BY <2>1 DEF Expired, Of
  <2>3. ASSUME NEW e \in events', e.age > MaxAge
        PROVE  \E f \in Of(e.van, events') : f.seq < e.seq /\ f.age <= MaxAge
    <3>1. e \in events /\ e \notin Expired(events)
      BY <1>1 DEF Evict
    <3>2. PICK f \in Of(e.van, events) : f.seq <= e.seq /\ ~(f.age > MaxAge)
      BY <3>1 DEF Expired
    <3>3. f \in events' /\ f.age <= MaxAge /\ f.van = e.van
      BY <1>1, <2>1, <2>2, <3>2, LimitsAssumption DEF Evict, Of
    <3>4. f.seq < e.seq
      BY <1>1, <2>1, <2>3, <3>1, <3>2, <3>3 DEF BufferInv, IdsAreUnique, Of
    <3> QED BY <3>3, <3>4 DEF Of
  <2> QED BY <1>1, <2>2, <2>3 DEF Evict
<1>2. BufferInv =>
        [Evict =>
           /\ \A e \in events \ events' : e.age > MaxAge
           /\ \A e \in events' : e.age > MaxAge =>
                \E f \in Of(e.van, events') : f.seq < e.seq /\ f.age <= MaxAge]_bufferVars
  BY <1>1
<1> QED BY <1>2, BufferInvariant, PTL DEF OldStayOnlyBehindYoung

\* A push costs at most one event, and the right one.
THEOREM PushIsFair == BufferSpec => PushDropsTheOldest
<1>1. ASSUME BufferInv, NEW v \in VanIds, NEW age \in Ages, Push(v, age), NEW e \in events \ events'
      PROVE  /\ \A f \in events \ events' : e = f
             /\ \/ \A f \in events' : e.seq < f.seq
                \/ /\ e.van = v /\ Cardinality(Of(v, events)) = PerVan
                   /\ \A f \in Of(v, events') : e.seq < f.seq
  <2>1. PICK new, added, kept :
          /\ PushFacts(v, age, new, added, kept)
          /\ \/ events' = added
             \/ \E g \in Of(v, added) :
                  /\ events' = added \ {g} /\ Cardinality(Of(v, added)) > PerVan
                  /\ \A f \in Of(v, added) : f # g => g.seq < f.seq
             \/ \E g \in added :
                  events' = added \ {g} /\ \A f \in added : f # g => g.seq < f.seq
    BY <1>1, PushDoes
  <2>2. added = events \cup {new} /\ new.van = v
    BY <2>1 DEF PushFacts
  <2>3. CASE events' = added
    BY <2>2, <2>3
  <2>4. ASSUME NEW g \in Of(v, added), events' = added \ {g},
               Cardinality(Of(v, added)) > PerVan,
               \A f \in Of(v, added) : f # g => g.seq < f.seq
        PROVE  /\ e = g /\ e.van = v /\ Cardinality(Of(v, events)) = PerVan
               /\ \A f \in events \ events' : e = f
               /\ \A f \in Of(v, events') : e.seq < f.seq
    <3>1. e = g /\ \A f \in events \ events' : e = f
      BY <2>2, <2>4
    <3>2. e.van = v /\ \A f \in Of(v, events') : e.seq < f.seq
      BY <2>4, <3>1 DEF Of
    <3>3. Of(v, added) = Of(v, events) \cup {new}
      BY <2>2 DEF Of
    <3>4. IsFiniteSet(Of(v, events))
      BY <1>1, FS_Subset DEF Of, BufferInv
    <3>5. /\ Cardinality(Of(v, events)) \in Nat
          /\ Cardinality(Of(v, events)) <= PerVan
      BY <1>1, <3>4, FS_CardinalityType DEF BufferInv, WithinLimits
    <3>6. Cardinality(Of(v, events) \cup {new}) =
            IF new \in Of(v, events) THEN Cardinality(Of(v, events))
            ELSE Cardinality(Of(v, events)) + 1
      BY <3>4, FS_AddElement
    <3>7. Cardinality(Of(v, added)) = Cardinality(Of(v, events) \cup {new})
      BY <3>3, Zenon
    <3>8. Cardinality(Of(v, events)) = PerVan
      BY <2>4, <3>5, <3>6, <3>7, LimitsAssumption
    <3> QED BY <3>1, <3>2, <3>8
  <2>5. ASSUME NEW g \in added, events' = added \ {g},
               \A f \in added : f # g => g.seq < f.seq
        PROVE  /\ \A f \in events \ events' : e = f
               /\ \A f \in events' : e.seq < f.seq
    BY <2>2, <2>5
  <2> QED BY <2>1, <2>3, <2>4, <2>5
<1>2. BufferInv => [\A v \in VanIds : (\E age \in Ages : Push(v, age)) =>
       \A e \in events \ events' :
         /\ \A f \in events \ events' : e = f
         /\ \/ \A f \in events' : e.seq < f.seq
            \/ /\ e.van = v /\ Cardinality(Of(v, events)) = PerVan
               /\ \A f \in Of(v, events') : e.seq < f.seq]_bufferVars
  BY <1>1
<1> QED BY <1>2, BufferInvariant, PTL DEF PushDropsTheOldest
================================================================================
