----------------------- MODULE FleetSubscriptions_proofs -----------------------
(***************************************************************************)
(* Theorems about FleetSubscriptions, for any vans, rules, intervals and   *)
(* bounds.  The inductive invariant adds to the properties that the ids in *)
(* use are below the next one, that a process which no time has passed for *)
(* belongs to a record that is not silent, and that an active record has   *)
(* misses left.                                                            *)
(***************************************************************************)
EXTENDS FleetSubscriptions, FiniteSetTheorems, TLAPS

IdsAreOld ==
  /\ \A v \in Vans : \A s \in subs[v] : s.sub < nextSub
  /\ \A p \in processes : p.id < nextSub

YoungAreFresh ==
  \A v \in Vans : \A s \in subs[v], p \in processes :
    p.id = s.sub /\ ~p.aged => s.since = 0

ActiveHaveMissesLeft ==
  \A v \in Vans : \A s \in subs[v] : s.active => s.missed < MaxMissed

SubsInv ==
  /\ SubsTypeOK /\ RecordsOwnProcesses /\ LostHaveNoProcess
  /\ IdsAreOld /\ YoungAreFresh /\ ActiveHaveMissesLeft

--------------------------------------------------------------------------------
(* What happens to one record.                                               *)

\* The driver's ids for one call are new and pairwise different.
LEMMA FreshIds ==
  ASSUME SubsTypeOK
  PROVE  /\ Cardinality(rules) \in Nat
         /\ \A r \in rules : SubId(r) \in nextSub .. nextSub + Cardinality(rules) - 1
         /\ \A q, r \in rules : SubId(q) = SubId(r) => q = r
<1> DEFINE before(r) == {q \in rules : q < r}
<1>1. rules \in SUBSET Nat /\ IsFiniteSet(rules) /\ nextSub \in Nat
  <2>1. rules \in SUBSET Nat /\ nextRule - 1 \in Nat /\ \A r \in rules : r <= nextRule - 1
    BY SubscriptionsAssumption DEF SubsTypeOK
  <2>2. IsFiniteSet(rules)
    BY <2>1, FS_BoundedSetOfNaturals
  <2>3. nextSub \in Nat
    BY SubscriptionsAssumption DEF SubsTypeOK
  <2> QED BY <2>1, <2>2, <2>3
<1>2. Cardinality(rules) \in Nat
  BY <1>1, FS_CardinalityType
<1>3. ASSUME NEW r \in rules
      PROVE  Cardinality(before(r)) \in Nat /\ Cardinality(before(r)) < Cardinality(rules)
  <2>1. before(r) \subseteq rules /\ r \notin before(r)
    BY <1>1
  <2>2. /\ IsFiniteSet(before(r)) /\ Cardinality(before(r)) <= Cardinality(rules)
        /\ Cardinality(before(r)) = Cardinality(rules) => before(r) = rules
    BY <1>1, <2>1, FS_Subset
  <2>3. Cardinality(before(r)) \in Nat
    BY <2>2, FS_CardinalityType
  <2> QED BY <1>2, <2>1, <2>2, <2>3
<1>4. ASSUME NEW q \in rules, NEW r \in rules, q < r
      PROVE  Cardinality(before(q)) < Cardinality(before(r))
  <2>1. before(q) \subseteq before(r) /\ q \in before(r) /\ q \notin before(q)
    <3>1. \A x \in rules : x \in Nat
      BY <1>1
    <3> QED BY <1>4, <3>1
  <2>2. IsFiniteSet(before(r))
    BY <1>1, FS_Subset
  <2>3. /\ Cardinality(before(q)) <= Cardinality(before(r))
        /\ Cardinality(before(q)) = Cardinality(before(r)) => before(q) = before(r)
    BY <2>1, <2>2, FS_Subset
  <2>4. Cardinality(before(q)) \in Nat /\ Cardinality(before(r)) \in Nat
    BY <1>3
  <2> QED BY <2>1, <2>3, <2>4
<1>5. \A r \in rules : SubId(r) = nextSub + Cardinality(before(r))
  BY DEF SubId
<1> HIDE DEF before
<1>6. \A r \in rules : SubId(r) \in nextSub .. nextSub + Cardinality(rules) - 1
  BY <1>1, <1>2, <1>3, <1>5
<1>7. ASSUME NEW q \in rules, NEW r \in rules, SubId(q) = SubId(r)
      PROVE  q = r
  <2>1. Cardinality(before(q)) = Cardinality(before(r))
    BY <1>1, <1>3, <1>5, <1>7
  <2> QED BY <1>1, <1>3, <1>4, <2>1
<1> QED BY <1>2, <1>6, <1>7

LEMMA AppliedIs ==
  ASSUME SubsTypeOK, NEW r \in rules, NEW started \in SUBSET rules
  PROVE  LET s == Applied(r, started)
         IN /\ s \in Record
            /\ s.rule = r /\ s.missed = 0
            /\ r \in started => s.active /\ s.sub = SubId(r) /\ s.since = 0
            /\ r \notin started => ~s.active /\ s.sub = 0
<1>1. r \in Rules /\ SubId(r) \in Nat
  BY FreshIds, SubscriptionsAssumption DEF SubsTypeOK, Rules
<1>2. CASE r \in started
  <2>1. Applied(r, started) = [rule |-> r, sub |-> SubId(r), active |-> TRUE, since |-> 0, missed |-> 0]
    BY <1>2 DEF Applied
  <2> QED BY <1>1, <1>2, <2>1, SubscriptionsAssumption DEF Record
<1>3. CASE r \notin started
  <2>1. Applied(r, started) = [rule |-> r, sub |-> 0, active |-> FALSE, since |-> SinceCap, missed |-> 0]
    BY <1>3 DEF Applied
  <2> QED BY <1>1, <1>3, <2>1, SubscriptionsAssumption DEF Record
<1> QED BY <1>2, <1>3

LEMMA JudgedIs ==
  ASSUME NEW s \in Record, s.active => s.missed < MaxMissed
  PROVE  LET t == Judged(s)
         IN /\ t \in Record
            /\ t.rule = s.rule /\ t.sub = s.sub /\ t.since = s.since
            /\ t.active => s.active /\ t.missed < MaxMissed
            /\ s.active /\ ~t.active => s.since > 0 /\ s.missed = MaxMissed - 1
<1> DEFINE silent == s.active /\ s.since > 2 * IntervalOf(s.rule, rules)
<1>1. IntervalOf(s.rule, rules) \in Nat
  BY SubscriptionsAssumption DEF IntervalOf, Record
<1>2. /\ s.rule \in Rules /\ s.sub \in Nat /\ s.active \in BOOLEAN
      /\ s.since \in 0 .. SinceCap /\ s.missed \in 0 .. MaxMissed
  BY DEF Record
<1>3. CASE silent
  <2>1. Judged(s) = [rule |-> s.rule, sub |-> s.sub, active |-> s.missed + 1 < MaxMissed,
                     since |-> s.since, missed |-> s.missed + 1]
    BY <1>3 DEF Judged, Record
  <2>2. s.missed + 1 \in 0 .. MaxMissed /\ s.since > 0
    BY <1>1, <1>2, <1>3, SubscriptionsAssumption
  <2>3. Judged(s) \in Record
    BY <1>2, <2>1, <2>2 DEF Record
  <2>4. /\ Judged(s).rule = s.rule /\ Judged(s).sub = s.sub /\ Judged(s).since = s.since
        /\ Judged(s).missed = s.missed + 1 /\ Judged(s).active = (s.missed + 1 < MaxMissed)
    BY <2>1
  <2>5. s.active /\ s.missed < MaxMissed
    BY <1>3
  <2>6. ~(s.missed + 1 < MaxMissed) => s.missed = MaxMissed - 1
    BY <1>2, <2>5, SubscriptionsAssumption
  <2> QED BY <2>2, <2>3, <2>4, <2>5, <2>6
<1>4. CASE ~silent
  BY <1>4 DEF Judged
<1> QED BY <1>3, <1>4

LEMMA AgedIs ==
  ASSUME NEW s \in Record, NEW d \in 1 .. MaxLag
  PROVE  LET t == Aged(s, d)
         IN /\ t \in Record
            /\ t.rule = s.rule /\ t.sub = s.sub /\ t.active = s.active /\ t.missed = s.missed
<1>1. CASE s.active
  <2>1. /\ s.rule \in Rules /\ s.sub \in Nat /\ s.active \in BOOLEAN
        /\ s.since \in 0 .. SinceCap /\ s.missed \in 0 .. MaxMissed
    BY DEF Record
  <2>2. Later(s.since, d) \in 0 .. SinceCap
    BY <2>1, SubscriptionsAssumption DEF Later
  <2>3. Aged(s, d) = [rule |-> s.rule, sub |-> s.sub, active |-> s.active,
                      since |-> Later(s.since, d), missed |-> s.missed]
    BY <1>1 DEF Aged, Record
  <2> QED BY <2>1, <2>2, <2>3 DEF Record
<1>2. CASE ~s.active
  BY <1>2 DEF Aged
<1> QED BY <1>1, <1>2

--------------------------------------------------------------------------------
(* The invariant is inductive.                                               *)

LEMMA SubsInitially == SubsInit => SubsInv
BY SubscriptionsAssumption
DEF SubsInit, SubsInv, SubsTypeOK, RecordsOwnProcesses, LostHaveNoProcess, IdsAreOld,
    YoungAreFresh, ActiveHaveMissesLeft

LEMMA SubscribeVanKeeps ==
  ASSUME SubsInv, NEW v \in Vans, NEW started \in SUBSET rules, SubscribeVan(v, started)
  PROVE  SubsInv'
<1> USE DEF SubsInv
<1> DEFINE new(p) == /\ p.rule \in started /\ p.id = SubId(p.rule)
                     /\ p.van = v /\ ~p.aged /\ ~p.exited
<1>1. /\ Cardinality(rules) \in Nat /\ nextSub \in Nat \ {0}
      /\ \A r \in rules : SubId(r) \in Nat /\ nextSub <= SubId(r) /\ SubId(r) < nextSub'
      /\ \A q, r \in rules : SubId(q) = SubId(r) => q = r
      /\ nextSub' = nextSub + Cardinality(rules) /\ nextSub' \in 1 .. MaxSubs + 1
  BY FreshIds, SubscriptionsAssumption DEF SubsTypeOK, SubscribeVan
<1>2. /\ subs' \in [Vans -> SUBSET Record]
      /\ \A w \in Vans : w # v => subs'[w] = subs[w]
      /\ subs'[v] = {Applied(r, started) : r \in rules}
  BY AppliedIs DEF SubscribeVan, SubsTypeOK
<1>3. \A s \in subs'[v] :
        /\ s.rule \in rules /\ s = Applied(s.rule, started) /\ s.missed = 0
        /\ \/ s.active /\ s.rule \in started /\ s.sub = SubId(s.rule) /\ s.since = 0
           \/ ~s.active /\ s.sub = 0
  BY <1>2, AppliedIs
<1>4. /\ processes' \in SUBSET Process
      /\ \A p \in processes' : p \in processes \/ new(p)
  <2>1. ASSUME NEW r \in started
        PROVE  LET p == [id |-> SubId(r), van |-> v, rule |-> r, aged |-> FALSE, exited |-> FALSE]
               IN p \in Process /\ new(p)
    BY <1>1, SubscriptionsAssumption DEF Process, SubsTypeOK, Rules
  <2> QED BY <2>1 DEF SubscribeVan, SubsTypeOK
<1>5. SubsTypeOK'
  BY <1>1, <1>2, <1>4 DEF SubsTypeOK, SubscribeVan
<1>6. IdsAreOld'
  <2>1. ASSUME NEW w \in Vans, NEW s \in subs'[w] PROVE s.sub < nextSub'
    <3>1. CASE w = v
      BY <1>1, <1>3, <3>1
    <3>2. CASE w # v
      <4>1. s \in subs[w] /\ s.sub < nextSub /\ s.sub \in Nat
        BY <1>2, <3>2 DEF IdsAreOld, Record
      <4> QED BY <1>1, <4>1
    <3> QED BY <3>1, <3>2
  <2>2. ASSUME NEW p \in processes' PROVE p.id < nextSub'
    <3>1. CASE p \in processes
      <4>1. p.id < nextSub /\ p.id \in Nat
        BY <1>4, <3>1 DEF IdsAreOld, Process
      <4> QED BY <1>1, <4>1
    <3>2. CASE new(p)
      BY <1>1, <3>2
    <3> QED BY <1>4, <3>1, <3>2
  <2> QED BY <2>1, <2>2 DEF IdsAreOld
<1>7. ASSUME NEW u \in Vans, NEW w \in Vans, NEW s \in subs'[u], NEW t \in subs'[w],
             s.sub = t.sub, s.sub # 0
      PROVE  u = w /\ s = t
  <2>1. CASE u = v /\ w = v
    BY <1>1, <1>3, <1>7, <2>1
  <2>2. CASE u # v /\ w # v
    BY <1>2, <1>7, <2>2 DEF RecordsOwnProcesses
  <2>3. CASE u = v /\ w # v
    <3>1. t \in subs[w] /\ t.sub < nextSub /\ t.sub \in Nat
      BY <1>2, <2>3 DEF IdsAreOld, Record
    <3>2. s.sub \in Nat /\ nextSub <= s.sub
      BY <1>1, <1>3, <1>7, <2>3
    <3> QED BY <1>1, <1>7, <3>1, <3>2
  <2>4. CASE u # v /\ w = v
    <3>1. s \in subs[u] /\ s.sub < nextSub /\ s.sub \in Nat
      BY <1>2, <2>4 DEF IdsAreOld, Record
    <3>2. t.sub \in Nat /\ nextSub <= t.sub
      BY <1>1, <1>3, <1>7, <2>4
    <3> QED BY <1>1, <1>7, <3>1, <3>2
  <2> QED BY <2>1, <2>2, <2>3, <2>4
<1>8. ASSUME NEW w \in Vans, NEW s \in subs'[w], NEW p \in processes', p.id = s.sub
      PROVE  /\ p.van = w /\ p.rule = s.rule /\ s.active
             /\ ~p.aged => s.since = 0
  <2>1. p.id \in Nat \ {0} /\ s.sub \in Nat
    BY <1>2, <1>4 DEF Process, Record
  <2>2. CASE w # v
    <3>1. s \in subs[w] /\ s.sub < nextSub
      BY <1>2, <2>2 DEF IdsAreOld
    <3>2. p \in processes
      BY <1>1, <1>4, <1>8, <2>1, <3>1
    <3>3. s.active \in BOOLEAN
      BY <3>1 DEF SubsTypeOK, Record
    <3> QED BY <1>8, <3>1, <3>2, <3>3 DEF RecordsOwnProcesses, LostHaveNoProcess, YoungAreFresh
  <2>3. CASE w = v
    <3>1. s.active /\ s.rule \in started /\ s.sub = SubId(s.rule) /\ s.since = 0 /\ s.rule \in rules
      BY <1>3, <1>8, <2>1, <2>3
    <3>2. new(p)
      BY <1>1, <1>4, <1>8, <2>1, <3>1 DEF IdsAreOld
    <3> QED BY <1>1, <1>8, <2>3, <3>1, <3>2
  <2> QED BY <2>2, <2>3
<1>9. RecordsOwnProcesses'
  BY <1>7, <1>8 DEF RecordsOwnProcesses
<1>10. LostHaveNoProcess' /\ YoungAreFresh'
  BY <1>8 DEF LostHaveNoProcess, YoungAreFresh
<1>11. ActiveHaveMissesLeft'
  BY <1>2, <1>3, SubscriptionsAssumption DEF ActiveHaveMissesLeft
<1> QED BY <1>5, <1>6, <1>9, <1>10, <1>11

LEMMA TickKeeps ==
  ASSUME SubsInv, Tick
  PROVE  SubsInv'
<1> USE DEF SubsInv
<1>1. \A v \in Vans : subs[v] \subseteq Record
  BY DEF SubsTypeOK
<1>2. ASSUME NEW v \in Vans, NEW t \in subs'[v]
      PROVE  \E s \in subs[v] :
               /\ t = Judged(s) /\ t \in Record
               /\ t.rule = s.rule /\ t.sub = s.sub /\ t.since = s.since
               /\ t.active => s.active /\ t.missed < MaxMissed
               /\ s.active /\ ~t.active => s.since > 0
  <2>1. PICK s \in subs[v] : t = Judged(s)
    BY DEF Tick
  <2>2. s \in Record /\ (s.active => s.missed < MaxMissed)
    BY <1>1 DEF ActiveHaveMissesLeft
  <2> QED BY <2>1, <2>2, JudgedIs
<1>3. /\ processes' \subseteq processes
      /\ \A p \in processes' : ~p.aged
  BY DEF Tick, Polled
<1>4. SubsTypeOK'
  <2>1. subs' \in [Vans -> SUBSET Record]
    BY <1>2 DEF Tick
  <2> QED BY <1>3, <2>1 DEF SubsTypeOK, Tick
<1>5. RecordsOwnProcesses'
  <2>1. ASSUME NEW v \in Vans, NEW w \in Vans, NEW s \in subs'[v], NEW t \in subs'[w],
               s.sub = t.sub, s.sub # 0
        PROVE  v = w /\ s = t
    <3>1. PICK s0 \in subs[v] : s = Judged(s0) /\ s.sub = s0.sub
      BY <1>2
    <3>2. PICK t0 \in subs[w] : t = Judged(t0) /\ t.sub = t0.sub
      BY <1>2
    <3> QED BY <2>1, <3>1, <3>2 DEF RecordsOwnProcesses
  <2>2. \A v \in Vans : \A s \in subs'[v], p \in processes' :
          p.id = s.sub => p.van = v /\ p.rule = s.rule
    BY <1>2, <1>3 DEF RecordsOwnProcesses
  <2> QED BY <2>1, <2>2 DEF RecordsOwnProcesses
<1>6. ASSUME NEW v \in Vans, NEW t \in subs'[v], NEW p \in processes', p.id = t.sub
      PROVE  t.active /\ t.since = 0
  <2>1. PICK s \in subs[v] : /\ t.sub = s.sub /\ t.since = s.since
                             /\ s.active /\ ~t.active => s.since > 0
    BY <1>2
  <2>2. s.since = 0 /\ s.active
    BY <1>3, <1>6, <2>1 DEF YoungAreFresh, LostHaveNoProcess
  <2> QED BY <2>1, <2>2
<1>7. LostHaveNoProcess' /\ YoungAreFresh'
  BY <1>6 DEF LostHaveNoProcess, YoungAreFresh
<1>8. IdsAreOld' /\ ActiveHaveMissesLeft'
  <2>1. nextSub' = nextSub
    BY DEF Tick
  <2> QED BY <1>2, <1>3, <2>1 DEF IdsAreOld, ActiveHaveMissesLeft
<1> QED BY <1>4, <1>5, <1>7, <1>8

LEMMA ElapseKeeps ==
  ASSUME SubsInv, NEW d \in 1 .. MaxLag, Elapse(d)
  PROVE  SubsInv'
<1> USE DEF SubsInv
<1>1. \A v \in Vans : subs[v] \subseteq Record
  BY DEF SubsTypeOK
<1>2. ASSUME NEW v \in Vans, NEW t \in subs'[v]
      PROVE  \E s \in subs[v] :
               /\ t = Aged(s, d) /\ t \in Record
               /\ t.rule = s.rule /\ t.sub = s.sub /\ t.active = s.active /\ t.missed = s.missed
  BY <1>1, AgedIs DEF Elapse
<1>3. ASSUME NEW p \in processes'
      PROVE  /\ p \in Process /\ p.aged
             /\ \E q \in processes : p.id = q.id /\ p.van = q.van /\ p.rule = q.rule
  <2>1. PICK q \in processes : p = [q EXCEPT !.aged = TRUE]
    BY DEF Elapse
  <2>2. q \in Process
    BY DEF SubsTypeOK
  <2> QED BY <2>1, <2>2 DEF Process
<1>4. SubsTypeOK'
  <2>1. subs' \in [Vans -> SUBSET Record]
    BY <1>2 DEF Elapse
  <2>2. processes' \in SUBSET Process
    BY <1>3
  <2> QED BY <2>1, <2>2 DEF SubsTypeOK, Elapse
<1>5. RecordsOwnProcesses'
  <2>1. ASSUME NEW v \in Vans, NEW w \in Vans, NEW s \in subs'[v], NEW t \in subs'[w],
               s.sub = t.sub, s.sub # 0
        PROVE  v = w /\ s = t
    <3>1. PICK s0 \in subs[v] : s = Aged(s0, d) /\ s.sub = s0.sub
      BY <1>2
    <3>2. PICK t0 \in subs[w] : t = Aged(t0, d) /\ t.sub = t0.sub
      BY <1>2
    <3> QED BY <2>1, <3>1, <3>2 DEF RecordsOwnProcesses
  <2>2. \A v \in Vans : \A s \in subs'[v], p \in processes' :
          p.id = s.sub => p.van = v /\ p.rule = s.rule
    BY <1>2, <1>3 DEF RecordsOwnProcesses
  <2> QED BY <2>1, <2>2 DEF RecordsOwnProcesses
<1>6. LostHaveNoProcess' /\ YoungAreFresh'
  BY <1>2, <1>3 DEF LostHaveNoProcess, YoungAreFresh
<1>7. IdsAreOld' /\ ActiveHaveMissesLeft'
  <2>1. nextSub' = nextSub
    BY DEF Elapse
  <2> QED BY <1>2, <1>3, <2>1 DEF IdsAreOld, ActiveHaveMissesLeft
<1> QED BY <1>4, <1>5, <1>6, <1>7

\* Actions that only take processes or records away, or touch neither.
LEMMA FewerKeep ==
  ASSUME SubsInv, SubsTypeOK', nextSub' = nextSub,
         \A v \in Vans : subs'[v] \subseteq subs[v],
         \A p \in processes' : \E q \in processes :
           p.id = q.id /\ p.van = q.van /\ p.rule = q.rule /\ p.aged = q.aged
  PROVE  SubsInv'
BY DEF SubsInv, RecordsOwnProcesses, LostHaveNoProcess, IdsAreOld, YoungAreFresh,
       ActiveHaveMissesLeft

LEMMA SubsStep == SubsInv /\ [SubsNext]_subsVars => SubsInv'
<1> SUFFICES ASSUME SubsInv, [SubsNext]_subsVars PROVE SubsInv'
  OBVIOUS
<1>1. CASE AddRule
  <2>1. SubsTypeOK'
    BY <1>1, SubscriptionsAssumption DEF AddRule, SubsInv, SubsTypeOK
  <2> QED BY <1>1, <2>1, FewerKeep DEF AddRule
<1>2. ASSUME NEW r \in Rules, RemoveRule(r) PROVE SubsInv'
  <2>1. SubsTypeOK'
    BY <1>2 DEF RemoveRule, SubsInv, SubsTypeOK
  <2> QED BY <1>2, <2>1, FewerKeep DEF RemoveRule
<1>3. ASSUME NEW v \in Vans, NEW started \in SUBSET rules, SubscribeVan(v, started)
      PROVE  SubsInv'
  BY <1>3, SubscribeVanKeeps
<1>4. ASSUME NEW v \in Vans, UnsubscribeVan(v) PROVE SubsInv'
  <2>1. SubsTypeOK'
    BY <1>4 DEF UnsubscribeVan, SubsInv, SubsTypeOK
  <2>2. \A w \in Vans : subs'[w] \subseteq subs[w]
    BY <1>4 DEF UnsubscribeVan, SubsInv, SubsTypeOK
  <2> QED BY <1>4, <2>1, <2>2, FewerKeep DEF UnsubscribeVan
<1>5. CASE Tick
  BY <1>5, TickKeeps
<1>6. ASSUME NEW v \in Vans, SessionChanges(v) PROVE SubsInv'
  <2>1. SubsTypeOK'
    BY <1>6 DEF SessionChanges, SubsInv, SubsTypeOK
  <2> QED BY <1>6, <2>1, FewerKeep DEF SessionChanges
<1>7. ASSUME NEW p \in processes, ProcessExits(p) PROVE SubsInv'
  <2>1. /\ p \in Process
        /\ [p EXCEPT !.exited = TRUE] \in Process
        /\ LET q == [p EXCEPT !.exited = TRUE]
           IN q.id = p.id /\ q.van = p.van /\ q.rule = p.rule /\ q.aged = p.aged
    BY DEF SubsInv, SubsTypeOK, Process
  <2>2. SubsTypeOK'
    BY <1>7, <2>1 DEF ProcessExits, SubsInv, SubsTypeOK
  <2> QED BY <1>7, <2>1, <2>2, FewerKeep DEF ProcessExits
<1>8. ASSUME NEW d \in 1 .. MaxLag, Elapse(d) PROVE SubsInv'
  BY <1>8, ElapseKeeps
<1>9. CASE UNCHANGED subsVars
  BY <1>9 DEF subsVars, SubsInv, SubsTypeOK, RecordsOwnProcesses, LostHaveNoProcess,
              IdsAreOld, YoungAreFresh, ActiveHaveMissesLeft
<1> QED BY <1>1, <1>2, <1>3, <1>4, <1>5, <1>6, <1>7, <1>8, <1>9 DEF SubsNext

LEMMA SubsInvariant == SubsSpec => []SubsInv
BY SubsInitially, SubsStep, PTL DEF SubsSpec

--------------------------------------------------------------------------------
(* The theorems.                                                             *)

\* Rules, records, processes and ids have their types; no counter passes its limit.
THEOREM SubsTypeCorrect == SubsSpec => []SubsTypeOK
BY SubsInvariant, PTL DEF SubsInv

\* cancelSubscription() of a record stops that record's process and no other.
THEOREM CancellationIsExact == SubsSpec => []RecordsOwnProcesses
BY SubsInvariant, PTL DEF SubsInv

\* unsubscribeVan() may skip records that were given up: their processes are gone,
\* since poll() leaves none running that has run for any time at all (Polled).
THEOREM LostAreReaped == SubsSpec => []LostHaveNoProcess
BY SubsInvariant, PTL DEF SubsInv

\* checkLiveness() gives a record up at its MaxMissed-th silent pass, whatever
\* rules were removed and however late the passes came.
THEOREM LossIsEarned == SubsSpec => LossTakesSilentPasses
<1> DEFINE Earned == \A v \in Vans : \A t \in subs'[v] :
                       ~t.active /\ t.sub # 0 =>
                         \E s \in subs[v] : /\ s.sub = t.sub
                                            /\ s.active => s.missed = MaxMissed - 1
<1>1. SubsInv /\ [SubsNext]_subsVars => [Earned]_subsVars
  <2> SUFFICES ASSUME SubsInv, SubsNext, NEW v \in Vans, NEW t \in subs'[v],
                      ~t.active, t.sub # 0
               PROVE  \E s \in subs[v] : /\ s.sub = t.sub
                                         /\ s.active => s.missed = MaxMissed - 1
    BY DEF subsVars
  <2>1. subs[v] \subseteq Record
    BY DEF SubsInv, SubsTypeOK
  <2>2. CASE t \in subs[v]
    BY <2>2
  <2>3. ASSUME NEW w \in Vans, NEW started \in SUBSET rules, SubscribeVan(w, started)
        PROVE  t \in subs[v]
    <3>1. SubsTypeOK
      BY DEF SubsInv
    <3>2. CASE w = v
      <4>1. PICK r \in rules : t = Applied(r, started)
        BY <2>3, <3>1, <3>2 DEF SubscribeVan, SubsTypeOK
      <4> QED BY <3>1, <4>1, AppliedIs
    <3>3. CASE w # v
      BY <2>3, <3>1, <3>3 DEF SubscribeVan, SubsTypeOK
    <3> QED BY <3>2, <3>3
  <2>4. ASSUME NEW w \in Vans, UnsubscribeVan(w) PROVE t \in subs[v]
    BY <2>4 DEF UnsubscribeVan, SubsInv, SubsTypeOK
  <2>5. CASE Tick
    <3>1. PICK s \in subs[v] : t = Judged(s)
      BY <2>5 DEF Tick
    <3>2. s \in Record /\ (s.active => s.missed < MaxMissed)
      BY <2>1 DEF SubsInv, ActiveHaveMissesLeft
    <3> QED BY <3>1, <3>2, JudgedIs
  <2>6. ASSUME NEW d \in 1 .. MaxLag, Elapse(d)
        PROVE  \E s \in subs[v] : s.sub = t.sub /\ ~s.active
    BY <2>1, <2>6, AgedIs DEF Elapse
  <2> QED BY <2>2, <2>3, <2>4, <2>5, <2>6
          DEF SubsNext, AddRule, RemoveRule, SessionChanges, ProcessExits
<1>2. SubsSpec => [][Earned]_subsVars
  BY <1>1, SubsInvariant, PTL DEF SubsSpec
<1> QED BY <1>2 DEF LossTakesSilentPasses
================================================================================
