------------------------------ MODULE Node_proofs ------------------------------
(***************************************************************************)
(* Theorems about what the process of a node runs.                         *)
(*                                                                         *)
(* Of its Thread stack (module ThreadMesh), for any number of routers, any *)
(* mesh, any timeout and any order of ticks, losses, cuts and restarts:    *)
(* the routing table and the healing engine agree about neighbours.  Of    *)
(* its Matter stack (module MatterNode), for any sessions, subscriptions,  *)
(* exchanges and intervals: exchanges end one way.                         *)
(***************************************************************************)
EXTENDS ThreadMesh, MatterNode, TLAPS

(***************************************************************************)
(* The Thread stack.                                                       *)
(***************************************************************************)
Ages == 0 .. Timeout + 1
Live == [hop : Routers, cost : 1 .. Infinite - 1, age : Ages]
Entries == Live \cup {NoRoute}
Hearings == [known : BOOLEAN, reachable : BOOLEAN, age : Ages]
Costs == [Routers -> 1 .. Infinite]

\* The tables have their types, and a route is in the table with a cost below
\* infinity or not at all.
TablesTyped ==
  /\ route \in [Routers -> [Routers -> Entries]]
  /\ heard \in [Routers -> [Routers -> Hearings]]
  /\ air \in [Routers -> [costs : Costs, to : SUBSET Routers]]

\* A route in a table of routes and what the healing engine knows of its next hop:
\* one is never fresher than the other.
Backs(states, entry) ==
  entry # NoRoute => /\ states[entry.hop].known /\ states[entry.hop].reachable
                     /\ states[entry.hop].age <= entry.age

RoutesAreBacked == \A r, d \in Routers : Backs(heard[r], route[r][d])

RoutingInv == TablesTyped /\ RoutesAreBacked

--------------------------------------------------------------------------------
(* The operators on tables.                                                  *)

LEMMA LiveIsNotNone ==
  ASSUME NEW e \in Entries
  PROVE  e \in Live <=> e.cost < Infinite
BY MeshAssumption DEF Entries, Live, NoRoute

\* What a node advertises is a cost for each router.
LEMMA AdvertisementTyped ==
  ASSUME NEW table \in [Routers -> Entries], NEW to \in SUBSET Routers
  PROVE  Advertisement(table, to) \in [costs : Costs, to : SUBSET Routers]
<1>1. \A d \in Routers : d \in Reachable(table) => table[d].cost \in 1 .. Infinite
  BY MeshAssumption, LiveIsNotNone DEF Reachable, Live
<1>2. [d \in Routers |-> IF d \in Reachable(table) THEN table[d].cost ELSE Infinite] \in Costs
  BY <1>1, MeshAssumption DEF Costs
<1> QED BY <1>2 DEF Advertisement

\* A listener less, and it is an advertisement still.
LEMMA FewerListeners ==
  ASSUME NEW a \in [costs : Costs, to : SUBSET Routers], NEW r
  PROVE  [a EXCEPT !.to = @ \ {r}] \in [costs : Costs, to : SUBSET Routers]
<1>1. a.to \ {r} \in SUBSET Routers /\ a.costs \in Costs
  OBVIOUS
<1> HIDE DEF Costs
<1> QED BY <1>1

\* A route that is left by the expiry was young enough, and its next hop too.
LEMMA ExpiryKeepsBacking ==
  ASSUME NEW table \in [Routers -> Entries], NEW states \in [Routers -> Hearings],
         \A d \in Routers : Backs(states, table[d])
  PROVE  /\ ExpireStaleRoutes(table) \in [Routers -> Entries]
         /\ CheckNeighborLiveness(states) \in [Routers -> Hearings]
         /\ \A d \in Routers : Backs(CheckNeighborLiveness(states), ExpireStaleRoutes(table)[d])
<1> DEFINE left == ExpireStaleRoutes(table)
           seen == CheckNeighborLiveness(states)
<1>1. left \in [Routers -> Entries]
  BY DEF ExpireStaleRoutes, Entries
<1>2. ASSUME NEW n \in Routers
      PROVE  /\ seen[n] \in Hearings
             /\ seen[n].known = states[n].known /\ seen[n].age = states[n].age
             /\ seen[n].reachable <=> states[n].reachable /\ states[n].age <= Timeout
  <2>1. seen[n] = [known |-> states[n].known,
                   reachable |-> states[n].reachable /\ states[n].age <= Timeout,
                   age |-> states[n].age]
    BY DEF CheckNeighborLiveness, Hearings
  <2>2. states[n] \in Hearings
    OBVIOUS
  <2>3. states[n].known \in BOOLEAN /\ states[n].reachable \in BOOLEAN /\ states[n].age \in Ages
    BY <2>2 DEF Hearings
  <2>4. (states[n].reachable /\ states[n].age <= Timeout) \in BOOLEAN
    OBVIOUS
  <2>5. [known |-> states[n].known,
         reachable |-> states[n].reachable /\ states[n].age <= Timeout,
         age |-> states[n].age] \in Hearings
    BY <2>3, <2>4 DEF Hearings
  <2> HIDE DEF seen
  <2>6. seen[n] \in Hearings
    BY <2>1, <2>5
  <2>7. /\ seen[n].known = states[n].known /\ seen[n].age = states[n].age
        /\ seen[n].reachable = (states[n].reachable /\ states[n].age <= Timeout)
    BY <2>1
  <2> QED BY <2>6, <2>7, Zenon
<1>3. seen \in [Routers -> Hearings]
  <2>1. seen = [n \in Routers |-> seen[n]]
    BY DEF CheckNeighborLiveness
  <2> HIDE DEF seen
  <2> QED BY <1>2, <2>1
<1>4. ASSUME NEW d \in Routers, left[d] # NoRoute PROVE Backs(seen, left[d])
  <2>1. left[d] = table[d] /\ ~(table[d].age > Timeout)
    BY <1>4 DEF ExpireStaleRoutes
  <2>2. table[d] \in Live
    BY <1>4, <2>1 DEF Entries
  <2>3. table[d].hop \in Routers /\ table[d].age \in Ages
    BY <2>2 DEF Live
  <2>4. /\ states[table[d].hop].known /\ states[table[d].hop].reachable
        /\ states[table[d].hop].age <= table[d].age
    BY <1>4, <2>1 DEF Backs
  <2>5. states[table[d].hop].age \in Ages
    BY <2>3 DEF Hearings
  <2>6. states[table[d].hop].age <= Timeout
    BY <2>1, <2>3, <2>4, <2>5, MeshAssumption DEF Ages
  <2> HIDE DEF seen, left
  <2> QED BY <1>2, <2>1, <2>3, <2>4, <2>6 DEF Backs
<1> QED BY <1>1, <1>3, <1>4 DEF Backs

\* An advertisement makes its sender heard now, and changes only routes over it.
LEMMA UpdateKeepsBacking ==
  ASSUME NEW r \in Routers, NEW n \in Routers, NEW costs \in Costs,
         NEW table \in [Routers -> Entries], NEW states \in [Routers -> Hearings],
         \A d \in Routers : Backs(states, table[d])
  PROVE  /\ UpdateFromAdvertisement(r, table, n, costs) \in [Routers -> Entries]
         /\ OnNeighborHeard(states, n) \in [Routers -> Hearings]
         /\ \A d \in Routers :
              Backs(OnNeighborHeard(states, n), UpdateFromAdvertisement(r, table, n, costs)[d])
<1> DEFINE direct == AddDirectNeighbor(table, n)
           new == UpdateFromAdvertisement(r, table, n, costs)
           seen == OnNeighborHeard(states, n)
<1>0. 0 \in Ages /\ 1 \in 1 .. Infinite - 1
  BY MeshAssumption DEF Ages
<1>1. ASSUME NEW d \in Routers
      PROVE  new[d] = table[d] \/ new[d] = NoRoute \/ (new[d] \in Live /\ new[d].hop = n /\ new[d].age = 0)
  <2>1. direct[d] = IF d = n THEN [hop |-> n, cost |-> 1, age |-> 0] ELSE table[d]
    BY DEF AddDirectNeighbor
  <2>2. [hop |-> n, cost |-> 1, age |-> 0] \in Live
    BY <1>0 DEF Live
  <2>3. costs[d] \in 1 .. Infinite
    BY DEF Costs
  <2>4. CostVia(costs[d]) < Infinite =>
          [hop |-> n, cost |-> CostVia(costs[d]), age |-> 0] \in Live
    <3>1. CostVia(costs[d]) < Infinite => CostVia(costs[d]) \in 1 .. Infinite - 1
      BY <2>3, MeshAssumption DEF CostVia
    <3> QED BY <3>1, <1>0 DEF Live
  <2>5. \/ new[d] = direct[d]
        \/ CostVia(costs[d]) < Infinite /\ new[d] = [hop |-> n, cost |-> CostVia(costs[d]), age |-> 0]
        \/ new[d] = NoRoute
    BY DEF UpdateFromAdvertisement
  <2> QED BY <2>1, <2>2, <2>4, <2>5
<1>2. \A d \in Routers : new[d] \in Entries
  <2> HIDE DEF new
  <2> QED BY <1>1 DEF Entries
<1>3. new \in [Routers -> Entries]
  <2>1. new = [d \in Routers |-> new[d]]
    BY DEF UpdateFromAdvertisement
  <2> HIDE DEF new
  <2> QED BY <1>2, <2>1
<1>4. seen[n] = [known |-> TRUE, reachable |-> TRUE, age |-> 0]
      /\ \A m \in Routers \ {n} : seen[m] = states[m]
  BY DEF OnNeighborHeard
<1>5. seen \in [Routers -> Hearings]
  <2>1. [known |-> TRUE, reachable |-> TRUE, age |-> 0] \in Hearings
    BY <1>0 DEF Hearings
  <2> QED BY <2>1 DEF OnNeighborHeard
<1>6. ASSUME NEW d \in Routers, new[d] # NoRoute PROVE Backs(seen, new[d])
  <2>1. new[d] \in Live /\ new[d].hop \in Routers /\ new[d].age \in Ages
    BY <1>2, <1>6 DEF Entries, Live
  <2>2. CASE new[d].hop = n
    <3> HIDE DEF new, seen
    <3>1. 0 <= new[d].age
      BY <2>1, MeshAssumption DEF Ages
    <3> QED BY <1>4, <2>2, <3>1 DEF Backs
  <2>3. CASE new[d].hop # n
    <3> HIDE DEF new, seen
    <3>1. new[d] = table[d]
      BY <1>1, <1>6, <2>3
    <3>2. seen[new[d].hop] = states[new[d].hop]
      BY <1>4, <2>1, <2>3
    <3> QED BY <3>1, <3>2 DEF Backs
  <2> QED BY <2>2, <2>3
<1> QED BY <1>3, <1>5, <1>6 DEF Backs

--------------------------------------------------------------------------------
(* The steps.                                                                *)

LEMMA RoutingStarts == MeshInit => RoutingInv
<1> SUFFICES ASSUME MeshInit PROVE RoutingInv
  OBVIOUS
<1>1. 0 \in Ages /\ Infinite \in 1 .. Infinite
  BY MeshAssumption DEF Ages
<1>2. Unheard \in Hearings
  BY <1>1 DEF Hearings, Unheard
<1>3. Silence \in [costs : Costs, to : SUBSET Routers]
  BY <1>1 DEF Silence, Costs
<1>4. TablesTyped
  BY <1>2, <1>3 DEF TablesTyped, MeshInit, Fresh, FreshHealing, Entries
<1>5. RoutesAreBacked
  BY DEF RoutesAreBacked, Backs, MeshInit, Fresh
<1> QED BY <1>4, <1>5 DEF RoutingInv

LEMMA TickKeepsRouting ==
  ASSUME RoutingInv, NEW r \in Routers, Tick(r)
  PROVE  RoutingInv'
<1>1. /\ route[r] \in [Routers -> Entries] /\ heard[r] \in [Routers -> Hearings]
      /\ \A d \in Routers : Backs(heard[r], route[r][d])
  BY DEF RoutingInv, TablesTyped, RoutesAreBacked
<1>2. /\ route' = [route EXCEPT ![r] = ExpireStaleRoutes(route[r])]
      /\ heard' = [heard EXCEPT ![r] = CheckNeighborLiveness(heard[r])]
      /\ air' = [air EXCEPT ![r] = Advertisement(route[r], Neighbours(r))]
  BY DEF Tick, SendMLEAdvertisement
<1>3. Advertisement(route[r], Neighbours(r)) \in [costs : Costs, to : SUBSET Routers]
  BY <1>1, AdvertisementTyped DEF Neighbours
<1>4. /\ ExpireStaleRoutes(route[r]) \in [Routers -> Entries]
      /\ CheckNeighborLiveness(heard[r]) \in [Routers -> Hearings]
      /\ \A d \in Routers : Backs(CheckNeighborLiveness(heard[r]), ExpireStaleRoutes(route[r])[d])
  BY <1>1, ExpiryKeepsBacking
<1>5. TablesTyped'
  BY <1>2, <1>3, <1>4 DEF RoutingInv, TablesTyped
<1>6. RoutesAreBacked'
  BY <1>2, <1>4 DEF RoutingInv, TablesTyped, RoutesAreBacked
<1> QED BY <1>5, <1>6 DEF RoutingInv

LEMMA ReceiveKeepsRouting ==
  ASSUME RoutingInv, NEW r \in Routers, NEW n \in Routers, Receive(r, n)
  PROVE  RoutingInv'
<1> DEFINE new == UpdateFromAdvertisement(r, route[r], n, air[n].costs)
           seen == OnNeighborHeard(heard[r], n)
<1>1. /\ route[r] \in [Routers -> Entries] /\ heard[r] \in [Routers -> Hearings]
      /\ air[n].costs \in Costs /\ air[n].to \in SUBSET Routers
      /\ \A d \in Routers : Backs(heard[r], route[r][d])
  BY DEF RoutingInv, TablesTyped, RoutesAreBacked
<1>2. /\ route' = [route EXCEPT ![r] = new] /\ heard' = [heard EXCEPT ![r] = seen]
      /\ air' = [air EXCEPT ![n] = [air[n] EXCEPT !.to = @ \ {r}]]
  BY DEF Receive
<1>3. [air[n] EXCEPT !.to = @ \ {r}] \in [costs : Costs, to : SUBSET Routers]
  BY FewerListeners DEF RoutingInv, TablesTyped
<1>4. /\ new \in [Routers -> Entries] /\ seen \in [Routers -> Hearings]
      /\ \A d \in Routers : Backs(seen, new[d])
  BY <1>1, UpdateKeepsBacking
<1> HIDE DEF new, seen
<1>5. TablesTyped'
  BY <1>2, <1>3, <1>4 DEF RoutingInv, TablesTyped
<1>6. RoutesAreBacked'
  BY <1>2, <1>4 DEF RoutingInv, TablesTyped, RoutesAreBacked
<1> QED BY <1>5, <1>6 DEF RoutingInv

\* Routes and reachable neighbours grow older together; a neighbour that is lost
\* stays as it is, and no route leads over it.
LEMMA ElapseKeepsRouting ==
  ASSUME RoutingInv, Elapse
  PROVE  RoutingInv'
<1> DEFINE older(age) == IF age > Timeout THEN age ELSE age + 1
<1>1. /\ route' = [r \in Routers |-> [d \in Routers |->
                     IF route[r][d] = NoRoute THEN NoRoute
                     ELSE [route[r][d] EXCEPT !.age = older(@)]]]
      /\ heard' = [r \in Routers |-> [n \in Routers |->
                     IF heard[r][n].reachable THEN [heard[r][n] EXCEPT !.age = older(@)]
                     ELSE heard[r][n]]]
      /\ air' = [r \in Routers |-> Silence]
  BY DEF Elapse
<1>2. \A a, b \in Ages : /\ older(a) \in Ages
                         /\ a <= b => older(a) <= older(b)
  BY MeshAssumption DEF Ages
<1> HIDE DEF older
<1>3. ASSUME NEW r \in Routers, NEW n \in Routers
      PROVE  /\ heard'[r][n] \in Hearings
             /\ heard'[r][n].known = heard[r][n].known /\ heard'[r][n].reachable = heard[r][n].reachable
             /\ heard[r][n].reachable => heard'[r][n].age = older(heard[r][n].age)
  <2>1. heard[r][n] \in Hearings
    BY DEF RoutingInv, TablesTyped
  <2>2. CASE heard[r][n].reachable
    <3>1. heard'[r][n] = [known |-> heard[r][n].known, reachable |-> heard[r][n].reachable,
                          age |-> older(heard[r][n].age)]
      BY <1>1, <2>1, <2>2 DEF Hearings
    <3>2. /\ heard[r][n].known \in BOOLEAN /\ heard[r][n].reachable \in BOOLEAN
          /\ older(heard[r][n].age) \in Ages
      BY <1>2, <2>1 DEF Hearings
    <3> QED BY <3>1, <3>2 DEF Hearings
  <2>3. CASE ~heard[r][n].reachable
    BY <1>1, <2>1, <2>3
  <2> QED BY <2>2, <2>3
<1>4. ASSUME NEW r \in Routers, NEW d \in Routers
      PROVE  /\ route'[r][d] \in Entries
             /\ route'[r][d] # NoRoute => /\ route[r][d] \in Live
                                          /\ route'[r][d].hop = route[r][d].hop
                                          /\ route'[r][d].age = older(route[r][d].age)
  <2>1. route[r][d] \in Entries
    BY DEF RoutingInv, TablesTyped
  <2>2. CASE route[r][d] = NoRoute
    BY <1>1, <2>2 DEF Entries
  <2>3. CASE route[r][d] # NoRoute
    <3>1. route[r][d] \in Live
      BY <2>1, <2>3 DEF Entries
    <3>2. route'[r][d] = [hop |-> route[r][d].hop, cost |-> route[r][d].cost,
                          age |-> older(route[r][d].age)]
      BY <1>1, <2>3, <3>1 DEF Live
    <3>3. route'[r][d] \in Live
      BY <1>2, <3>1, <3>2 DEF Live
    <3> QED BY <3>1, <3>2, <3>3 DEF Entries
  <2> QED BY <2>2, <2>3
<1>5. Silence \in [costs : Costs, to : SUBSET Routers]
  <2>1. Infinite \in 1 .. Infinite
    BY MeshAssumption
  <2> QED BY <2>1 DEF Silence, Costs
<1>6. TablesTyped'
  <2>1. route' = [r \in Routers |-> [d \in Routers |-> route'[r][d]]]
    BY <1>1
  <2>2. heard' = [r \in Routers |-> [n \in Routers |-> heard'[r][n]]]
    BY <1>1
  <2>3. route' \in [Routers -> [Routers -> Entries]]
    BY <1>4, <2>1
  <2>4. heard' \in [Routers -> [Routers -> Hearings]]
    BY <1>3, <2>2
  <2> QED BY <1>1, <1>5, <2>3, <2>4 DEF TablesTyped
<1>7. ASSUME NEW r \in Routers, NEW d \in Routers, route'[r][d] # NoRoute
      PROVE  Backs(heard'[r], route'[r][d])
  <2> DEFINE n == route[r][d].hop
  <2>1. /\ route[r][d] \in Live /\ route'[r][d].hop = n
        /\ route'[r][d].age = older(route[r][d].age)
    BY <1>4, <1>7
  <2>2. route[r][d] # NoRoute /\ n \in Routers /\ route[r][d].age \in Ages
    BY <1>1, <1>7, <2>1 DEF Live
  <2>3. heard[r][n].known /\ heard[r][n].reachable /\ heard[r][n].age <= route[r][d].age
    BY <2>2 DEF RoutingInv, RoutesAreBacked, Backs
  <2>4. heard[r][n].age \in Ages
    BY <2>2 DEF RoutingInv, TablesTyped, Hearings
  <2>5. older(heard[r][n].age) <= older(route[r][d].age)
    BY <1>2, <2>2, <2>3, <2>4
  <2>6. /\ heard'[r][n].known /\ heard'[r][n].reachable
        /\ heard'[r][n].age = older(heard[r][n].age)
    BY <1>3, <2>2, <2>3
  <2> QED BY <2>1, <2>5, <2>6 DEF Backs
<1> QED BY <1>6, <1>7 DEF RoutingInv, RoutesAreBacked, Backs

LEMMA LoseKeepsRouting ==
  ASSUME RoutingInv, NEW r \in Routers, NEW n \in Routers, Lose(n, r)
  PROVE  RoutingInv'
<1>1. [air[n] EXCEPT !.to = @ \ {r}] \in [costs : Costs, to : SUBSET Routers]
  BY FewerListeners DEF RoutingInv, TablesTyped
<1> QED BY <1>1 DEF Lose, RoutingInv, TablesTyped, RoutesAreBacked

LEMMA RestartKeepsRouting ==
  ASSUME RoutingInv, NEW r \in Routers, Restart(r)
  PROVE  RoutingInv'
<1>1. /\ route' = [route EXCEPT ![r] = Fresh] /\ heard' = [heard EXCEPT ![r] = FreshHealing]
      /\ air' = [n \in Routers |-> [air[n] EXCEPT !.to = @ \ {r}]]
  BY DEF Restart
<1>2. Fresh \in [Routers -> Entries]
  BY DEF Fresh, Entries
<1>3. FreshHealing \in [Routers -> Hearings]
  <2>1. 0 \in Ages
    BY MeshAssumption DEF Ages
  <2> QED BY <2>1 DEF FreshHealing, Unheard, Hearings
<1>4. air' \in [Routers -> [costs : Costs, to : SUBSET Routers]]
  <2>1. ASSUME NEW n \in Routers
        PROVE  [air[n] EXCEPT !.to = @ \ {r}] \in [costs : Costs, to : SUBSET Routers]
    BY FewerListeners DEF RoutingInv, TablesTyped
  <2> QED BY <1>1, <2>1
<1>5. TablesTyped'
  BY <1>1, <1>2, <1>3, <1>4 DEF RoutingInv, TablesTyped
<1>6. RoutesAreBacked'
  BY <1>1 DEF RoutingInv, TablesTyped, RoutesAreBacked, Backs, Fresh
<1> QED BY <1>5, <1>6 DEF RoutingInv

LEMMA RoutingSteps == RoutingInv /\ [MeshNext]_vars => RoutingInv'
<1> SUFFICES ASSUME RoutingInv, [MeshNext]_vars PROVE RoutingInv'
  OBVIOUS
<1>1. CASE Runs
  BY <1>1, TickKeepsRouting, ReceiveKeepsRouting, ElapseKeepsRouting DEF Runs
<1>2. CASE \E r \in Routers : Restart(r) \/ \E n \in Routers : Lose(n, r)
  BY <1>2, RestartKeepsRouting, LoseKeepsRouting
<1>3. CASE \E l \in Mesh : LinkDown(l) \/ LinkUp(l)
  BY <1>3 DEF LinkDown, LinkUp, RoutingInv, TablesTyped, RoutesAreBacked
<1>4. CASE UNCHANGED vars
  BY <1>4 DEF vars, RoutingInv, TablesTyped, RoutesAreBacked
<1> QED BY <1>1, <1>2, <1>3, <1>4 DEF MeshNext, Environment

LEMMA RoutingInvariant == MeshSpec => []RoutingInv
BY RoutingStarts, RoutingSteps, PTL DEF MeshSpec

\* Routing tables hold routes over routers, at a cost below infinity and no older
\* than one tick past the timeout, or nothing.
THEOREM RoutingTypeCorrect == MeshSpec => []TablesTyped
<1>1. RoutingInv => TablesTyped
  BY DEF RoutingInv
<1> QED BY <1>1, RoutingInvariant, PTL

\* A node never forwards to a neighbour that its healing engine has reported lost:
\* the two timeouts, kept in two tables, never let a route outlive its next hop.
THEOREM NoRouteOverTheLost == MeshSpec => []LostCarryNoRoute
<1>1. ASSUME RoutingInv PROVE LostCarryNoRoute
  <2> SUFFICES ASSUME NEW r \in Routers, NEW d \in Routers, ForwardsTo(r, d) # NoRouter
               PROVE  LET h == heard[r][ForwardsTo(r, d)]
                      IN h.known /\ h.reachable /\ h.age <= route[r][d].age
    BY DEF LostCarryNoRoute
  <2>1. d \in Reachable(route[r]) /\ ForwardsTo(r, d) = route[r][d].hop
    BY DEF ForwardsTo, NextHop
  <2>2. route[r][d] # NoRoute
    BY <2>1, MeshAssumption DEF Reachable, NoRoute
  <2> QED BY <1>1, <2>1, <2>2 DEF RoutingInv, RoutesAreBacked, Backs
<1> QED BY <1>1, RoutingInvariant, PTL

--------------------------------------------------------------------------------
(***************************************************************************)
(* The Matter stack.                                                       *)
(***************************************************************************)
SubStates == {"none", "active", "inactive"}
ExchangeStates == {"none", "waiting", "answered", "completed", "gone"}
SessionRecords == [state : {"none", "active", "expired", "destroyed"}, idle : Nat]
SubRecords == [state : SubStates, on : Sessions \cup {NoSub.on}, report : Nat \cup {Never},
               live : Nat \cup {Never}, missed : Nat]
ExchangeRecords == [state : ExchangeStates, age : Nat, sent : 0 .. MaxRetransmits]

\* The variables have their types; an exchange has not been sent again more often
\* than it may.
MatterTyped ==
  /\ session \in [Sessions -> SessionRecords]
  /\ sub \in [Subs -> SubRecords]
  /\ exchange \in [Exchanges -> ExchangeRecords]
  /\ dirty \subseteq Subs /\ outcome \in [Exchanges -> SUBSET {"response", "timeout"}]

\* An exchange has the outcome of its state; one that its owner completed may have
\* none.
Fits(state, happened) ==
  /\ state \in {"none", "waiting"} => happened = {}
  /\ state = "answered" => happened = {"response"}
  /\ state = "completed" => happened \in {{}, {"response"}}
  /\ state = "gone" => happened \in {{}, {"response"}, {"timeout"}}

OutcomeFollowsState == \A e \in Exchanges : Fits(exchange[e].state, outcome[e])

\* Changes are kept only for subscriptions that can still report them, and a
\* subscription out of misses is not active.
DirtyCanBeReported ==
  /\ \A i \in dirty : sub[i].state = "active"
  /\ \A i \in Subs : sub[i].state = "active" => sub[i].missed < MaxMissed

MatterInv == MatterTyped /\ OutcomeFollowsState /\ DirtyCanBeReported

--------------------------------------------------------------------------------
(* Exchanges.                                                                *)

\* A tick ends an exchange that is completed or out of retransmissions, and tells
\* the owner in the second case only.
LEMMA TickFitsExchange ==
  ASSUME NEW x \in ExchangeRecords, NEW happened \in SUBSET {"response", "timeout"}, Fits(x.state, happened)
  PROVE  /\ Retried(x) \in ExchangeRecords
         /\ Fits(Retried(x).state, IF TimesOut(x) THEN happened \cup {"timeout"} ELSE happened)
<1>1. /\ x = [state |-> x.state, age |-> x.age, sent |-> x.sent]
      /\ x.state \in ExchangeStates /\ x.age \in Nat /\ x.sent \in 0 .. MaxRetransmits
  BY DEF ExchangeRecords
<1>2. CASE x.state = "completed" \/ TimesOut(x)
  <2>1. Retried(x) = [state |-> "gone", age |-> x.age, sent |-> x.sent]
    BY <1>1, <1>2 DEF Retried
  <2>2. Retried(x) \in ExchangeRecords /\ Retried(x).state = "gone"
    BY <1>1, <2>1 DEF ExchangeRecords, ExchangeStates
  <2>3. TimesOut(x) => happened = {}
    BY DEF TimesOut, Fits
  <2>4. ~TimesOut(x) => happened \in {{}, {"response"}}
    BY <1>2 DEF Fits
  <2>5. (IF TimesOut(x) THEN happened \cup {"timeout"} ELSE happened) \in {{}, {"response"}, {"timeout"}}
    BY <2>3, <2>4
  <2> QED BY <2>2, <2>5 DEF Fits
<1>3. CASE ~(x.state = "completed" \/ TimesOut(x)) /\ x.state = "waiting" /\ x.age > ExchangeTimeout
  <2>1. Retried(x) = [state |-> x.state, age |-> 0, sent |-> x.sent + 1]
    BY <1>1, <1>3 DEF Retried
  <2>2. x.sent + 1 \in 0 .. MaxRetransmits
    BY <1>1, <1>3, MatterAssumption DEF TimesOut
  <2>3. Retried(x) \in ExchangeRecords /\ Retried(x).state = x.state
    BY <1>1, <2>1, <2>2 DEF ExchangeRecords
  <2> QED BY <1>3, <2>3
<1>4. CASE ~(x.state = "completed" \/ TimesOut(x)) /\ ~(x.state = "waiting" /\ x.age > ExchangeTimeout)
  <2>1. Retried(x) = x
    BY <1>4 DEF Retried
  <2> QED BY <1>4, <2>1
<1> QED BY <1>2, <1>3, <1>4

\* The handlers of one exchange: the others are as they were.
LEMMA OneExchangeKeeps ==
  ASSUME MatterInv, NEW e \in Exchanges, NEW x \in ExchangeRecords,
         NEW happened \in SUBSET {"response", "timeout"}, Fits(x.state, happened),
         exchange' = [exchange EXCEPT ![e] = x], outcome' = [outcome EXCEPT ![e] = happened],
         UNCHANGED <<session, sub, dirty>>
  PROVE  MatterInv'
<1>1. MatterTyped' /\ DirtyCanBeReported'
  BY DEF MatterInv, MatterTyped, DirtyCanBeReported
<1>2. exchange'[e] = x /\ outcome'[e] = happened
  BY DEF MatterInv, MatterTyped
<1>3. \A o \in Exchanges : o # e => exchange'[o] = exchange[o] /\ outcome'[o] = outcome[o]
  BY DEF MatterInv, MatterTyped
<1>4. OutcomeFollowsState'
  BY <1>2, <1>3 DEF MatterInv, OutcomeFollowsState
<1> QED BY <1>1, <1>4 DEF MatterInv

LEMMA ExchangeKeeps ==
  ASSUME MatterInv, NEW e \in Exchanges, Initiate(e) \/ OnMessageReceived(e) \/ Complete(e)
  PROVE  MatterInv'
<1>1. exchange[e] \in ExchangeRecords /\ Fits(exchange[e].state, outcome[e]) /\ outcome \in [Exchanges -> SUBSET {"response", "timeout"}]
  BY DEF MatterInv, MatterTyped, OutcomeFollowsState
<1>2. /\ exchange[e].state \in ExchangeStates /\ exchange[e].age \in Nat /\ exchange[e].sent \in 0 .. MaxRetransmits
      /\ \A state \in ExchangeStates :
           [exchange[e] EXCEPT !.state = state] = [state |-> state, age |-> exchange[e].age, sent |-> exchange[e].sent]
  BY <1>1 DEF ExchangeRecords
<1>3. \A state \in ExchangeStates : /\ [exchange[e] EXCEPT !.state = state] \in ExchangeRecords
                                    /\ [exchange[e] EXCEPT !.state = state].state = state
  BY <1>2 DEF ExchangeRecords
<1>4. CASE Initiate(e)
  <2> DEFINE x == [state |-> "waiting", age |-> ExchangeTimeout + 1, sent |-> 0]
  <2>1. x \in ExchangeRecords /\ x.state = "waiting"
    BY MatterAssumption DEF ExchangeRecords, ExchangeStates
  <2>2. exchange' = [exchange EXCEPT ![e] = x] /\ exchange[e].state = "none" /\ UNCHANGED <<session, sub, dirty, outcome>>
    BY <1>4 DEF Initiate
  <2> HIDE DEF x
  <2>3. outcome[e] = {} /\ outcome' = [outcome EXCEPT ![e] = {}] /\ Fits(x.state, {})
    BY <1>1, <2>1, <2>2 DEF Fits
  <2> QED BY <2>1, <2>2, <2>3, OneExchangeKeeps
<1>5. CASE OnMessageReceived(e)
  <2> DEFINE state == IF exchange[e].state = "waiting" THEN "answered" ELSE exchange[e].state
             x == [exchange[e] EXCEPT !.state = state]
  <2>1. /\ exchange[e].state \in {"waiting", "answered", "completed"}
        /\ UNCHANGED <<session, sub, dirty>>
        /\ exchange' = [exchange EXCEPT ![e] = x]
        /\ outcome' = [outcome EXCEPT ![e] = outcome[e] \cup {"response"}]
    BY <1>5 DEF OnMessageReceived
  <2>2. state \in {"answered", "completed"} /\ state \in ExchangeStates
    BY <2>1 DEF ExchangeStates
  <2>3. outcome[e] \cup {"response"} = {"response"}
    BY <1>1, <2>1 DEF Fits
  <2> HIDE DEF state
  <2>4. x \in ExchangeRecords /\ x.state = state
    BY <1>3, <2>2
  <2> HIDE DEF x
  <2>5. outcome' = [outcome EXCEPT ![e] = {"response"}] /\ Fits(x.state, {"response"})
    BY <2>1, <2>2, <2>3, <2>4 DEF Fits
  <2> QED BY <2>1, <2>4, <2>5, OneExchangeKeeps
<1>6. CASE Complete(e)
  <2> DEFINE x == [exchange[e] EXCEPT !.state = "completed"]
  <2>1. exchange[e].state \in {"waiting", "answered", "completed"} /\ exchange' = [exchange EXCEPT ![e] = x] /\ UNCHANGED <<session, sub, dirty, outcome>>
    BY <1>6 DEF Complete
  <2>2. x \in ExchangeRecords /\ x.state = "completed"
    BY <1>3 DEF ExchangeStates
  <2> HIDE DEF x
  <2>3. outcome[e] \in {{}, {"response"}}
    BY <1>1, <2>1 DEF Fits
  <2>4. outcome' = [outcome EXCEPT ![e] = outcome[e]] /\ outcome[e] \in SUBSET {"response", "timeout"}
        /\ Fits(x.state, outcome[e])
    BY <1>1, <2>1, <2>2, <2>3 DEF Fits
  <2> QED BY <2>1, <2>2, <2>4, OneExchangeKeeps
<1> QED BY <1>4, <1>5, <1>6

--------------------------------------------------------------------------------
(* Sessions and subscriptions.                                               *)

\* A step that touches no exchange keeps what is kept of exchanges.
LEMMA ExchangesUntouched ==
  ASSUME MatterInv, UNCHANGED <<exchange, outcome>>,
         session' \in [Sessions -> SessionRecords], sub' \in [Subs -> SubRecords], dirty' \subseteq Subs,
         DirtyCanBeReported'
  PROVE  MatterInv'
BY DEF MatterInv, MatterTyped, OutcomeFollowsState

\* Neither does one for a session alone.
LEMMA SessionKeeps ==
  ASSUME MatterInv, NEW s \in Sessions, CreateSession(s) \/ DestroySession(s) \/ Use(s)
  PROVE  MatterInv'
<1>1. UNCHANGED <<sub, exchange, dirty, outcome>>
  BY DEF CreateSession, DestroySession, Use
<1>2. session \in [Sessions -> SessionRecords] /\ session[s] \in SessionRecords
  BY DEF MatterInv, MatterTyped
<1>3. session' \in [Sessions -> SessionRecords]
  <2>1. CASE CreateSession(s)
    BY <1>2, <2>1, MatterAssumption DEF CreateSession, SessionRecords
  <2>2. CASE DestroySession(s)
    BY <1>2, <2>2 DEF DestroySession, SessionRecords
  <2>3. CASE Use(s)
    BY <1>2, <2>3 DEF Use, UpdateActivity, SessionRecords
  <2> QED BY <2>1, <2>2, <2>3
<1>4. DirtyCanBeReported'
  BY <1>1 DEF MatterInv, DirtyCanBeReported
<1> QED BY <1>1, <1>3, <1>4, ExchangesUntouched DEF MatterInv, MatterTyped

\* A subscription's record with another state, or another age of its last report.
LEMMA SubFields ==
  ASSUME NEW r \in SubRecords
  PROVE  /\ r.state \in SubStates /\ r.on \in Sessions \cup {NoSub.on}
         /\ r.report \in Nat \cup {Never} /\ r.live \in Nat \cup {Never} /\ r.missed \in Nat
         /\ r = [state |-> r.state, on |-> r.on, report |-> r.report, live |-> r.live, missed |-> r.missed]
BY DEF SubRecords

LEMMA SubReports ==
  ASSUME NEW r \in SubRecords, NEW age \in Nat, NEW x, x = [r EXCEPT !.report = age]
  PROVE  x \in SubRecords /\ x.state = r.state /\ x.missed = r.missed
<1>1. x = [state |-> r.state, on |-> r.on, report |-> age, live |-> r.live, missed |-> r.missed]
  BY SubFields
<1> QED BY <1>1, SubFields DEF SubRecords

LEMMA SubLives ==
  ASSUME NEW r \in SubRecords, NEW x, x = [r EXCEPT !.live = 0, !.missed = 0]
  PROVE  x \in SubRecords /\ x.state = r.state /\ x.missed = 0
<1>1. x \in SubRecords
  BY SubFields DEF SubRecords
<1>2. x.state = r.state /\ x.missed = 0
  BY SubFields DEF SubRecords
<1> QED BY <1>1, <1>2

LEMMA SubTurns ==
  ASSUME NEW r \in SubRecords, NEW state \in SubStates, NEW x, x = [r EXCEPT !.state = state]
  PROVE  x \in SubRecords /\ x.state = state /\ x.missed = r.missed
<1>1. x = [state |-> state, on |-> r.on, report |-> r.report, live |-> r.live, missed |-> r.missed]
  BY SubFields
<1> QED BY <1>1, SubFields DEF SubRecords

\* A missed liveness check: the last one makes the subscription inactive.
LEMMA MissedKeeps ==
  ASSUME NEW r \in SubRecords
  PROVE  /\ Missed(r) \in SubRecords
         /\ Missed(r).state = "active" => r.state = "active" /\ Missed(r).missed < MaxMissed
<1>1. PICK missed : missed = r.missed + 1
  OBVIOUS
<1>2. PICK state : state = IF missed >= MaxMissed THEN "inactive" ELSE r.state
  OBVIOUS
<1>3. missed \in Nat /\ state \in SubStates /\ (state = "active" => r.state = "active" /\ missed < MaxMissed)
  BY <1>1, <1>2, SubFields, MatterAssumption DEF SubStates
<1>4. PICK x : x = Missed(r)
  OBVIOUS
<1>5. x = [r EXCEPT !.missed = missed, !.state = state]
  BY <1>1, <1>2, <1>4 DEF Missed
<1>6. x \in SubRecords /\ x.state = state /\ x.missed = missed
  <2>1. state \in SubStates /\ missed \in Nat
    BY <1>3
  <2>2. x \in SubRecords
    BY <1>5, <2>1, SubFields DEF SubRecords
  <2>3. x.state = state /\ x.missed = missed
    BY <1>5, <2>1, SubFields DEF SubRecords
  <2> QED BY <2>2, <2>3
<1> QED BY <1>3, <1>4, <1>6

\* One pass of tick() over a record.
LEMMA CheckedKeeps ==
  ASSUME NEW r \in SubRecords, r.state = "active" => r.missed < MaxMissed
  PROVE  /\ Checked(r) \in SubRecords
         /\ Checked(r).state = "active" => Checked(r).missed < MaxMissed
<1> DEFINE reported == IF ReportDue(r) THEN [r EXCEPT !.report = 0] ELSE r
<1> DEFINE renewed == [r EXCEPT !.report = 0]
<1>1. renewed \in SubRecords /\ renewed.state = r.state /\ renewed.missed = r.missed
  <2>1. renewed = [r EXCEPT !.report = 0] /\ 0 \in Nat
    OBVIOUS
  <2> HIDE DEF renewed
  <2> QED BY <2>1, SubReports
<1>2. reported \in SubRecords /\ reported.state = r.state /\ reported.missed = r.missed
  <2>1. CASE ReportDue(r)
    <3> HIDE DEF renewed
    <3>1. reported = renewed
      BY <2>1 DEF renewed
    <3> QED BY <1>1, <3>1
  <2>2. CASE ~ReportDue(r)
    BY <2>2
  <2> QED BY <2>1, <2>2
<1>3. Checked(r) = IF r.live # Never /\ r.live > 2 * MaxInterval THEN Missed([reported EXCEPT !.live = 0]) ELSE reported
  BY DEF Checked
<1> HIDE DEF reported
<1>4. [reported EXCEPT !.live = 0] \in SubRecords
  BY <1>2 DEF SubRecords
<1>5. CASE r.live # Never /\ r.live > 2 * MaxInterval
  BY <1>3, <1>4, <1>5, MissedKeeps
<1>6. CASE ~(r.live # Never /\ r.live > 2 * MaxInterval)
  BY <1>2, <1>3, <1>6
<1> QED BY <1>5, <1>6

LEMMA SubscriptionKeeps ==
  ASSUME MatterInv,
         \/ \E s \in Sessions, i \in Subs : SendSubscribe(s, i)
         \/ \E i \in Subs : LivenessReceived(i) \/ LivenessFailed(i)
         \/ \E I \in SUBSET Subs : Cancel(I) \/ OnDataChanged(I)
  PROVE  MatterInv'
<1>1. /\ session \in [Sessions -> SessionRecords] /\ sub \in [Subs -> SubRecords] /\ dirty \subseteq Subs
      /\ \A i \in dirty : sub[i].state = "active"
      /\ \A i \in Subs : sub[i].state = "active" => sub[i].missed < MaxMissed
  BY DEF MatterInv, MatterTyped, DirtyCanBeReported
<1>2. ASSUME NEW s \in Sessions, NEW i \in Subs, SendSubscribe(s, i) PROVE MatterInv'
  <2>1. session' \in [Sessions -> SessionRecords]
    BY <1>1, <1>2 DEF SendSubscribe, UpdateActivity, SessionRecords
  <2>2. NoSub \in SubRecords /\ NoSub.missed = 0
    BY DEF NoSub, SubRecords, SubStates
  <2>3. Created(s) \in SubRecords /\ Created(s).state = "active" /\ Created(s).missed = 0
    BY <2>2 DEF Created, SubRecords, SubStates
  <2>4. sub' = [sub EXCEPT ![i] = Created(s)] /\ sub[i].state = "none" /\ UNCHANGED <<exchange, dirty, outcome>>
    BY <1>2 DEF SendSubscribe
  <2>5. sub' \in [Subs -> SubRecords] /\ sub'[i] = Created(s) /\ \A j \in Subs : j # i => sub'[j] = sub[j]
    BY <1>1, <2>3, <2>4
  <2>6. DirtyCanBeReported'
    BY <1>1, <2>3, <2>4, <2>5, MatterAssumption DEF DirtyCanBeReported
  <2> QED BY <1>1, <2>1, <2>4, <2>5, <2>6, ExchangesUntouched
<1>3. ASSUME NEW i \in Subs, LivenessReceived(i) PROVE MatterInv'
  <2>1. sub' = [sub EXCEPT ![i].live = 0, ![i].missed = 0] /\ UNCHANGED <<session, exchange, dirty, outcome>>
    BY <1>3 DEF LivenessReceived
  <2>2. sub'[i] = [sub[i] EXCEPT !.live = 0, !.missed = 0] /\ sub[i] \in SubRecords /\ 0 \in Nat
    BY <1>1, <2>1
  <2>3. sub'[i] \in SubRecords /\ sub'[i].state = sub[i].state /\ sub'[i].missed = 0
    <3>1. PICK r \in SubRecords : r = sub[i]
      BY <2>2
    <3>2. PICK x : x = sub'[i]
      OBVIOUS
    <3>3. x = [r EXCEPT !.live = 0, !.missed = 0]
      BY <2>2, <3>1, <3>2
    <3>4. x \in SubRecords /\ x.state = r.state /\ x.missed = 0
      BY <3>3, SubLives
    <3> QED BY <3>1, <3>2, <3>4
  <2>4. \A j \in Subs : j # i => sub'[j] = sub[j]
    BY <1>1, <2>1
  <2>5. sub' \in [Subs -> SubRecords]
    BY <1>1, <2>1, <2>3, <2>4
  <2>6. DirtyCanBeReported'
    BY <1>1, <2>1, <2>3, <2>4, MatterAssumption DEF DirtyCanBeReported
  <2> QED BY <1>1, <2>1, <2>5, <2>6, ExchangesUntouched
<1>4. ASSUME NEW i \in Subs, LivenessFailed(i) PROVE MatterInv'
  <2>1. /\ sub' = [sub EXCEPT ![i] = Missed(sub[i])] /\ UNCHANGED <<session, exchange, outcome>>
        /\ dirty' = IF sub'[i].state = "inactive" THEN dirty \ {i} ELSE dirty
        /\ sub[i].state = "active"
    BY <1>4 DEF LivenessFailed
  <2>2. sub' \in [Subs -> SubRecords] /\ sub'[i] = Missed(sub[i]) /\ \A j \in Subs : j # i => sub'[j] = sub[j]
    BY <1>1, <2>1, MissedKeeps
  <2>3. /\ sub'[i].state = "active" => sub'[i].missed < MaxMissed
        /\ sub'[i].state \in {"active", "inactive"}
    <3>1. Missed(sub[i]).state \in {"active", "inactive"}
      BY <1>1, <2>1, SubFields DEF Missed
    <3> QED BY <1>1, <2>2, <3>1, MissedKeeps
  <2>4. DirtyCanBeReported'
    BY <1>1, <2>1, <2>2, <2>3 DEF DirtyCanBeReported
  <2> QED BY <1>1, <2>1, <2>2, <2>4, ExchangesUntouched
<1>5. ASSUME NEW I \in SUBSET Subs, Cancel(I) PROVE MatterInv'
  <2>1. /\ sub' = [i \in Subs |-> IF i \in I /\ sub[i].state = "active" THEN [sub[i] EXCEPT !.state = "inactive"] ELSE sub[i]]
        /\ dirty' = dirty \ I /\ UNCHANGED <<session, exchange, outcome>>
    BY <1>5 DEF Cancel
  <2>2. ASSUME NEW i \in Subs
        PROVE  sub'[i] \in SubRecords /\ (sub'[i].state = "active" \/ i \notin I => sub'[i] = sub[i])
    <3>1. CASE i \in I /\ sub[i].state = "active"
      <4>1. sub'[i] = [sub[i] EXCEPT !.state = "inactive"] /\ sub[i] \in SubRecords /\ "inactive" \in SubStates
        BY <1>1, <2>1, <3>1 DEF SubStates
      <4>2. sub'[i] \in SubRecords /\ sub'[i].state = "inactive"
        BY <4>1, SubTurns
      <4> QED BY <3>1, <4>2
    <3>2. CASE ~(i \in I /\ sub[i].state = "active")
      BY <1>1, <2>1, <3>2
    <3> QED BY <3>1, <3>2
  <2>3. sub' \in [Subs -> SubRecords]
    <3>1. sub' = [i \in Subs |-> sub'[i]]
      BY <2>1
    <3> QED BY <2>2, <3>1
  <2>4. DirtyCanBeReported'
    BY <1>1, <2>1, <2>2 DEF DirtyCanBeReported
  <2> QED BY <1>1, <2>1, <2>3, <2>4, ExchangesUntouched
<1>6. ASSUME NEW I \in SUBSET Subs, OnDataChanged(I) PROVE MatterInv'
  <2> DEFINE active == {i \in I : sub[i].state = "active"}
             told == {i \in active : ~TooSoon(i)}
  <2>1. /\ sub' = [i \in Subs |-> IF i \in told THEN [sub[i] EXCEPT !.report = 0] ELSE sub[i]]
        /\ dirty' = (dirty \cup active) \ told /\ UNCHANGED <<session, exchange, outcome>>
    BY <1>6 DEF OnDataChanged
  <2>2. ASSUME NEW i \in Subs
        PROVE  sub'[i] \in SubRecords /\ sub'[i].state = sub[i].state /\ sub'[i].missed = sub[i].missed
    <3> HIDE DEF told
    <3>1. CASE i \in told
      <4>1. sub'[i] = [sub[i] EXCEPT !.report = 0] /\ sub[i] \in SubRecords /\ 0 \in Nat
        BY <1>1, <2>1, <3>1
      <4> QED BY <4>1, SubReports
    <3>2. CASE i \notin told
      BY <1>1, <2>1, <3>2
    <3> QED BY <3>1, <3>2
  <2>3. sub' \in [Subs -> SubRecords]
    <3>1. sub' = [i \in Subs |-> sub'[i]]
      BY <2>1
    <3> QED BY <2>2, <3>1
  <2>4. DirtyCanBeReported'
    BY <1>1, <2>1, <2>2 DEF DirtyCanBeReported
  <2> QED BY <1>1, <2>1, <2>3, <2>4, ExchangesUntouched
<1> QED BY <1>2, <1>3, <1>4, <1>5, <1>6

--------------------------------------------------------------------------------
(* The ticks and the time between them.                                      *)

LEMMA TickKeeps ==
  ASSUME MatterInv, InteractionTick
  PROVE  MatterInv'
<1>1. /\ exchange' = [e \in Exchanges |-> Retried(exchange[e])]
      /\ outcome' = [e \in Exchanges |-> IF TimesOut(exchange[e]) THEN outcome[e] \cup {"timeout"} ELSE outcome[e]]
      /\ sub' = [i \in Subs |-> IF sub[i].state = "active" THEN Checked(sub[i]) ELSE sub[i]]
      /\ dirty' = {i \in dirty : sub'[i].state = "active" /\ ~ReportDue(sub[i])}
      /\ session' = [s \in Sessions |-> Expired(session[s])]
  BY DEF InteractionTick
<1>2. ASSUME NEW e \in Exchanges
      PROVE  exchange'[e] \in ExchangeRecords /\ outcome'[e] \in SUBSET {"response", "timeout"} /\ Fits(exchange'[e].state, outcome'[e])
  <2>1. exchange[e] \in ExchangeRecords /\ outcome[e] \in SUBSET {"response", "timeout"} /\ Fits(exchange[e].state, outcome[e])
    BY DEF MatterInv, MatterTyped, OutcomeFollowsState
  <2>2. /\ exchange'[e] = Retried(exchange[e])
        /\ outcome'[e] = IF TimesOut(exchange[e]) THEN outcome[e] \cup {"timeout"} ELSE outcome[e]
    BY <1>1
  <2>3. outcome'[e] \in SUBSET {"response", "timeout"}
    BY <2>1, <2>2
  <2> QED BY <2>1, <2>2, <2>3, TickFitsExchange
<1>3. ASSUME NEW i \in Subs
      PROVE  sub'[i] \in SubRecords /\ (sub'[i].state = "active" => sub'[i].missed < MaxMissed)
  <2>1. sub[i] \in SubRecords /\ (sub[i].state = "active" => sub[i].missed < MaxMissed)
    BY DEF MatterInv, MatterTyped, DirtyCanBeReported
  <2>2. sub'[i] = IF sub[i].state = "active" THEN Checked(sub[i]) ELSE sub[i]
    BY <1>1
  <2>3. CASE sub[i].state = "active"
    BY <2>1, <2>2, <2>3, CheckedKeeps
  <2>4. CASE sub[i].state # "active"
    BY <2>1, <2>2, <2>4
  <2> QED BY <2>3, <2>4
<1>4. ASSUME NEW s \in Sessions PROVE session'[s] \in SessionRecords
  <2>1. session[s] \in SessionRecords /\ session'[s] = Expired(session[s])
    BY <1>1 DEF MatterInv, MatterTyped
  <2> QED BY <2>1 DEF Expired, SessionRecords
<1>5. /\ exchange' = [e \in Exchanges |-> exchange'[e]] /\ outcome' = [e \in Exchanges |-> outcome'[e]]
      /\ sub' = [i \in Subs |-> sub'[i]] /\ session' = [s \in Sessions |-> session'[s]]
  BY <1>1
<1>6. exchange' \in [Exchanges -> ExchangeRecords] /\ outcome' \in [Exchanges -> SUBSET {"response", "timeout"}]
  BY <1>2, <1>5
<1>7. sub' \in [Subs -> SubRecords] /\ session' \in [Sessions -> SessionRecords]
  BY <1>3, <1>4, <1>5
<1>8. dirty' \subseteq Subs /\ \A i \in dirty' : sub'[i].state = "active"
  BY <1>1 DEF MatterInv, MatterTyped
<1> QED BY <1>2, <1>3, <1>6, <1>7, <1>8 DEF MatterInv, MatterTyped, OutcomeFollowsState, DirtyCanBeReported

\* Time passes: every record is as it was but for its ages.
LEMMA ElapseKeeps ==
  ASSUME MatterInv, NEW d \in 1 .. MaxLag, MatterElapse(d)
  PROVE  MatterInv'
<1> DEFINE since(age, limit) == IF age = Never THEN Never ELSE Upto(age + d, limit)
<1>1. /\ session' = [s \in Sessions |-> IF session[s].state = "active"
                       THEN [session[s] EXCEPT !.idle = Upto(@ + d, IdleTimeout + 1)] ELSE session[s]]
      /\ sub' = [i \in Subs |-> IF sub[i].state = "active"
                   THEN [sub[i] EXCEPT !.report = since(@, MaxInterval), !.live = since(@, 2 * MaxInterval + 1)] ELSE sub[i]]
      /\ exchange' = [e \in Exchanges |-> IF exchange[e].state = "waiting"
                        THEN [exchange[e] EXCEPT !.age = Upto(@ + d, ExchangeTimeout + 1)] ELSE exchange[e]]
      /\ UNCHANGED <<dirty, outcome>>
  BY DEF MatterElapse
<1>2. d \in Nat /\ IdleTimeout + 1 \in Nat /\ MaxInterval \in Nat /\ 2 * MaxInterval + 1 \in Nat /\ ExchangeTimeout + 1 \in Nat
  BY MatterAssumption
<1>3. ASSUME NEW s \in Sessions PROVE session'[s] \in SessionRecords
  <2>1. session[s] \in SessionRecords /\ session[s].idle \in Nat
    BY DEF MatterInv, MatterTyped, SessionRecords
  <2>2. PICK idle : idle = Upto(session[s].idle + d, IdleTimeout + 1)
    OBVIOUS
  <2>3. idle \in Nat
    BY <1>2, <2>1, <2>2 DEF Upto
  <2>4. session'[s] = IF session[s].state = "active" THEN [session[s] EXCEPT !.idle = idle] ELSE session[s]
    BY <1>1, <2>2
  <2> QED BY <2>1, <2>3, <2>4 DEF SessionRecords
<1>4. ASSUME NEW e \in Exchanges PROVE exchange'[e] \in ExchangeRecords /\ exchange'[e].state = exchange[e].state
  <2>1. exchange[e] \in ExchangeRecords /\ exchange[e].age \in Nat
    BY DEF MatterInv, MatterTyped, ExchangeRecords
  <2>2. PICK age : age = Upto(exchange[e].age + d, ExchangeTimeout + 1)
    OBVIOUS
  <2>3. age \in Nat
    BY <1>2, <2>1, <2>2 DEF Upto
  <2>4. exchange'[e] = IF exchange[e].state = "waiting" THEN [exchange[e] EXCEPT !.age = age] ELSE exchange[e]
    BY <1>1, <2>2
  <2> QED BY <2>1, <2>3, <2>4 DEF ExchangeRecords
<1>5. ASSUME NEW i \in Subs
      PROVE  sub'[i] \in SubRecords /\ sub'[i].state = sub[i].state /\ sub'[i].missed = sub[i].missed
  <2>1. PICK r \in SubRecords : r = sub[i]
    BY DEF MatterInv, MatterTyped
  <2>2. PICK report : report = since(r.report, MaxInterval)
    OBVIOUS
  <2>3. PICK live : live = since(r.live, 2 * MaxInterval + 1)
    OBVIOUS
  <2>4. report \in Nat \cup {Never} /\ live \in Nat \cup {Never}
    <3>1. ASSUME NEW age \in Nat \cup {Never}, NEW limit \in Nat PROVE since(age, limit) \in Nat \cup {Never}
      BY <1>2 DEF Upto, Never
    <3> HIDE DEF since
    <3> QED BY <1>2, <2>1, <2>2, <2>3, <3>1, SubFields
  <2>5. PICK x : x = sub'[i]
    OBVIOUS
  <2>6. x = IF r.state = "active" THEN [r EXCEPT !.report = report, !.live = live] ELSE r
    BY <1>1, <2>1, <2>2, <2>3, <2>5
  <2>7. x \in SubRecords
    BY <2>4, <2>6, SubFields DEF SubRecords
  <2>8. x.state = r.state /\ x.missed = r.missed
    BY <2>4, <2>6, SubFields DEF SubRecords
  <2> QED BY <2>1, <2>5, <2>7, <2>8
<1>6. /\ exchange' = [e \in Exchanges |-> exchange'[e]]
      /\ sub' = [i \in Subs |-> sub'[i]] /\ session' = [s \in Sessions |-> session'[s]]
  BY <1>1
<1>7. /\ exchange' \in [Exchanges -> ExchangeRecords]
      /\ sub' \in [Subs -> SubRecords] /\ session' \in [Sessions -> SessionRecords]
  BY <1>3, <1>4, <1>5, <1>6
<1> QED BY <1>1, <1>4, <1>5, <1>7 DEF MatterInv, MatterTyped, OutcomeFollowsState, DirtyCanBeReported

--------------------------------------------------------------------------------
LEMMA MatterStarts == MatterInit => MatterInv
<1> SUFFICES ASSUME MatterInit PROVE MatterInv
  OBVIOUS
<1>1. NoSub \in SubRecords /\ NoSub.state = "none"
  BY DEF NoSub, SubRecords, SubStates
<1>2. NoSession \in SessionRecords
  BY DEF NoSession, SessionRecords
<1>3. NoExchange \in ExchangeRecords /\ NoExchange.state = "none"
  BY MatterAssumption DEF NoExchange, ExchangeRecords, ExchangeStates
<1>4. MatterTyped
  BY <1>1, <1>2, <1>3 DEF MatterInit, MatterTyped
<1>5. OutcomeFollowsState
  BY <1>3 DEF MatterInit, OutcomeFollowsState, Fits
<1>6. DirtyCanBeReported
  BY <1>1 DEF MatterInit, DirtyCanBeReported
<1> QED BY <1>4, <1>5, <1>6 DEF MatterInv

LEMMA MatterSteps == MatterInv /\ [MatterNext]_matterVars => MatterInv'
<1> SUFFICES ASSUME MatterInv, [MatterNext]_matterVars PROVE MatterInv'
  OBVIOUS
<1>1. ASSUME NEW s \in Sessions, CreateSession(s) \/ DestroySession(s) \/ Use(s) PROVE MatterInv'
  BY <1>1, SessionKeeps
<1>2. ASSUME NEW s \in Sessions, NEW i \in Subs, SendSubscribe(s, i) PROVE MatterInv'
  BY <1>2, SubscriptionKeeps
<1>3. ASSUME NEW i \in Subs, LivenessReceived(i) \/ LivenessFailed(i) PROVE MatterInv'
  BY <1>3, SubscriptionKeeps
<1>4. ASSUME NEW I \in SUBSET Subs, Cancel(I) \/ OnDataChanged(I) PROVE MatterInv'
  BY <1>4, SubscriptionKeeps
<1>5. ASSUME NEW i \in Subs, Cancel({i}) PROVE MatterInv'
  <2>1. {i} \in SUBSET Subs
    OBVIOUS
  <2> QED BY <1>4, <1>5, <2>1
<1>6. ASSUME NEW s \in Sessions, Cancel({i \in Subs : sub[i].on = s}) PROVE MatterInv'
  <2>1. {i \in Subs : sub[i].on = s} \in SUBSET Subs
    OBVIOUS
  <2> QED BY <1>4, <1>6, <2>1
<1>7. ASSUME NEW e \in Exchanges, Initiate(e) \/ OnMessageReceived(e) \/ Complete(e) PROVE MatterInv'
  BY <1>7, ExchangeKeeps
<1>8. ASSUME NEW d \in 1 .. MaxLag, MatterElapse(d) PROVE MatterInv'
  BY <1>8, ElapseKeeps
<1>9. CASE UNCHANGED matterVars
  BY <1>9 DEF matterVars, MatterInv, MatterTyped, OutcomeFollowsState, DirtyCanBeReported
<1> QED BY <1>1, <1>2, <1>3, <1>4, <1>5, <1>6, <1>7, <1>8, <1>9, TickKeeps DEF MatterNext

\* Of a node's exchanges and subscriptions: what an owner was told is what became of
\* its exchange, and only subscriptions that can still report keep a change.
THEOREM MatterInvariant == MatterSpec => []MatterInv
BY MatterStarts, MatterSteps, PTL DEF MatterSpec

\* No exchange both answers and times out: an answer after the timeout finds the
\* exchange erased, and a timeout never comes to one that was answered or that
\* its owner has completed.
THEOREM ExchangesHaveOneOutcome == MatterSpec => []OneOutcome
<1>1. ASSUME MatterInv PROVE OneOutcome
  <2> SUFFICES ASSUME NEW e \in Exchanges PROVE outcome[e] # {"response", "timeout"}
    BY DEF OneOutcome
  <2>1. Fits(exchange[e].state, outcome[e]) /\ exchange[e].state \in ExchangeStates
    BY <1>1 DEF MatterInv, OutcomeFollowsState, MatterTyped, ExchangeRecords
  <2> QED BY <2>1 DEF Fits, ExchangeStates
<1> QED BY <1>1, MatterInvariant, PTL
================================================================================
