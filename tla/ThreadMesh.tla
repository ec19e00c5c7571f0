------------------------------ MODULE ThreadMesh ------------------------------
(***************************************************************************)
(* The Thread mesh of node processes (src/src/node/NodeMain.cpp): each one *)
(* runs a ThreadNode as a router or the leader, advertises its routes by   *)
(* MLE, keeps a distance-vector RoutingTable from what it hears, and a     *)
(* SelfHealingEngine that reports neighbours and routes it has lost.       *)
(*                                                                         *)
(* Time passes in units of the advertisement interval.  In every unit each *)
(* node's main loop runs its tick, in any order, and the frames of a unit  *)
(* are delivered or lost before it ends: they take milliseconds.  Ages are *)
(* kept instead of times, and are exact up to one more than the timeout.   *)
(*                                                                         *)
(* Nobody adds children or sends data in the program (only tests do), so   *)
(* the frames on the air are the advertisements; what a table would do     *)
(* with a data frame is an operator, ForwardsTo.                           *)
(***************************************************************************)
EXTENDS Integers, FiniteSets, FiniteSetsExt

CONSTANTS
  Routers,         \* router ids of the node processes, node n being router n
  Mesh,            \* the links there can be: a set of pairs of routers
  Start,           \* those there are at first
  Timeout,         \* neighbor_timeout_ of node and healing engine (25 s), in whole units
  Infinite,        \* ROUTE_COST_INFINITE
  MaxChanges       \* bound: links cut or restored, frames lost, nodes restarted

ASSUME MeshAssumption ==
  /\ Routers \subseteq 0 .. 62 /\ Start \subseteq Mesh /\ Mesh \subseteq {{a, b} : a, b \in Routers}
  /\ Timeout \in Nat \ {0} /\ Infinite \in Nat \ {0, 1} /\ MaxChanges \in Nat

NoRouter == 255   \* INVALID_ROUTER_ID

VARIABLES
  links,    \* the links that carry frames now
  route,    \* routing_: per router and destination [hop, cost, age]
  heard,    \* healing_.neighbors_: [known, reachable, age]
  prev,     \* healing_.prev_reachable_routers_
  lost,     \* PartitionDetected events of the last tick, the destinations
  air,      \* the last advertisement of a router: [costs, to]
  due,      \* the nodes whose tick of this unit is to come
  changes   \* changes of the environment so far

vars == <<links, route, heard, prev, lost, air, due, changes>>

NoRoute == [hop |-> NoRouter, cost |-> Infinite, age |-> 0]
Unheard == [known |-> FALSE, reachable |-> FALSE, age |-> 0]

Reachable(table) == {d \in Routers : table[d].cost < Infinite}
Neighbours(r) == {n \in Routers \ {r} : {r, n} \in links}

--------------------------------------------------------------------------------
(* RoutingTable, as operators on one router's table.                         *)

AddDirectNeighbor(table, n) ==
  [table EXCEPT ![n] = [hop |-> n, cost |-> 1, age |-> 0]]

\* The cost of a route through a neighbour that advertises `cost'.
\* (Mutant: it stops growing below infinity.)
CostViaStuck(cost) == IF cost + 1 < Infinite THEN cost + 1 ELSE cost

CostVia(cost) == IF cost + 1 < Infinite THEN cost + 1 ELSE Infinite

\* An advertised route is taken if there is none, if it is cheaper, or if it
\* comes from the neighbour the route goes through anyway.
Takes(entry, cost, n) == entry.cost = Infinite \/ cost < entry.cost \/ entry.hop = n

UpdateFromAdvertisement(r, table, n, costs) ==
  LET direct == AddDirectNeighbor(table, n)
  IN [d \in Routers |->
        IF d # r /\ costs[d] < Infinite /\ Takes(direct[d], CostVia(costs[d]), n)
        THEN IF CostVia(costs[d]) < Infinite
             THEN [hop |-> n, cost |-> CostVia(costs[d]), age |-> 0]
             ELSE NoRoute
        ELSE direct[d]]

\* getNextHop(), NoRouter for none.
NextHop(table, d) == IF d \in Reachable(table) THEN table[d].hop ELSE NoRouter

ExpireStaleRoutes(table) ==
  [d \in Routers |-> IF table[d].age > Timeout THEN NoRoute ELSE table[d]]

\* getAdvertisableRoutes(), built into an advertisement and through its bytes:
\* only costs travel, and only those of reachable routes, so that a receiver is
\* never told of a lost one.
Advertisement(table, to) ==
  [costs |-> [d \in Routers |-> IF d \in Reachable(table) THEN table[d].cost ELSE Infinite],
   to |-> to]

--------------------------------------------------------------------------------
(* SelfHealingEngine.                                                        *)

\* (Mutant: a neighbour is given up one unit early.)
CheckNeighborLivenessEarly(states) ==
  [n \in Routers |-> [states[n] EXCEPT !.reachable = @ /\ states[n].age < Timeout]]

CheckNeighborLiveness(states) ==
  [n \in Routers |-> [states[n] EXCEPT !.reachable = @ /\ states[n].age <= Timeout]]

\* (Mutant: one that was lost is not taken back.)
OnNeighborHeardOnce(states, n) ==
  [states EXCEPT ![n] = IF states[n].known THEN [@ EXCEPT !.age = 0]
                        ELSE [known |-> TRUE, reachable |-> TRUE, age |-> 0]]

OnNeighborHeard(states, n) ==
  [states EXCEPT ![n] = [known |-> TRUE, reachable |-> TRUE, age |-> 0]]

UnreachableNeighbors(states) == {n \in Routers : states[n].known /\ ~states[n].reachable}

\* checkPartitions(): the destinations there was a route to at the last look.
Partitioned(before, table) == before \ Reachable(table)

--------------------------------------------------------------------------------
\* A node process starts attached, as the leader or promoted to a router.
Fresh == [d \in Routers |-> NoRoute]
FreshHealing == [n \in Routers |-> Unheard]
Silence == [costs |-> [d \in Routers |-> Infinite], to |-> {}]

MeshInit ==
  /\ links = Start
  /\ route = [r \in Routers |-> Fresh]
  /\ heard = [r \in Routers |-> FreshHealing]
  /\ prev = [r \in Routers |-> {}] /\ lost = [r \in Routers |-> {}]
  /\ air = [r \in Routers |-> Silence]
  /\ due = Routers /\ changes = 0

\* The advertisement is broadcast to whoever is in range.
SendMLEAdvertisement(r) == air' = [air EXCEPT ![r] = Advertisement(route[r], Neighbours(r))]

\* ThreadNode::tick(): the advertisement goes out first, with the routes as they
\* were, then stale routes expire, then the healing engine looks.
Tick(r) ==
  /\ r \in due /\ due' = due \ {r}
  /\ SendMLEAdvertisement(r)
  /\ route' = [route EXCEPT ![r] = ExpireStaleRoutes(@)]
  /\ heard' = [heard EXCEPT ![r] = CheckNeighborLiveness(@)]
  /\ prev' = [prev EXCEPT ![r] = Reachable(route'[r])]
  /\ lost' = [lost EXCEPT ![r] = Partitioned(prev[r], route'[r])]
  /\ UNCHANGED <<links, changes>>

\* processMLEFrame() at r, of n's advertisement.
Receive(r, n) ==
  /\ r \in air[n].to
  /\ air' = [air EXCEPT ![n].to = @ \ {r}]
  /\ route' = [route EXCEPT ![r] = UpdateFromAdvertisement(r, @, n, air[n].costs)]
  /\ heard' = [heard EXCEPT ![r] = OnNeighborHeard(@, n)]
  /\ UNCHANGED <<links, prev, lost, due, changes>>

\* processDataFrame(): whom r hands a data frame to that is for the router d; its
\* own goes no further, and one it has no route for is dropped.
ForwardsTo(r, d) == IF d = r THEN NoRouter ELSE NextHop(route[r], d)

\* The next unit begins.
Elapse ==
  LET older(age) == IF age > Timeout THEN age ELSE age + 1
  IN /\ due = {} /\ \A n \in Routers : air[n].to = {}
     /\ due' = Routers
     /\ route' = [r \in Routers |-> [d \in Routers |->
                    IF route[r][d] = NoRoute THEN NoRoute
                    ELSE [route[r][d] EXCEPT !.age = older(@)]]]
     /\ heard' = [r \in Routers |-> [n \in Routers |->
                    IF heard[r][n].reachable THEN [heard[r][n] EXCEPT !.age = older(@)]
                    ELSE heard[r][n]]]
     /\ air' = [r \in Routers |-> Silence]
     /\ UNCHANGED <<links, prev, lost, changes>>

--------------------------------------------------------------------------------
(* The environment: the broker's link commands, its losses, and `crash' with *)
(* `restart' of a node process.                                              *)
Change == changes < MaxChanges /\ changes' = changes + 1

LinkDown(l) ==
  /\ Change /\ l \in links /\ links' = links \ {l}
  /\ UNCHANGED <<route, heard, prev, lost, air, due>>

LinkUp(l) ==
  /\ Change /\ l \in Mesh \ links /\ links' = links \cup {l}
  /\ UNCHANGED <<route, heard, prev, lost, air, due>>

Lose(n, r) ==
  /\ Change /\ r \in air[n].to
  /\ air' = [air EXCEPT ![n].to = @ \ {r}]
  /\ UNCHANGED <<links, route, heard, prev, lost, due>>

Restart(r) ==
  /\ Change
  /\ route' = [route EXCEPT ![r] = Fresh] /\ heard' = [heard EXCEPT ![r] = FreshHealing]
  /\ prev' = [prev EXCEPT ![r] = {}] /\ lost' = [lost EXCEPT ![r] = {}]
  /\ air' = [n \in Routers |-> [air[n] EXCEPT !.to = @ \ {r}]]
  /\ due' = due \cup {r}
  /\ UNCHANGED links

Environment ==
  \/ \E r \in Routers : Restart(r) \/ \E n \in Routers : Lose(n, r)
  \/ \E l \in Mesh : LinkDown(l) \/ LinkUp(l)

Runs ==
  \/ \E r \in Routers : Tick(r) \/ \E n \in Routers : Receive(r, n)
  \/ Elapse

MeshNext == Runs \/ Environment

MeshSpec == MeshInit /\ [][MeshNext]_vars

\* The main loops turn, frames arrive that are not lost, and time passes.  A unit
\* ends only when each node has ticked and each frame is gone, and has finitely many
\* steps: fairness to the lot is fairness to each.  The environment owes nothing.
MeshFairness == WF_vars(Runs)

FairMeshSpec == MeshSpec /\ MeshFairness

--------------------------------------------------------------------------------
(***************************************************************************)
(* Properties.                                                             *)
(***************************************************************************)
\* The routing table and the healing engine, which time neighbours separately,
\* never contradict each other: no data frame is handed to a neighbour that has
\* been reported lost, and no route is younger than the last frame of its next hop.
LostCarryNoRoute ==
  \A r, d \in Routers : ForwardsTo(r, d) # NoRouter =>
    LET h == heard[r][ForwardsTo(r, d)]
    IN h.known /\ h.reachable /\ h.age <= route[r][d].age

\* The routers at most k hops from r over links L.
Within(L, r, k) ==
  LET ball[i \in 0 .. k] ==
        IF i = 0 THEN {r}
        ELSE ball[i - 1] \cup {d \in Routers : \E m \in ball[i - 1] : {m, d} \in L}
  IN ball[k]

Shortest(L, r, d) ==
  LET hops == {k \in 1 .. Cardinality(Routers) : d \in Within(L, r, k)}
  IN IF hops = {} THEN Infinite ELSE Min(hops)

\* Links, a router, a destination, and the cost of the shortest route: a set, which
\* is computed once.
ShortestCosts ==
  {<<L, r, d, Shortest(L, r, d)>> : L \in SUBSET Mesh, r \in Routers, d \in Routers}

\* Once links stay as they are, every router comes to the shortest route to every
\* other, and to none for those it is cut off from: without split horizon or
\* poisoning, by counting up to infinity and by expiry alone.
Converges ==
  <>[](\A r, d \in Routers : r # d => <<links, r, d, route[r][d].cost>> \in ShortestCosts)

\* Once links stay as they are, the healing engines know which of the neighbours
\* they have heard of are there, and report no more partitions.
HealingSettles ==
  <>[](\A r \in Routers :
         /\ lost[r] = {}
         /\ UnreachableNeighbors(heard[r]) = {n \in Routers : heard[r][n].known} \ Neighbours(r))
================================================================================
