------------------------------ MODULE PathTracer ------------------------------
(***************************************************************************)
(* The fewest-hops path over the links that are up, src/src/thread/        *)
(* PathTracer.cpp (tracePath), which the broker's tracer mode routes by    *)
(* and the `trace' command prints, and the presets of MeshTopology.cpp.    *)
(*                                                                         *)
(* A path is the sequence of its nodes, the source first; <<>> stands for  *)
(* an unreachable destination.  Loss and latency of a hop decide nothing   *)
(* here and are left out.                                                  *)
(***************************************************************************)
EXTENDS Integers, Sequences, FiniteSets, SequencesExt

CONSTANT MeshNodes  \* MESH_NODES: ids are 0 .. MeshNodes - 1

ASSUME MeshAssumption == MeshNodes \in Nat \ {0}

Ids == 0 .. MeshNodes - 1
Links == {l \in Ids \X Ids : l[1] # l[2]}

\* MeshTopology's presets, as the links that are up.  Node 3 is the phone, which
\* only has its backhaul to the border router; the van's cab wall makes it a chain.
Between(a, b) == {<<a, b>>, <<b, a>>}
FullyConnected == Links \ (Between(3, 1) \cup Between(3, 2))
LinearChain == FullyConnected \ Between(0, 2)
StarFromLeader == FullyConnected \ Between(1, 2)
VanWithPhone == LinearChain

\* The links that lose frames from the start: the van's cellular backhaul.
CellularLoss == Between(3, 0) \cap Links

\* The name on the command line; a name that none of these is means the mesh.
TopologyFromName ==
  [full   |-> [up |-> FullyConnected, lossy |-> {}],
   linear |-> [up |-> LinearChain,    lossy |-> {}],
   star   |-> [up |-> StarFromLeader, lossy |-> {}],
   van    |-> [up |-> VanWithPhone,   lossy |-> CellularLoss]]

--------------------------------------------------------------------------------
\* Ids in the order of the loop over neighbours.
Ascending(S) ==
  CHOOSE s \in [1 .. Cardinality(S) -> S] : \A i, j \in 1 .. Cardinality(S) : i < j => s[i] < s[j]

\* One round of the search: the node at the head of the queue finds its unseen
\* neighbours, in the order of their ids.  prev holds the links that were used.
\* (Mutant: prev is set before the test of seen.)
VisitOverwriting(up, s) ==
  LET cur == Head(s.queue)
      near == {n \in Ids : <<cur, n>> \in up}
      new == near \ s.seen
  IN [queue |-> Tail(s.queue) \o Ascending(new),
      seen  |-> s.seen \cup new,
      prev  |-> {l \in s.prev : l[2] \notin near} \cup {<<cur, n>> : n \in near}]

Visit(up, s) ==
  LET cur == Head(s.queue)
      new == {n \in Ids \ s.seen : <<cur, n>> \in up}
  IN [queue |-> Tail(s.queue) \o Ascending(new),
      seen  |-> s.seen \cup new,
      prev  |-> s.prev \cup {<<cur, n>> : n \in new}]

\* The search after k rounds, at most one for each node, stopped by the
\* destination at the head of the queue.
Search(up, src, dst) ==
  LET start == [queue |-> <<src>>, seen |-> {src}, prev |-> {}]
      after[k \in 0 .. MeshNodes] ==
        IF k = 0 THEN start
        ELSE LET s == after[k - 1]
             IN IF s.queue = <<>> \/ (s.queue # <<>> /\ Head(s.queue) = dst)
                THEN s ELSE Visit(up, s)
  IN after[MeshNodes]

\* The path is rebuilt from the destination backwards.
Walk(prev, src, dst) ==
  LET back[k \in 0 .. MeshNodes] ==
        IF k = 0 THEN <<dst>>
        ELSE LET p == back[k - 1]
             IN IF Head(p) = src THEN p
                ELSE <<CHOOSE n \in Ids : <<n, Head(p)>> \in prev>> \o p
  IN back[MeshNodes]

TracePath(up, src, dst) ==
  LET s == Search(up, src, dst)
  IN IF dst \notin s.seen THEN <<>> ELSE Walk(s.prev, src, dst)

--------------------------------------------------------------------------------
(***************************************************************************)
(* Reference definitions: what a route over the links that are up is.      *)
(***************************************************************************)
\* The nodes that are reached from src with at most k hops.
Within(up, src, k) ==
  LET reach[i \in 0 .. MeshNodes] ==
        IF i = 0 THEN {src}
        ELSE reach[i - 1] \cup {n \in Ids : \E m \in reach[i - 1] : <<m, n>> \in up}
  IN reach[k]

IsRoute(up, p, src, dst) ==
  /\ p # <<>> /\ p[1] = src /\ p[Len(p)] = dst
  /\ \A i \in 1 .. Len(p) - 1 : <<p[i], p[i + 1]>> \in up
================================================================================
