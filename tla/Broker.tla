-------------------------------- MODULE Broker --------------------------------
(***************************************************************************)
(* The broker (src/src/net/Broker.cpp) and the node processes that connect *)
(* to it (NodeMain.cpp), which the controller (app/Main.cpp) starts, kills *)
(* and starts again.                                                       *)
(*                                                                         *)
(* A process is an incarnation of a node, numbered from one; its TCP       *)
(* connection carries what it wrote until the broker reads or closes it.   *)
(* The broker first accepts registrations until it has counted MAX_NODES,  *)
(* then serves its loop: delayed frames, frames from nodes, hangups and    *)
(* control commands.  A handler is one step; between two handlers anything *)
(* may happen to the nodes.  Of a link only whether it is up and whether   *)
(* it loses frames is kept; its latency is a choice up to MaxDelay.        *)
(*                                                                         *)
(* send() is called without MSG_NOSIGNAL and SIGPIPE keeps its default, so *)
(* writing to a connection whose process is gone may succeed, fail, or     *)
(* kill the broker, depending on what the peer's kernel has answered.      *)
(***************************************************************************)
EXTENDS PathTracer

CONSTANTS
  Preset,     \* the topology's name
  MaxBorn,    \* bound: incarnations per node
  MaxFrames,  \* bound: frames sent
  MaxDelay,   \* bound: the longest delay of a frame
  MaxChanges  \* bound: control commands

ASSUME BrokerAssumption ==
  /\ Preset \in DOMAIN TopologyFromName
  /\ MaxBorn \in Nat /\ MaxFrames \in Nat /\ MaxDelay \in Nat /\ MaxChanges \in Nat

VARIABLES
  phase,      \* "accepting", "forwarding", or "dead" by a signal
  count,      \* connected_count_
  conn,       \* the incarnation each node is connected as, 0 when it is not
  up, lossy,  \* link_matrix_: links that are up, links that lose frames
  chaos,      \* whether the chaos rule is installed
  delayed,    \* delay_queue_: [frame, to, left]
  tracer,     \* tracer_enabled_, from the command line
  forwarded, dropped,  \* frames_forwarded_, frames_dropped_
  linkStats,  \* link_stats_: per link [fwd, drop], kept in tracer mode
  \* the nodes and their connections:
  born,       \* incarnations started
  live,       \* the running incarnation, 0 for none
  backlog,    \* connections the broker has not accepted, oldest first
  greeted,    \* incarnations that have sent their registration
  wire,       \* per incarnation, what it wrote and the broker has not read
  \* history and bounds:
  sent, changes, copies,
  noRoute     \* copies dropped for want of a route

brokerVars == <<phase, count, conn, up, lossy, chaos, delayed, tracer, forwarded, dropped, linkStats>>
nodeVars == <<born, live, backlog, greeted, wire>>
historyVars == <<sent, changes, copies, noRoute>>
vars == <<brokerVars, nodeVars, historyVars>>

\* The broadcast address, an id that no node has.
All == MeshNodes
Incarnations == Ids \X (1 .. MaxBorn)
Frames == [id : 1 .. MaxFrames, src : Ids, dst : Ids \cup {All}]

Connected == {n \in Ids : conn[n] # 0}

\* The peer of n's connection has exited.
PeerGone(n) == live[n] # conn[n]

--------------------------------------------------------------------------------
ApplyTopology(preset) == up = TopologyFromName[preset].up /\ lossy = TopologyFromName[preset].lossy

BrokerInit ==
  /\ phase = "accepting" /\ count = 0
  /\ conn = [n \in Ids |-> 0]
  /\ tracer \in BOOLEAN
  /\ ApplyTopology(Preset) /\ chaos = FALSE
  /\ delayed = {} /\ forwarded = 0 /\ dropped = 0
  /\ linkStats = [l \in Links |-> [fwd |-> 0, drop |-> 0]]
  /\ born = [n \in Ids |-> 0] /\ live = [n \in Ids |-> 0]
  /\ backlog = <<>> /\ greeted = {}
  /\ wire = [i \in Incarnations |-> <<>>]
  /\ sent = 0 /\ changes = 0 /\ copies = 0 /\ noRoute = 0

--------------------------------------------------------------------------------
(* The node processes.                                                       *)

\* main() of a node: connect, then write the registration.  The connection is
\* made by the kernel, whatever the broker is doing, unless the broker is gone.
Start(n) ==
  /\ live[n] = 0 /\ born[n] < MaxBorn /\ phase # "dead"
  /\ born' = [born EXCEPT ![n] = @ + 1]
  /\ live' = [live EXCEPT ![n] = born[n] + 1]
  /\ backlog' = Append(backlog, <<n, born[n] + 1>>)
  /\ UNCHANGED <<brokerVars, greeted, wire, historyVars>>

Greet(n) ==
  /\ live[n] # 0 /\ <<n, live[n]>> \notin greeted
  /\ greeted' = greeted \cup {<<n, live[n]>>}
  /\ UNCHANGED <<brokerVars, born, live, backlog, wire, historyVars>>

\* The frame sender of a registered node; nothing tells it whether the broker
\* has accepted the connection.
Send(n, dst) ==
  /\ live[n] # 0 /\ <<n, live[n]>> \in greeted
  /\ sent < MaxFrames
  /\ sent' = sent + 1
  /\ wire' = [wire EXCEPT ![<<n, live[n]>>] = Append(@, [id |-> sent + 1, src |-> n, dst |-> dst])]
  /\ UNCHANGED <<brokerVars, born, live, backlog, greeted, changes, copies, noRoute>>

\* `crash n', `crank', or a node that exits.
NodeDies(n) ==
  /\ live[n] # 0
  /\ live' = [live EXCEPT ![n] = 0]
  /\ UNCHANGED <<brokerVars, born, backlog, greeted, wire, historyVars>>

--------------------------------------------------------------------------------
(* Phase 1 of run().                                                         *)

\* recvAll() returns when the bytes have come or the process is gone.
RecvAll(c) == c \in greeted \/ live[c[1]] # c[2]

\* acceptConnections(): the oldest connection; the broker waits for its two bytes.
\* (Mutant: the registration is awaited even from a process that is gone.)
AcceptPatient ==
  /\ phase = "accepting" /\ backlog # <<>>
  /\ LET c == Head(backlog)
     IN /\ c \in greeted
        /\ backlog' = Tail(backlog)
        /\ IF c \in greeted
           THEN /\ conn' = [conn EXCEPT ![c[1]] = c[2]]
                /\ count' = count + 1
                /\ phase' = IF count' = MeshNodes THEN "forwarding" ELSE phase
           ELSE UNCHANGED <<conn, count, phase>>
  /\ UNCHANGED <<up, lossy, chaos, delayed, tracer, forwarded, dropped, linkStats,
                 born, live, greeted, wire, historyVars>>

Accept ==
  /\ phase = "accepting" /\ backlog # <<>>
  /\ LET c == Head(backlog)
     IN /\ RecvAll(c)
        /\ backlog' = Tail(backlog)
        /\ IF c \in greeted
           THEN /\ conn' = [conn EXCEPT ![c[1]] = c[2]]
                /\ count' = count + 1
                /\ phase' = IF count' = MeshNodes THEN "forwarding" ELSE phase
           ELSE UNCHANGED <<conn, count, phase>>
  /\ UNCHANGED <<up, lossy, chaos, delayed, tracer, forwarded, dropped, linkStats,
                 born, live, greeted, wire, historyVars>>

--------------------------------------------------------------------------------
(* Phase 2: forwarding.                                                      *)

\* applyFaults(): the one rule that the broker ever installs may drop a frame on
\* any link.
FaultDrops == chaos

\* What may become of a frame on a link: a drop or a delay.
MayDrop(l) == FaultDrops \/ l \notin up \/ l \in lossy
Fates(l) == (IF l \in up THEN 0 .. MaxDelay ELSE {}) \cup (IF MayDrop(l) THEN {-1} ELSE {})

\* sendAll() to nodes whose peers are gone: a gamble, with the broker's life in it.
SendAll(gone) ==
  [lucky : SUBSET gone, phase : {phase} \cup (IF gone # {} THEN {"dead"} ELSE {})]

\* deliverToNode() to the connected nodes `tos', in one step: the written ones
\* count as forwarded.
Deliver(tos) ==
  LET gone == {t \in tos : PeerGone(t)}
  IN \E s \in SendAll(gone) :
       /\ forwarded' = forwarded + Cardinality(tos \ gone) + Cardinality(s.lucky)
       /\ phase' = s.phase

\* The counters of a frame that went over the links `passed' and died on those
\* in `died'.  Only tracer mode keeps the links'.
\* (Mutant: the link a frame died on is not told.)
CountUnattributed(passed, died) ==
  /\ dropped' = dropped + Cardinality(died)
  /\ linkStats' = IF tracer
                  THEN [l \in Links |-> [fwd  |-> linkStats[l].fwd + (IF l \in passed THEN 1 ELSE 0),
                                         drop |-> linkStats[l].drop]]
                  ELSE linkStats

Count(passed, died) ==
  /\ dropped' = dropped + Cardinality(died)
  /\ linkStats' = IF tracer
                  THEN [l \in Links |-> [fwd  |-> linkStats[l].fwd + (IF l \in passed THEN 1 ELSE 0),
                                         drop |-> linkStats[l].drop + (IF l \in died THEN 1 ELSE 0)]]
                  ELSE linkStats

\* The star of the default mode: a copy for everyone for a broadcast, and for
\* the first other node for a unicast, whoever it is addressed to.
Targets(frame, n) ==
  LET others == Connected \ {n}
  IN IF frame.dst = All THEN others
     ELSE {t \in others : \A m \in others : t <= m}

Star(n, frame) ==
  LET targets == Targets(frame, n)
  IN \E fate \in [targets -> {-1} \cup 0 .. MaxDelay] :
       /\ \A t \in targets : fate[t] \in Fates(<<n, t>>)
       /\ Count({<<n, t>> : t \in {x \in targets : fate[x] >= 0}},
                {<<n, t>> : t \in {x \in targets : fate[x] < 0}})
       /\ delayed' = delayed \cup {[frame |-> frame, to |-> t, left |-> fate[t]] :
                                     t \in {x \in targets : fate[x] > 0}}
       /\ Deliver({t \in targets : fate[t] = 0})
       /\ copies' = copies + Cardinality(targets)
       /\ UNCHANGED noRoute

\* Tracer mode relays a unicast to a connected node along its route.  That the
\* nodes on the way are connected is not asked.  An address is made of the node's
\* id, which getRouterId() takes back out of it: a frame has the id itself.
Relays(frame, n) ==
  tracer /\ frame.dst \in Connected \ {n}

Relay(n, frame) ==
  LET path == TracePath(up, n, frame.dst)
      hop(i) == <<path[i], path[i + 1]>>
      last == Len(path) - 1
  IN /\ copies' = copies + 1
     /\ IF path = <<>>
        THEN /\ dropped' = dropped + 1 /\ noRoute' = noRoute + 1
             /\ UNCHANGED <<phase, delayed, forwarded, linkStats>>
        ELSE /\ UNCHANGED noRoute
             /\ \/ \E k \in 1 .. last :
                     /\ MayDrop(hop(k))
                     /\ Count({hop(i) : i \in 1 .. k - 1}, {hop(k)})
                     /\ UNCHANGED <<phase, delayed, forwarded>>
                \/ \E delay \in 0 .. MaxDelay :
                     /\ Count({hop(i) : i \in 1 .. last}, {})
                     /\ IF delay > 0
                        THEN /\ delayed' = delayed \cup {[frame |-> frame, to |-> frame.dst, left |-> delay]}
                             /\ UNCHANGED <<phase, forwarded>>
                        ELSE Deliver({frame.dst}) /\ UNCHANGED delayed

\* processIncoming() and forwardFrame(): one frame of a node.
Forward(n) ==
  /\ phase = "forwarding" /\ conn[n] # 0
  /\ LET c == <<n, conn[n]>>
     IN /\ wire[c] # <<>>
        /\ wire' = [wire EXCEPT ![c] = Tail(@)]
        /\ IF Relays(Head(wire[c]), n) THEN Relay(n, Head(wire[c])) ELSE Star(n, Head(wire[c]))
  /\ UNCHANGED <<count, conn, up, lossy, chaos, tracer, born, live, backlog, greeted, sent, changes>>

\* A read that fails, or POLLHUP and POLLERR: the node is gone, with whatever
\* it wrote that is still unread.
Hangup(n) ==
  /\ phase = "forwarding" /\ conn[n] # 0 /\ PeerGone(n)
  /\ conn' = [conn EXCEPT ![n] = 0]
  /\ UNCHANGED <<phase, count, up, lossy, chaos, delayed, tracer, forwarded, dropped, linkStats,
                 nodeVars, historyVars>>

\* deliverDelayed(): the frame that is due longest; for a node that has gone it
\* is forgotten.
\* (Mutant: it stays in the queue.)
DeliverDelayedKept ==
  /\ phase = "forwarding"
  /\ \E d \in delayed :
       /\ d.left <= 0 /\ \A e \in delayed : d.left <= e.left
       /\ UNCHANGED delayed
       /\ Deliver({d.to} \cap Connected)
  /\ UNCHANGED <<count, conn, up, lossy, chaos, tracer, dropped, linkStats,
                 nodeVars, sent, changes, copies, noRoute>>

DeliverDelayed ==
  /\ phase = "forwarding"
  /\ \E d \in delayed :
       /\ d.left <= 0 /\ \A e \in delayed : d.left <= e.left
       /\ delayed' = delayed \ {d}
       /\ Deliver({d.to} \cap Connected)
  /\ UNCHANGED <<count, conn, up, lossy, chaos, tracer, dropped, linkStats,
                 nodeVars, sent, changes, copies, noRoute>>

\* Time, as far as the queue is concerned; a frame is at most MaxDelay late.
Elapse ==
  /\ phase = "forwarding" /\ delayed # {}
  /\ \A d \in delayed : d.left > -MaxDelay
  /\ delayed' = {[d EXCEPT !.left = @ - 1] : d \in delayed}
  /\ UNCHANGED <<phase, count, conn, up, lossy, chaos, tracer, forwarded, dropped, linkStats,
                 nodeVars, historyVars>>

\* applyControlCommand(): `link a b down', `up', or a loss; `chaos on' and `off'.
\* A loss turns the link on as well.
SetLink(l, ups, losses) ==
  /\ up' = ups /\ lossy' = losses
  /\ UNCHANGED chaos

Control ==
  /\ phase = "forwarding" /\ changes < MaxChanges
  /\ changes' = changes + 1
  /\ \/ \E l \in Links : \/ SetLink(l, up \ {l}, lossy)
                         \/ SetLink(l, up \cup {l}, lossy)
                         \/ SetLink(l, up \cup {l}, lossy \cup {l})
                         \/ SetLink(l, up \cup {l}, lossy \ {l})
     \/ chaos' \in BOOLEAN /\ UNCHANGED <<up, lossy>>
  /\ UNCHANGED <<phase, count, conn, delayed, tracer, forwarded, dropped, linkStats,
                 nodeVars, sent, copies, noRoute>>

--------------------------------------------------------------------------------
BrokerNext ==
  \/ \E n \in Ids : Start(n) \/ Greet(n) \/ NodeDies(n) \/ \E dst \in Ids \cup {All} : dst # n /\ Send(n, dst)
  \/ Accept
  \/ \E n \in Ids : Forward(n) \/ Hangup(n)
  \/ DeliverDelayed
  \/ Elapse
  \/ Control

BrokerSpec == BrokerInit /\ [][BrokerNext]_vars

\* The broker accepts and notices hangups, and a node that has connected goes on
\* to register.  Nothing is assumed of frames and delays.
BrokerFairness ==
  /\ \A n \in Ids : WF_vars(Greet(n)) /\ WF_vars(Hangup(n))
  /\ WF_vars(Accept)

FairBrokerSpec == BrokerSpec /\ BrokerFairness

--------------------------------------------------------------------------------
(***************************************************************************)
(* Properties.                                                             *)
(***************************************************************************)
\* The broker's two counters and its queue add up: no copy is counted twice, and
\* as long as all nodes have stayed, none is missing.
EveryCopyHasOneFate ==
  LET known == forwarded + dropped + Cardinality(delayed)
  IN /\ known <= copies
     /\ (phase = "forwarding" /\ \A n \in Ids : conn[n] # 0 /\ ~PeerGone(n)) => known = copies

\* Broker.h: "a link's drops are attributable, not just global": in tracer mode
\* every drop is on some link's account or had no route.
DropsAreAttributed ==
  tracer => dropped = noRoute + MapThenSumSet(LAMBDA l : linkStats[l].drop, Links)

\* While the broker accepts, a node that has started and stays is accepted.
StartedAreAccepted ==
  \A n \in Ids : \A i \in 1 .. MaxBorn :
    live[n] = i /\ phase = "accepting" ~> conn[n] = i \/ live[n] # i \/ phase # "accepting"

--------------------------------------------------------------------------------
(* What the documents say, and the code does not do.                         *)

\* README.md:186: "Node 2 restarted - reattaches to mesh": a node that is started
\* and stays is connected in the end.
Reattaches ==
  \A n \in Ids : \A i \in 1 .. MaxBorn : live[n] = i ~> conn[n] = i \/ live[n] # i
================================================================================
