------------------------------ MODULE Controller ------------------------------
(***************************************************************************)
(* The controller (app/Main.cpp): it starts the broker and the nodes, runs *)
(* the console or a scenario, serves the dashboard                         *)
(* (src/src/metrics/DashboardServer.cpp) between two looks at the console, *)
(* and ends its children before itself.  One thread does it all.           *)
(*                                                                         *)
(* The kernel's process table is a variable: a process id belongs to a     *)
(* child until somebody waits for it, and may then be given to the next    *)
(* fork() or to another program, while node_pids still holds it.  Of the   *)
(* broker (module Broker) only its phases are kept: it answers the control *)
(* port once all nodes have registered, and until then lets it queue.      *)
(* std::signal() restarts interrupted calls, so a signal alone ends no     *)
(* recv() or waitpid().  SIGPIPE is left at its default, so that an answer *)
(* to a dashboard client that is gone may end the process, with no word to *)
(* its children.  fork() is taken to succeed.                              *)
(***************************************************************************)
EXTENDS PathTracer

CONSTANTS
  NumNodes,  \* NUM_NODES
  MaxPid,    \* bound: process ids
  MaxLines   \* bound: whole lines in the line buffer

ASSUME ControllerAssumption ==
  /\ NumNodes \in Nat \ {0} /\ MaxLines \in Nat \ {0}
  /\ MaxPid \in Nat /\ MaxPid > NumNodes + 1

Nodes == 0 .. NumNodes - 1
Broker == NumNodes
Children == Nodes \cup {Broker}
Other == NumNodes + 1  \* a process of another program
Pids == 1 .. MaxPid
NoPid == -1

VARIABLES
  table,    \* the kernel's processes: [who, st]
  pidOf,    \* node_pids and broker_pid
  broker,   \* "absent", "accepting", "serving" or "gone"
  counted,  \* connected_count_ of the broker
  mode,     \* "console" or "scenario", from the command line
  running,  \* g_running
  at,       \* where the controller is: [pc, node], "killed" when SIGPIPE has ended it
  lines,    \* how many whole lines line_buf has; which, is chosen when they are read
  client    \* the dashboard's: "none", "silent", or "sent" for a request or a hangup

kernelVars == <<table, broker, counted>>
controllerVars == <<kernelVars, pidOf, mode, running, at, lines, client>>

At(pc) == at.pc = pc
Go(pc) == at' = [pc |-> pc, node |-> 0]
GoOn(pc, n) == at' = [pc |-> pc, node |-> n]

\* A process: `born' until it has connected or listens, `up' after that,
\* `ending' with a signal that it has not ended by yet, `zombie' when it has.
Live(p) == table[p].st \in {"born", "up", "ending"}
IsChild(p) == p # NoPid /\ table[p].who # Other /\ (Live(p) \/ table[p].st = "zombie")
Free(p) == table[p].st = "free"
ProcessesOf(c) == {p \in Pids : Live(p) /\ table[p].who = c}

ControllerInit ==
  /\ table = [p \in Pids |-> [who |-> Other, st |-> "free"]]
  /\ pidOf = [c \in Children |-> NoPid]
  /\ broker = "absent" /\ counted = 0
  /\ mode \in {"console", "scenario"} /\ running = TRUE
  /\ at = [pc |-> "spawn", node |-> Broker]
  /\ lines = 0 /\ client = "none"

--------------------------------------------------------------------------------
(* The system calls.                                                         *)

\* The kernel may hand out any free id; those that node_pids does not hold differ
\* in nothing, and the least stands for them.
Held == {pidOf[c] : c \in Children}
NewIds ==
  LET free == {p \in Pids : Free(p)}
  IN {p \in free : p \in Held \/ \A q \in free \ Held : p <= q}

Fork(c) ==
  \E p \in NewIds :
    /\ table' = [table EXCEPT ![p] = [who |-> c, st |-> "born"]]
    /\ pidOf' = [pidOf EXCEPT ![c] = p]

\* The table after kill(): whichever children have the ids are signalled; another
\* program may end at any time as it is.
Signalled(S) ==
  [p \in Pids |-> IF p \in S /\ IsChild(p) /\ Live(p) THEN [table[p] EXCEPT !.st = "ending"] ELSE table[p]]

\* The table after waitpid() for those of S that have ended.
Reaped(S) ==
  [p \in Pids |-> IF p \in S /\ table[p].st = "zombie" THEN [who |-> Other, st |-> "free"] ELSE table[p]]

\* A waitpid() that blocks returns for a child that has ended, and at once for
\* an id that is no child's.
Waited(p) == ~(IsChild(p) /\ Live(p))

--------------------------------------------------------------------------------
(* The processes.                                                            *)

Ends(p) == table' = [table EXCEPT ![p] = IF @.who = Other THEN [who |-> Other, st |-> "free"]
                                         ELSE [@ EXCEPT !.st = "zombie"]]

\* By a signal; a broker's ports are closed with it.
Dies(p) ==
  /\ table[p].st = "ending"
  /\ Ends(p)
  /\ IF table[p].who = Broker THEN broker' = "gone" /\ counted' = 0
                               ELSE UNCHANGED <<broker, counted>>
  /\ UNCHANGED <<pidOf, mode, running, at, lines, client>>

\* The broker binds its ports, or cannot and exits; later a write to a node that
\* is gone may end it.
BrokerStarts(p) ==
  /\ table[p] = [who |-> Broker, st |-> "born"]
  /\ \/ /\ table' = [table EXCEPT ![p].st = "up"]
        /\ broker' = "accepting"
     \/ Ends(p) /\ broker' = "gone"
  /\ UNCHANGED <<counted, pidOf, mode, running, at, lines, client>>

BrokerFails(p) ==
  /\ table[p] = [who |-> Broker, st |-> "up"] /\ broker = "serving"
  /\ Ends(p) /\ broker' = "gone" /\ counted' = 0
  /\ UNCHANGED <<pidOf, mode, running, at, lines, client>>

\* A node connects and registers, or finds no broker and exits.  The broker
\* counts registrations, and serves when it has as many as there are nodes.
NodeStarts(p) ==
  /\ table[p].who \in Nodes /\ table[p].st = "born"
  /\ IF broker \in {"accepting", "serving"}
     THEN table' = [table EXCEPT ![p].st = "up"]
     ELSE Ends(p)
  /\ IF broker = "accepting"
     THEN /\ counted' = counted + 1
          /\ broker' = IF counted' = NumNodes THEN "serving" ELSE broker
     ELSE UNCHANGED <<counted, broker>>
  /\ UNCHANGED <<pidOf, mode, running, at, lines, client>>

\* A node whose broker is gone exits.
NodeLeaves(p) ==
  /\ table[p].who \in Nodes /\ table[p].st = "up" /\ broker = "gone"
  /\ Ends(p)
  /\ UNCHANGED <<broker, counted, pidOf, mode, running, at, lines, client>>

\* Another program starts, as long as ids are left for the children, or ends.
Others(p) ==
  /\ table[p].who = Other
  /\ IF Free(p)
     THEN /\ p \in NewIds /\ Cardinality(ProcessesOf(Other)) < MaxPid - NumNodes - 1
          /\ table' = [table EXCEPT ![p].st = "up"]
     ELSE table' = [table EXCEPT ![p].st = "free"]
  /\ UNCHANGED <<broker, counted, pidOf, mode, running, at, lines, client>>

\* SIGTERM to the controller, or SIGINT from a terminal, which goes to the
\* children as well.
Signal ==
  /\ running /\ running' = FALSE
  /\ table' \in {table, Signalled({p \in Pids : IsChild(p)})}
  /\ UNCHANGED <<broker, counted, pidOf, mode, at, lines, client>>

--------------------------------------------------------------------------------
(* Starting, and the loop.                                                   *)

Spawn ==
  /\ At("spawn")
  /\ Fork(at.node)
  /\ IF at.node = NumNodes - 1 THEN Go("loop")
     ELSE GoOn("spawn", IF at.node = Broker THEN 0 ELSE at.node + 1)
  /\ UNCHANGED <<broker, counted, mode, running, lines, client>>

\* The head of the loop: a signal, or in a scenario the time, ends it.  Then
\* poll() of the dashboard takes a connection that waits.
Loop ==
  /\ At("loop")
  /\ \/ (~running \/ mode = "scenario") /\ Go("stop")
     \/ running /\ Go(IF client = "none" THEN "read" ELSE "client")
  /\ UNCHANGED <<kernelVars, pidOf, mode, running, lines, client>>

\* select() and read(): nothing yet, some lines, or the end of the input.  A
\* scenario only sleeps.
Read ==
  /\ At("read")
  /\ \/ Go("loop") /\ UNCHANGED lines
     \/ /\ mode = "console"
        /\ \/ Go("stop") /\ UNCHANGED lines
           \/ Go("lines") /\ lines' \in lines + 1 .. MaxLines
  /\ UNCHANGED <<kernelVars, pidOf, mode, running, client>>

\* The next line is taken out of the buffer.
TakeLine == At("lines") /\ lines > 0 /\ lines' = lines - 1

LinesDone ==
  /\ At("lines") /\ lines = 0
  /\ Go("loop")
  /\ UNCHANGED <<kernelVars, pidOf, mode, running, lines, client>>

--------------------------------------------------------------------------------
(* The commands.                                                             *)

\* status waits for each node without blocking: who has ended is reaped, and
\* keeps its entry in node_pids.
NodePids == {pidOf[n] : n \in Nodes}
Status ==
  /\ TakeLine
  /\ table' = Reaped(NodePids)
  /\ UNCHANGED <<broker, counted, pidOf, mode, running, at, client>>

\* sendBrokerControl() connects, writes, and reads up to a newline.
Ask ==
  /\ TakeLine
  /\ Go("asking")
  /\ UNCHANGED <<kernelVars, pidOf, mode, running, client>>

\* sendResponse() to the dashboard's client, which may be gone by now.
SendResponse == (Go("read") \/ Go("killed")) /\ client' = "none"

\* No broker, or one that serves, answers; from one that accepts nodes comes
\* nothing.
Asking == at.pc \in {"asking", "asking for client"}
Answered ==
  /\ Asking /\ broker # "accepting"
  /\ IF At("asking") THEN Go("lines") /\ UNCHANGED client ELSE SendResponse
  /\ UNCHANGED <<kernelVars, pidOf, mode, running, lines>>

\* help, healing, metrics, timeline, export, trace and probe print what the
\* controller has.
Prints ==
  /\ TakeLine
  /\ UNCHANGED <<kernelVars, pidOf, mode, running, at, client>>

\* discover, backhaul and tunnel say that the phone scans, or that its link is
\* down: an event is noted, and no link, node or broker hears of it.
Backhaul ==
  /\ TakeLine
  /\ UNCHANGED <<kernelVars, pidOf, mode, running, at, client>>

\* quit leaves the loop over the lines, not the console's.
Quit ==
  /\ TakeLine
  /\ Go("loop")
  /\ UNCHANGED <<kernelVars, pidOf, mode, running, client>>

Crash(n) ==
  /\ TakeLine
  /\ table' = Signalled({pidOf[n]})
  /\ UNCHANGED <<broker, counted, pidOf, mode, running, at, client>>

\* restart and crank: kill, wait, fork.
\* (Mutant: a node that has been crashed before is not killed.)
RestartSpared(n) ==
  /\ TakeLine
  /\ UNCHANGED table
  /\ GoOn("reap", n)
  /\ UNCHANGED <<broker, counted, pidOf, mode, running, client>>

Restart(n) ==
  /\ TakeLine
  /\ table' = Signalled({pidOf[n]})
  /\ GoOn("reap", n)
  /\ UNCHANGED <<broker, counted, pidOf, mode, running, client>>

\* (Mutant: the wait does not block.)
ReapNow ==
  /\ At("reap")
  /\ table' = Reaped({pidOf[at.node]})
  /\ GoOn("respawn", at.node)
  /\ UNCHANGED <<broker, counted, pidOf, mode, running, lines, client>>

Reap ==
  /\ At("reap") /\ Waited(pidOf[at.node])
  /\ table' = Reaped({pidOf[at.node]})
  /\ GoOn("respawn", at.node)
  /\ UNCHANGED <<broker, counted, pidOf, mode, running, lines, client>>

Respawn ==
  /\ At("respawn")
  /\ Fork(at.node)
  /\ Go("lines")
  /\ UNCHANGED <<broker, counted, mode, running, lines, client>>

--------------------------------------------------------------------------------
(* The dashboard.                                                            *)

\* A client connects, and asks some time later for the status, the topology or
\* one of the pages made from what the controller has, or hangs up.
Connects ==
  /\ client = "none" /\ at.pc \notin {"spawn", "stop", "wait", "exited", "killed"}
  /\ client' = "silent"
  /\ UNCHANGED <<kernelVars, pidOf, mode, running, at, lines>>

Speaks ==
  /\ client = "silent"
  /\ client' = "sent"
  /\ UNCHANGED <<kernelVars, pidOf, mode, running, at, lines>>

\* handleClient(): one recv(), which waits for a silent client; nothing more for
\* a hangup; for /api/status the provider reaps as `status' does, and for
\* /api/topology it asks the broker.
Serve ==
  /\ At("client") /\ client = "sent"
  /\ \/ Go("asking for client") /\ UNCHANGED <<table, client>>
     \/ SendResponse /\ table' \in {table, Reaped(NodePids)}
  /\ UNCHANGED <<broker, counted, pidOf, mode, running, lines>>

--------------------------------------------------------------------------------
(* The end.                                                                  *)

\* SIGTERM to all, then a wait for each: nodes first, the broker last.
Stop ==
  /\ At("stop")
  /\ client' = "none"
  /\ table' = Signalled(Held)
  /\ GoOn("wait", 0)
  /\ UNCHANGED <<broker, counted, pidOf, mode, running, lines>>

\* (Mutant: the nodes are waited for, the broker is not.)
WaitNodes ==
  /\ At("wait") /\ Waited(pidOf[at.node])
  /\ table' = Reaped({pidOf[at.node]})
  /\ IF at.node = NumNodes - 1 THEN Go("exited") ELSE GoOn("wait", at.node + 1)
  /\ UNCHANGED <<broker, counted, pidOf, mode, running, lines, client>>

Wait ==
  /\ At("wait") /\ Waited(pidOf[at.node])
  /\ table' = Reaped({pidOf[at.node]})
  /\ IF at.node = Broker THEN Go("exited") ELSE GoOn("wait", at.node + 1)
  /\ UNCHANGED <<broker, counted, pidOf, mode, running, lines, client>>

--------------------------------------------------------------------------------
\* What the controller's thread does next, when it is not held.
Works ==
  \/ Spawn \/ Loop \/ Read \/ LinesDone
  \/ Status \/ Ask \/ Answered \/ Prints \/ Backhaul \/ Quit \/ Reap \/ Respawn
  \/ \E n \in Nodes : Crash(n) \/ Restart(n)
  \/ Serve
  \/ Stop \/ Wait

Environment ==
  \/ \E p \in Pids : \/ Dies(p) \/ BrokerStarts(p) \/ BrokerFails(p)
                     \/ NodeStarts(p) \/ NodeLeaves(p) \/ Others(p)
  \/ Signal \/ Connects \/ Speaks

ControllerNext == Works \/ Environment

ControllerSpec == ControllerInit /\ [][ControllerNext]_controllerVars

\* The thread works, a signalled process ends, and a process that was started
\* gets somewhere.  No client has to speak.
ControllerFairness ==
  /\ WF_controllerVars(Works)
  /\ \A p \in Pids : WF_controllerVars(Dies(p)) /\ WF_controllerVars(BrokerStarts(p) \/ NodeStarts(p))

FairControllerSpec == ControllerSpec /\ ControllerFairness

--------------------------------------------------------------------------------
(***************************************************************************)
(* Properties.                                                             *)
(***************************************************************************)
\* A node is never run by two processes, and the one that runs is in node_pids:
\* whatever was crashed, reaped by a status or a dashboard, and restarted, and
\* whoever has got the id in between.
OneProcessPerNode ==
  \A c \in Children : ProcessesOf(c) \subseteq {pidOf[c]}

\* The controller does not return from main() before every child has ended: those
\* reaped by a status, crashed, restarted or with an id that is a stranger's by
\* now are no exception.  (Killed by SIGPIPE it leaves all of them.)
NoneOutlivesTheShutdown ==
  At("exited") => \A c \in Children : ProcessesOf(c) = {}

\* "Best-effort send - client might disconnect", says sendResponse(): that an
\* answer cannot be delivered ends the request and not the controller.
ClientsMayDisconnect == ~At("killed")

\* The two calls that no signal breaks: a question to a broker that waits for
\* nodes, and a dashboard client that says nothing.
Stuck == (Asking /\ broker = "accepting") \/ (At("client") /\ client = "silent")

\* A signal ends the controller, with commands still in the buffer, a client on
\* the dashboard, or a node in the middle of a restart, unless one of those two
\* holds it for ever.
SignalEnds ==
  []<>~Stuck => (~running ~> at.pc \in {"exited", "killed"})

\* The routes that `trace' prints, and that the broker relays by, whatever links
\* are up: there is one exactly when the destination can be reached, and no other
\* has fewer hops.  It is a property of the search alone, looked at once, before
\* anything has happened.
Untouched ==
  /\ at = [pc |-> "spawn", node |-> Broker] /\ mode = "console" /\ running
  /\ \A p \in Pids : Free(p)

RoutesAreShortest ==
  Untouched =>
    \A up \in SUBSET Links : \A src, dst \in Ids :
      LET p == TracePath(up, src, dst)
      IN IF dst \in Within(up, src, MeshNodes)
         THEN IsRoute(up, p, src, dst) /\ (Len(p) > 1 => dst \notin Within(up, src, Len(p) - 2))
         ELSE p = <<>>
================================================================================
