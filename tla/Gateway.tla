-------------------------------- MODULE Gateway --------------------------------
(***************************************************************************)
(* The gateway process: the loop of GatewayMain.cpp, the HTTP server of    *)
(* GatewayServer.cpp, and what its handlers do across VanRegistry.cpp,     *)
(* FabricManager.cpp, the session pool and the subscriptions.              *)
(*                                                                         *)
(* One thread accepts a connection, waits for its one recv(), dispatches,  *)
(* answers and closes; between two connections it looks whether a second   *)
(* has passed and ticks the pool and the subscriptions.                    *)
(*                                                                         *)
(* The pool and the subscriptions have modules of their own; here a van    *)
(* has a session or none, and records or none.                             *)
(*                                                                         *)
(* recv() has no timeout and nothing catches what a handler throws: the    *)
(* loop waits for a silent client as long as that client likes, and the    *)
(* process may die in any request.                                         *)
(***************************************************************************)
EXTENDS Integers, Sequences, FiniteSets

CONSTANTS
  Vans, Devices, Clients,
  MaxVans,      \* TenantInfo::max_vans
  MaxTenants,   \* bound: tenants ever created
  MaxOps        \* bound: requests and calls that change a table

NoDevice == "none"

ASSUME GatewayAssumption ==
  /\ NoDevice \notin Devices
  /\ MaxVans \in Nat /\ MaxTenants \in Nat /\ MaxOps \in Nat

VARIABLES
  device,       \* VanRegistry::vans_: the device of a van, NoDevice if not registered
  sessions,     \* CASESessionPool::sessions_: vans that have one, up or down
  subscribed,   \* FleetSubscriptionManager::van_subs_: vans that have records
  tenants,      \* FabricManager::tenants_
  nextTenant,   \* next_tenant_id_
  creds,        \* FabricManager::credentials_: [van, tenant, node]
  nextNode,     \* next_node_id_
  conn,         \* per client: away, idle, part, whole (what it sent), closed
  backlog,      \* connections that wait for accept()
  at,           \* the loop: poll, recv, tick, stopped, dead
  serving,      \* at recv: the client
  tickDue,      \* a second has passed since last_tick
  signalled,    \* ~g_running
  ops           \* operations so far

tables == <<device, sessions, subscribed, tenants, nextTenant, creds, nextNode>>
loop == <<conn, backlog, at, serving, tickDue, signalled>>
vars == <<tables, loop, ops>>

Op == ops < MaxOps /\ ops' = ops + 1

GatewayInit ==
  /\ device = [v \in Vans |-> NoDevice] /\ sessions = {} /\ subscribed = {}
  /\ tenants = {} /\ nextTenant = 1 /\ creds = {} /\ nextNode = 1
  /\ conn = [c \in Clients |-> "away"] /\ backlog = <<>>
  /\ at = "poll" /\ serving \in Clients /\ tickDue = FALSE /\ signalled = FALSE
  /\ ops = 0

--------------------------------------------------------------------------------
(* The components' operations, as far as the handlers need them.             *)

\* listVans(), getVan(), contains().
Registered == {v \in Vans : device[v] # NoDevice}

\* An id that is taken is refused.
RegisterVan(v, d) == device' = IF v \in Registered THEN device ELSE [device EXCEPT ![v] = d]
UpdateVan(v, d) == device' = IF v \in Registered THEN [device EXCEPT ![v] = d] ELSE device
DeregisterVan(v) == device' = [device EXCEPT ![v] = NoDevice]

CreateTenant ==
  /\ nextTenant <= MaxTenants
  /\ tenants' = tenants \cup {nextTenant} /\ nextTenant' = nextTenant + 1

\* The credentials of a tenant, which credentialCount() counts.
Issued(t) == {c \in creds : c.tenant = t}

\* issueNOC(): an unknown tenant, a full one, and a van that has a credential are
\* refused; nobody asks whether the van is registered.
\* (Mutant: the van's credential is looked for among the tenant's.)
IssueNOCOfTenant(t, v) ==
  /\ t \in tenants /\ Cardinality(Issued(t)) < MaxVans
  /\ \A c \in Issued(t) : c.van # v
  /\ creds' = creds \cup {[van |-> v, tenant |-> t, node |-> nextNode]}
  /\ nextNode' = nextNode + 1

IssueNOC(t, v) ==
  /\ t \in tenants /\ Cardinality(Issued(t)) < MaxVans
  /\ \A c \in creds : c.van # v
  /\ creds' = creds \cup {[van |-> v, tenant |-> t, node |-> nextNode]}
  /\ nextNode' = nextNode + 1

--------------------------------------------------------------------------------
(* The handlers that change a table.                                         *)

HandleRegisterVan(v, d) ==
  /\ Op /\ RegisterVan(v, d)
  /\ UNCHANGED <<sessions, subscribed, tenants, nextTenant, creds, nextNode>>

\* Another device for the van leaves its session and records as they are.
HandleUpdateVan(v, d) ==
  /\ Op /\ UpdateVan(v, d)
  /\ UNCHANGED <<sessions, subscribed, tenants, nextTenant, creds, nextNode>>

\* The credential of the van stays, and so do its buffered events.
\* (Mutant: the session is left to expire by itself.)
HandleDeleteVanOnly(v) ==
  /\ Op /\ DeregisterVan(v)
  /\ subscribed' = subscribed \ {v}
  /\ UNCHANGED <<sessions, tenants, nextTenant, creds, nextNode>>

HandleDeleteVan(v) ==
  /\ Op /\ DeregisterVan(v)
  /\ sessions' = sessions \ {v}
  /\ subscribed' = subscribed \ {v}
  /\ UNCHANGED <<tenants, nextTenant, creds, nextNode>>

HandleCreateTenant ==
  /\ Op /\ CreateTenant
  /\ UNCHANGED <<device, sessions, subscribed, creds, nextNode>>

HandleIssueNOC(t, v) ==
  /\ Op /\ IssueNOC(t, v)
  /\ UNCHANGED <<device, sessions, subscribed, tenants, nextTenant>>

\* A command goes to the device of the registry, if the van has a session: it
\* touches the activity of the session, which module SessionPool keeps.
HandleCommand == UNCHANGED <<tables, ops>>

\* Rules are added and removed in FleetSubscriptions; a van that is subscribed
\* keeps its records.
HandleRules == UNCHANGED <<tables, ops>>

\* The lists, the status and the other requests read the tables, or fail.
HandleVans == UNCHANGED <<tables, ops>>
HandleFleet == UNCHANGED <<tables, ops>>
HandleRead == UNCHANGED <<tables, ops>>

\* routeRequest(): what a whole request may do, and what is left of one whose
\* body is still to come when recv() returns.
Dispatch(whole) ==
  \/ HandleVans \/ HandleFleet \/ HandleRead \/ HandleCommand \/ HandleRules
  \/ \E v \in Vans : HandleDeleteVan(v)
  \/ /\ whole
     /\ \/ HandleCreateTenant
        \/ \E v \in Vans : \/ \E d \in Devices : HandleRegisterVan(v, d) \/ HandleUpdateVan(v, d)
                           \/ \E t \in tenants : HandleIssueNOC(t, v)

--------------------------------------------------------------------------------
(* The loop.                                                                 *)

\* poll(): accept() takes the oldest connection, or there is none.
Poll ==
  /\ at = "poll" /\ ~signalled
  /\ IF backlog = <<>> THEN at' = "tick" /\ UNCHANGED <<serving, backlog>>
     ELSE at' = "recv" /\ serving' = Head(backlog) /\ backlog' = Tail(backlog)
  /\ UNCHANGED <<tables, conn, tickDue, signalled, ops>>

\* handleClient(): one recv() for whatever has arrived, and the answer; a client
\* that closed gets none.
\* (Mutants: recv() is repeated until the request is whole; the loop polls again
\* before it looks at the clock.)
Spoken == conn[serving] \in {"part", "whole"}

ServeWhole ==
  /\ at = "recv" /\ conn[serving] \in {"whole", "closed"}
  /\ IF Spoken THEN Dispatch(TRUE) ELSE UNCHANGED <<tables, ops>>
  /\ conn' = [conn EXCEPT ![serving] = "away"] /\ at' = "tick"
  /\ UNCHANGED <<backlog, serving, tickDue, signalled>>

ServeFirst ==
  /\ at = "recv" /\ conn[serving] # "idle"
  /\ IF Spoken THEN Dispatch(conn[serving] = "whole") ELSE UNCHANGED <<tables, ops>>
  /\ conn' = [conn EXCEPT ![serving] = "away"] /\ at' = "poll"
  /\ UNCHANGED <<backlog, serving, tickDue, signalled>>

Serve ==
  /\ at = "recv" /\ conn[serving] # "idle"
  /\ IF Spoken THEN Dispatch(conn[serving] = "whole") ELSE UNCHANGED <<tables, ops>>
  /\ conn' = [conn EXCEPT ![serving] = "away"] /\ at' = "tick"
  /\ UNCHANGED <<backlog, serving, tickDue, signalled>>

\* The process dies in a request, unanswered: a number in a path that stoul()
\* refuses, a member of the body that has another type or text that is not UTF-8
\* throws, and nothing catches it; send() to a client that has gone raises SIGPIPE.
\* The kernel closes every connection.
Die ==
  /\ at = "recv" /\ Spoken /\ at' = "dead"
  /\ conn' = [c \in Clients |-> "away"] /\ backlog' = <<>>
  /\ UNCHANGED <<tables, serving, tickDue, signalled, ops>>

\* The pool's and the subscriptions' tick, if it is time: they change what the
\* vans' sessions and records say, and neither adds nor removes one.
TickIfDue ==
  /\ at = "tick" /\ at' = "poll" /\ tickDue' = FALSE
  /\ UNCHANGED <<tables, conn, backlog, serving, signalled, ops>>

\* The loop's condition: stop() closes the listening socket.
Stop ==
  /\ at = "poll" /\ signalled /\ at' = "stopped"
  /\ conn' = [c \in Clients |-> "away"] /\ backlog' = <<>>
  /\ UNCHANGED <<tables, serving, tickDue, signalled, ops>>

--------------------------------------------------------------------------------
(* The clients, the clock and the signal.                                    *)
LoopEnded == at \in {"stopped", "dead"}

Connect(c) ==
  /\ ~LoopEnded /\ conn[c] = "away"
  /\ conn' = [conn EXCEPT ![c] = "idle"] /\ backlog' = Append(backlog, c)
  /\ UNCHANGED <<tables, at, serving, tickDue, signalled, ops>>

\* A client sends its request, or the first part of it, or gives up.
Send(c) ==
  /\ conn[c] = "idle"
  /\ \E what \in {"part", "whole", "closed"} : conn' = [conn EXCEPT ![c] = what]
  /\ UNCHANGED <<tables, backlog, at, serving, tickDue, signalled, ops>>

SecondPasses ==
  /\ ~tickDue /\ ~LoopEnded /\ tickDue' = TRUE
  /\ UNCHANGED <<tables, conn, backlog, at, serving, signalled, ops>>

Signal ==
  /\ ~signalled /\ signalled' = TRUE
  /\ UNCHANGED <<tables, conn, backlog, at, serving, tickDue, ops>>

--------------------------------------------------------------------------------
(* Calls no handler makes: they are for code that embeds the components, as  *)
(* the scenario tests do, and fall between two turns of the loop.            *)
Embedded == Op /\ at = "poll" /\ UNCHANGED loop

\* connect(), which asks nobody whether the van is registered, and subscribeVan()
\* when it succeeds.
Adopt(v) ==
  /\ Embedded
  /\ sessions' = sessions \cup {v}
  /\ \/ subscribed' = subscribed \cup {v}
     \/ UNCHANGED subscribed
  /\ UNCHANGED <<device, tenants, nextTenant, creds, nextNode>>

\* removeTenant(): the tenant's credentials go with it.
RemoveTenant(t) ==
  /\ Embedded /\ t \in tenants /\ tenants' = tenants \ {t}
  /\ creds' = {c \in creds : c.tenant # t}
  /\ UNCHANGED <<device, sessions, subscribed, nextTenant, nextNode>>

RevokeNOC(t, v) ==
  /\ Embedded /\ \E c \in creds : c.van = v /\ c.tenant = t
  /\ creds' = {c \in creds : c.van # v}
  /\ UNCHANGED <<device, sessions, subscribed, tenants, nextTenant, nextNode>>

GatewayNext ==
  \/ Poll \/ Serve \/ Die \/ TickIfDue \/ Stop
  \/ SecondPasses \/ Signal
  \/ \E c \in Clients : Connect(c) \/ Send(c)
  \/ \E v \in Vans : Adopt(v)
  \/ \E t \in tenants : RemoveTenant(t) \/ \E v \in Vans : RevokeNOC(t, v)

GatewaySpec == GatewayInit /\ [][GatewayNext]_vars

\* The loop turns whenever it can; nothing makes a client speak.
GatewayFairness == WF_vars(Poll) /\ WF_vars(Serve) /\ WF_vars(TickIfDue) /\ WF_vars(Stop)

FairGatewaySpec == GatewaySpec /\ GatewayFairness

--------------------------------------------------------------------------------
(***************************************************************************)
(* Properties.                                                             *)
(***************************************************************************)
\* Every variable has its type.
GatewayTypeOK ==
  /\ device \in [Vans -> Devices \cup {NoDevice}] /\ sessions \cup subscribed \subseteq Vans
  /\ nextTenant \in 1 .. MaxTenants + 1 /\ nextNode \in Nat \ {0} /\ ops \in 0 .. MaxOps
  /\ tenants \subseteq Nat
  /\ creds \subseteq [van : Vans, tenant : Nat, node : Nat]
  /\ conn \in [Clients -> {"away", "idle", "part", "whole", "closed"}]
  /\ backlog \in Seq(Clients) /\ serving \in Clients
  /\ at \in {"poll", "recv", "tick", "stopped", "dead"}
  /\ tickDue \in BOOLEAN /\ signalled \in BOOLEAN

\* FLEET_GATEWAY.md, FabricManager: a van is in the fabric of one tenant, which
\* exists and is within its limit, under a node id of its own: through any order
\* of issuing, revoking and removing.
CredentialsAreSound ==
  /\ \A c \in creds : c.tenant \in tenants /\ c.node < nextNode
  /\ \A c, d \in creds : c.van = d.van \/ c.node = d.node => c = d
  /\ \A t \in tenants : Cardinality(Issued(t)) <= MaxVans

\* Deleting a van reaches the pool and the subscriptions: neither works for it
\* after the step, and no request and no tick brings it back, only a new connect().
WorkedFor(v) == v \in sessions \cup subscribed

DeletionReachesAll ==
  [][\A v \in Vans :
       WorkedFor(v)' => \/ WorkedFor(v) /\ (v \in Registered => v \in Registered')
                        \/ Adopt(v)]_vars

\* The one recv() waits for a client that is connected and silent.
Held == at = "recv" /\ conn[serving] = "idle"

\* Every client that has sent something is served in its turn, with a part of a
\* request as well as with a whole one, unless a client ahead of it stays silent
\* for ever or the process ends.
RequestsAreAnswered ==
  []<>~Held => \A c \in Clients : conn[c] \in {"part", "whole"} ~> conn[c] = "away"

\* However many clients come, as long as each speaks or leaves, keepalives and
\* liveness checks are not put off for ever, and a signal ends the process.
ClientsDoNotStopTime ==
  []<>~Held => (tickDue ~> ~tickDue \/ LoopEnded) /\ (signalled ~> LoopEnded)

\* "reads BasicInformation:SoftwareVersion every 60 seconds" (FLEET_GATEWAY.md):
\* the pool's tick, which does that, comes again and again.  It does not: a client
\* that connects and says nothing holds recv(), and with it the loop.
KeepaliveGoesOn == tickDue ~> ~tickDue \/ LoopEnded
================================================================================
