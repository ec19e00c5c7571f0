---------------------------- MODULE Gateway_proofs ----------------------------
(***************************************************************************)
(* Theorems about the two ends of the gateway: the tables and the loop     *)
(* that serve its clients (module Gateway), for any vans, devices, clients *)
(* and limits, and the bridge to chip-tool's processes (HardwareBridge),   *)
(* for any number of process ids and subscriptions and any timeout.        *)
(***************************************************************************)
EXTENDS Gateway, HardwareBridge, FiniteSetTheorems, TLAPS

(***************************************************************************)
(* The tables and the loop.  The inductive invariant falls into two        *)
(* halves: a handler changes the one, Poll, Serve and Stop the other.      *)
(***************************************************************************)
TablesTypeOK ==
  /\ device \in [Vans -> Devices \cup {NoDevice}] /\ sessions \cup subscribed \subseteq Vans
  /\ nextTenant \in 1 .. MaxTenants + 1 /\ nextNode \in Nat \ {0} /\ ops \in 0 .. MaxOps
  /\ tenants \subseteq Nat
  /\ creds \subseteq [van : Vans, tenant : Nat, node : Nat]

LoopTypeOK ==
  /\ conn \in [Clients -> {"away", "idle", "part", "whole", "closed"}]
  /\ backlog \in Seq(Clients) /\ serving \in Clients
  /\ at \in {"poll", "recv", "tick", "stopped", "dead"}
  /\ tickDue \in BOOLEAN /\ signalled \in BOOLEAN

\* What CredentialsAreSound needs besides: tenant ids are not used twice, so a
\* new tenant has no credentials yet, and credentials can be counted.
TenantsAreOld == \A t \in tenants : t < nextTenant
CredsInv == TenantsAreOld /\ IsFiniteSet(creds) /\ CredentialsAreSound

TablesInv == TablesTypeOK /\ CredsInv

GatewayInv == TablesInv /\ LoopTypeOK

--------------------------------------------------------------------------------
(* Facts about the tables.                                                   *)

\* A step that leaves tenants and credentials alone leaves them sound.
LEMMA CredsUntouched ==
  ASSUME CredsInv, UNCHANGED <<tenants, nextTenant, creds, nextNode>>
  PROVE  CredsInv'
BY DEF CredsInv, TenantsAreOld, CredentialsAreSound, Issued

\* Credentials taken away leave the tenants that remain within their limits.
LEMMA CredsShrink ==
  ASSUME TablesTypeOK, CredsInv, UNCHANGED <<nextTenant, nextNode>>,
         creds' \subseteq creds, tenants' \subseteq tenants,
         \A c \in creds' : c.tenant \in tenants'
  PROVE  CredsInv'
<1> USE GatewayAssumption
<1>1. IsFiniteSet(creds')
  BY FS_Subset DEF CredsInv
<1>2. ASSUME NEW t \in tenants' PROVE Cardinality(Issued(t)') <= MaxVans
  <2>1. IsFiniteSet(Issued(t)) /\ Issued(t)' \subseteq Issued(t)
    BY FS_Subset DEF CredsInv, Issued
  <2>2. Cardinality(Issued(t)') <= Cardinality(Issued(t))
    BY <2>1, FS_Subset
  <2>3. Cardinality(Issued(t)) <= MaxVans
    BY <1>2 DEF CredsInv, CredentialsAreSound
  <2>4. Cardinality(Issued(t)) \in Nat /\ Cardinality(Issued(t)') \in Nat
    BY <2>1, FS_Subset, FS_CardinalityType
  <2> QED BY <2>2, <2>3, <2>4
<1> QED BY <1>1, <1>2 DEF CredsInv, TenantsAreOld, CredentialsAreSound, Issued

\* A new credential is the first of its van and of its node, and its tenant had room.
LEMMA CredsGrow ==
  ASSUME TablesTypeOK, CredsInv, NEW t, NEW v \in Vans, IssueNOC(t, v),
         UNCHANGED <<tenants, nextTenant>>
  PROVE  CredsInv'
<1> USE GatewayAssumption
<1> DEFINE new == [van |-> v, tenant |-> t, node |-> nextNode]
<1>1. /\ t \in tenants /\ Cardinality(Issued(t)) < MaxVans
      /\ \A c \in creds : c.van # v
      /\ creds' = creds \cup {new} /\ nextNode' = nextNode + 1
  BY DEF IssueNOC
<1>2. new.van = v /\ new.tenant = t /\ new.node = nextNode
  OBVIOUS
<1>3. nextNode \in Nat /\ \A c \in creds : c.node \in Nat /\ c.node < nextNode
  BY DEF TablesTypeOK, CredsInv, CredentialsAreSound
<1> HIDE DEF new
<1>4. IsFiniteSet(creds')
  BY <1>1, FS_AddElement DEF CredsInv
<1>5. ASSUME NEW u \in tenants PROVE Cardinality(Issued(u)') <= MaxVans
  <2>1. CASE u = t
    <3>1. Issued(t)' = Issued(t) \cup {new} /\ new \notin Issued(t)
      BY <1>1, <1>2 DEF Issued
    <3>2. IsFiniteSet(Issued(t))
      BY FS_Subset DEF CredsInv, Issued
    <3>3. Cardinality(Issued(t) \cup {new}) = Cardinality(Issued(t)) + 1 /\ Cardinality(Issued(t)) \in Nat
      BY <3>1, <3>2, FS_AddElement, FS_CardinalityType
    <3>4. Issued(u)' = Issued(t)'
      BY <2>1
    <3> QED BY <1>1, <3>1, <3>3, <3>4
  <2>2. CASE u # t
    <3>1. Issued(u)' = Issued(u)
      BY <1>1, <1>2, <2>2 DEF Issued
    <3> QED BY <3>1 DEF CredsInv, CredentialsAreSound
  <2> QED BY <2>1, <2>2
<1>6. \A c \in creds' : c.tenant \in tenants' /\ c.node < nextNode'
  BY <1>1, <1>2, <1>3 DEF CredsInv, CredentialsAreSound
<1>7. \A c, d \in creds' : c.van = d.van \/ c.node = d.node => c = d
  BY <1>1, <1>2, <1>3 DEF CredsInv, CredentialsAreSound
<1>8. \A u \in tenants' : Cardinality(Issued(u))' <= MaxVans
  BY <1>5
<1>9. CredentialsAreSound'
  BY <1>6, <1>7, <1>8 DEF CredentialsAreSound
<1> QED BY <1>4, <1>9 DEF CredsInv, TenantsAreOld

\* A new tenant has no credential: those there are belong to older ones.
LEMMA TenantIsNew ==
  ASSUME TablesTypeOK, CredsInv, CreateTenant, UNCHANGED <<creds, nextNode>>
  PROVE  CredsInv'
<1> USE GatewayAssumption
<1>1. nextTenant \in Nat /\ tenants \subseteq Nat
  BY DEF TablesTypeOK
<1>2. tenants' = tenants \cup {nextTenant} /\ nextTenant' = nextTenant + 1
  BY DEF CreateTenant
<1>3. \A t : Issued(t)' = Issued(t)
  BY DEF Issued
<1>4. Issued(nextTenant) = {}
  BY <1>1 DEF Issued, CredsInv, TenantsAreOld, CredentialsAreSound
<1>5. Cardinality(Issued(nextTenant)) <= MaxVans
  BY <1>4, FS_EmptySet
<1>6. \A t \in tenants' : Cardinality(Issued(t)') <= MaxVans
  BY <1>2, <1>3, <1>5 DEF CredsInv, CredentialsAreSound
<1>7. TenantsAreOld'
  BY <1>1, <1>2 DEF CredsInv, TenantsAreOld
<1> QED BY <1>2, <1>6, <1>7 DEF CredsInv, CredentialsAreSound

--------------------------------------------------------------------------------
(* The handlers, and the calls of embedding code.                            *)

LEMMA UntouchedTables ==
  ASSUME TablesInv, UNCHANGED <<tables, ops>>
  PROVE  TablesInv'
BY CredsUntouched DEF TablesInv, TablesTypeOK, tables

LEMMA RegisterKeepsTables ==
  ASSUME TablesInv, NEW v \in Vans, NEW d \in Devices, HandleRegisterVan(v, d)
  PROVE  TablesInv'
<1> USE GatewayAssumption DEF HandleRegisterVan, RegisterVan, Op
<1>1. TablesTypeOK'
  BY DEF TablesInv, TablesTypeOK
<1> QED BY <1>1, CredsUntouched DEF TablesInv

LEMMA UpdateKeepsTables ==
  ASSUME TablesInv, NEW v \in Vans, NEW d \in Devices, HandleUpdateVan(v, d)
  PROVE  TablesInv'
<1> USE GatewayAssumption DEF HandleUpdateVan, UpdateVan, Op
<1>1. TablesTypeOK'
  BY DEF TablesInv, TablesTypeOK
<1> QED BY <1>1, CredsUntouched DEF TablesInv

LEMMA DeleteKeepsTables ==
  ASSUME TablesInv, NEW v \in Vans, HandleDeleteVan(v)
  PROVE  TablesInv'
<1> USE GatewayAssumption DEF HandleDeleteVan, DeregisterVan, Op
<1>1. TablesTypeOK'
  BY DEF TablesInv, TablesTypeOK
<1> QED BY <1>1, CredsUntouched DEF TablesInv

LEMMA CreateKeepsTables ==
  ASSUME TablesInv, HandleCreateTenant
  PROVE  TablesInv'
<1>1. TablesTypeOK'
  BY GatewayAssumption DEF TablesInv, TablesTypeOK, HandleCreateTenant, CreateTenant, Op
<1> QED BY <1>1, TenantIsNew DEF TablesInv, HandleCreateTenant

LEMMA IssueKeepsTables ==
  ASSUME TablesInv, NEW t \in tenants, NEW v \in Vans, HandleIssueNOC(t, v)
  PROVE  TablesInv'
<1>1. [van |-> v, tenant |-> t, node |-> nextNode] \in [van : Vans, tenant : Nat, node : Nat]
  BY DEF TablesInv, TablesTypeOK
<1>2. TablesTypeOK'
  BY <1>1, GatewayAssumption DEF TablesInv, TablesTypeOK, HandleIssueNOC, IssueNOC, Op
<1> QED BY <1>2, CredsGrow DEF TablesInv, HandleIssueNOC

LEMMA DispatchKeepsTables ==
  ASSUME TablesInv, NEW whole \in BOOLEAN, Dispatch(whole)
  PROVE  TablesInv'
<1>1. CASE HandleVans \/ HandleFleet \/ HandleRead \/ HandleCommand \/ HandleRules
  BY <1>1, UntouchedTables DEF HandleVans, HandleFleet, HandleRead, HandleCommand, HandleRules
<1>2. CASE \E v \in Vans : HandleDeleteVan(v)
  BY <1>2, DeleteKeepsTables
<1>3. CASE HandleCreateTenant
  BY <1>3, CreateKeepsTables
<1>4. CASE \E v \in Vans : \E d \in Devices : HandleRegisterVan(v, d) \/ HandleUpdateVan(v, d)
  BY <1>4, RegisterKeepsTables, UpdateKeepsTables
<1>5. CASE \E v \in Vans : \E t \in tenants : HandleIssueNOC(t, v)
  BY <1>5, IssueKeepsTables
<1> QED BY <1>1, <1>2, <1>3, <1>4, <1>5 DEF Dispatch

LEMMA AdoptKeepsTables ==
  ASSUME TablesInv, NEW v \in Vans, Adopt(v)
  PROVE  TablesInv'
<1> USE GatewayAssumption DEF Adopt, Embedded, Op
<1>1. TablesTypeOK'
  BY DEF TablesInv, TablesTypeOK
<1> QED BY <1>1, CredsUntouched DEF TablesInv

LEMMA RemoveKeepsTables ==
  ASSUME TablesInv, NEW t \in tenants, RemoveTenant(t)
  PROVE  TablesInv'
<1>1. TablesTypeOK'
  BY GatewayAssumption DEF TablesInv, TablesTypeOK, RemoveTenant, Embedded, Op
<1>2. \A c \in creds' : c.tenant \in tenants'
  BY DEF RemoveTenant, TablesInv, CredsInv, CredentialsAreSound
<1>3. creds' \subseteq creds /\ tenants' \subseteq tenants /\ UNCHANGED <<nextTenant, nextNode>>
  BY DEF RemoveTenant
<1> QED BY <1>1, <1>2, <1>3, CredsShrink DEF TablesInv

LEMMA RevokeKeepsTables ==
  ASSUME TablesInv, NEW t \in tenants, NEW v \in Vans, RevokeNOC(t, v)
  PROVE  TablesInv'
<1>1. TablesTypeOK'
  BY GatewayAssumption DEF TablesInv, TablesTypeOK, RevokeNOC, Embedded, Op
<1>2. \A c \in creds' : c.tenant \in tenants'
  BY DEF RevokeNOC, TablesInv, CredsInv, CredentialsAreSound
<1>3. creds' \subseteq creds /\ tenants' \subseteq tenants /\ UNCHANGED <<nextTenant, nextNode>>
  BY DEF RevokeNOC
<1> QED BY <1>1, <1>2, <1>3, CredsShrink DEF TablesInv

--------------------------------------------------------------------------------
(* The whole process.                                                        *)

LEMMA GatewayStarts == GatewayInit => GatewayInv
<1> SUFFICES ASSUME GatewayInit PROVE GatewayInv
  OBVIOUS
<1>0. /\ conn = [c \in Clients |-> "away"] /\ backlog = <<>>
      /\ at = "poll" /\ serving \in Clients /\ tickDue = FALSE /\ signalled = FALSE
  BY DEF GatewayInit
<1> USE GatewayAssumption DEF GatewayInit
<1>1. TablesTypeOK /\ LoopTypeOK
  <2>1. nextTenant \in 1 .. MaxTenants + 1 /\ nextNode \in Nat \ {0} /\ ops \in 0 .. MaxOps
    OBVIOUS
  <2>2. TablesTypeOK
    BY <2>1 DEF TablesTypeOK
  <2>3. backlog \in Seq(Clients)
    BY <1>0
  <2>4. LoopTypeOK
    BY <1>0, <2>3 DEF LoopTypeOK
  <2> QED BY <2>2, <2>4
<1>2. CredsInv
  BY FS_EmptySet DEF CredsInv, TenantsAreOld, CredentialsAreSound
<1> QED BY <1>1, <1>2 DEF GatewayInv, TablesInv

LEMMA GatewaySteps == GatewayInv /\ [GatewayNext]_vars => GatewayInv'
<1> SUFFICES ASSUME GatewayInv, [GatewayNext]_vars PROVE GatewayInv'
  OBVIOUS
<1> USE DEF GatewayInv
<1>1. CASE Poll
  <2>1. TablesInv'
    BY <1>1, UntouchedTables DEF Poll
  <2>2. LoopTypeOK'
    BY <1>1 DEF LoopTypeOK, Poll
  <2> QED BY <2>1, <2>2
<1>2. CASE Serve
  <2>1. TablesInv'
    BY <1>2, UntouchedTables, DispatchKeepsTables DEF Serve
  <2>2. LoopTypeOK'
    BY <1>2 DEF LoopTypeOK, Serve
  <2> QED BY <2>1, <2>2
<1>3. CASE TickIfDue
  <2>1. TablesInv'
    BY <1>3, UntouchedTables DEF TickIfDue
  <2>2. LoopTypeOK'
    BY <1>3 DEF LoopTypeOK, TickIfDue
  <2> QED BY <2>1, <2>2
<1>4. CASE Stop \/ Die
  <2>1. TablesInv'
    BY <1>4, UntouchedTables DEF Stop, Die
  <2>2. LoopTypeOK'
    <3>1. /\ conn' = [c \in Clients |-> "away"] /\ backlog' = <<>> /\ at' \in {"stopped", "dead"}
          /\ UNCHANGED <<serving, tickDue, signalled>>
      BY <1>4 DEF Stop, Die
    <3>2. backlog' \in Seq(Clients)
      BY <3>1
    <3> QED BY <3>1, <3>2 DEF LoopTypeOK
  <2> QED BY <2>1, <2>2
<1>5. CASE SecondPasses \/ Signal
  <2>1. TablesInv'
    BY <1>5, UntouchedTables DEF SecondPasses, Signal
  <2>2. LoopTypeOK'
    BY <1>5 DEF LoopTypeOK, SecondPasses, Signal
  <2> QED BY <2>1, <2>2
<1>6. CASE \E c \in Clients : Connect(c) \/ Send(c)
  <2>1. TablesInv'
    BY <1>6, UntouchedTables DEF Connect, Send
  <2>2. LoopTypeOK'
    BY <1>6 DEF LoopTypeOK, Connect, Send
  <2> QED BY <2>1, <2>2
<1>7. CASE \E v \in Vans : Adopt(v)
  <2>1. TablesInv'
    BY <1>7, AdoptKeepsTables
  <2>2. LoopTypeOK'
    BY <1>7 DEF LoopTypeOK, Adopt, Embedded, loop
  <2> QED BY <2>1, <2>2
<1>8. CASE \E t \in tenants : RemoveTenant(t) \/ \E v \in Vans : RevokeNOC(t, v)
  <2>1. TablesInv'
    BY <1>8, RemoveKeepsTables, RevokeKeepsTables
  <2>2. LoopTypeOK'
    BY <1>8 DEF LoopTypeOK, RemoveTenant, RevokeNOC, Embedded, loop
  <2> QED BY <2>1, <2>2
<1>9. CASE UNCHANGED vars
  <2>1. TablesInv'
    BY <1>9, UntouchedTables DEF vars
  <2>2. LoopTypeOK'
    BY <1>9 DEF LoopTypeOK, vars, loop
  <2> QED BY <2>1, <2>2
<1> QED BY <1>1, <1>2, <1>3, <1>4, <1>5, <1>6, <1>7, <1>8, <1>9 DEF GatewayNext

LEMMA GatewayInvariant == GatewaySpec => []GatewayInv
BY GatewayStarts, GatewaySteps, PTL DEF GatewaySpec

\* Every variable of the gateway keeps its type, whatever clients send.
THEOREM GatewayTypeCorrect == GatewaySpec => []GatewayTypeOK
<1>1. GatewayInv => GatewayTypeOK
  BY DEF GatewayInv, TablesInv, TablesTypeOK, LoopTypeOK, GatewayTypeOK
<1> QED BY <1>1, GatewayInvariant, PTL

\* Whatever is issued, revoked and removed in which order: a van is in the fabric
\* of one tenant, under its own node id, and no tenant has more than its limit.
THEOREM CredentialsStaySound == GatewaySpec => []CredentialsAreSound
<1>1. GatewayInv => CredentialsAreSound
  BY DEF GatewayInv, TablesInv, CredsInv
<1> QED BY <1>1, GatewayInvariant, PTL

\* A van that is deleted has no session and no records left, and nothing but a new
\* connect() gives it one: no handler of a request, no tick, no other call.
THEOREM DeletionReachesEverything == GatewaySpec => DeletionReachesAll
<1> DEFINE Kept(v) == WorkedFor(v)' => \/ WorkedFor(v) /\ (v \in Registered => v \in Registered')
                                       \/ Adopt(v)
<1>1. ASSUME UNCHANGED <<device, sessions, subscribed>>, NEW v \in Vans PROVE Kept(v)
  BY <1>1 DEF WorkedFor, Registered
<1>2. ASSUME GatewayInv, NEW v \in Vans, NEW whole \in BOOLEAN, Dispatch(whole) PROVE Kept(v)
  <2>1. CASE HandleVans \/ HandleFleet \/ HandleRead \/ HandleCommand \/ HandleRules
    BY <1>1, <2>1 DEF HandleVans, HandleFleet, HandleRead, HandleCommand, HandleRules, tables
  <2>2. ASSUME NEW w \in Vans, HandleDeleteVan(w) PROVE Kept(v)
    BY <2>2 DEF GatewayInv, TablesInv, TablesTypeOK, HandleDeleteVan, DeregisterVan, WorkedFor, Registered
  <2>3. CASE HandleCreateTenant
    BY <1>1, <2>3 DEF HandleCreateTenant
  <2>4. ASSUME NEW w \in Vans, NEW d \in Devices, HandleRegisterVan(w, d) \/ HandleUpdateVan(w, d) PROVE Kept(v)
    <3>1. UNCHANGED <<sessions, subscribed>> /\ d # NoDevice
      BY <2>4, GatewayAssumption DEF HandleRegisterVan, HandleUpdateVan
    <3>2. device \in [Vans -> Devices \cup {NoDevice}]
      BY <1>2 DEF GatewayInv, TablesInv, TablesTypeOK
    <3>3. device' = device \/ device' = [device EXCEPT ![w] = d]
      BY <2>4, Zenon DEF HandleRegisterVan, HandleUpdateVan, RegisterVan, UpdateVan
    <3>4. device[v] # NoDevice => device'[v] # NoDevice
      BY <3>1, <3>2, <3>3
    <3> QED BY <3>1, <3>4 DEF WorkedFor, Registered
  <2>5. ASSUME NEW w \in Vans, NEW t \in tenants, HandleIssueNOC(t, w) PROVE Kept(v)
    BY <1>1, <2>5 DEF HandleIssueNOC
  <2> QED BY <1>2, <2>1, <2>2, <2>3, <2>4, <2>5 DEF Dispatch
<1>3. ASSUME GatewayInv, GatewayNext, NEW v \in Vans PROVE Kept(v)
  <2>1. CASE Serve
    BY <1>1, <1>2, <1>3, <2>1 DEF Serve, tables
  <2>2. CASE Poll \/ Die \/ TickIfDue \/ Stop \/ SecondPasses \/ Signal
    BY <1>1, <2>2 DEF Poll, Die, TickIfDue, Stop, SecondPasses, Signal, tables
  <2>3. CASE \E c \in Clients : Connect(c) \/ Send(c)
    BY <1>1, <2>3 DEF Connect, Send, tables
  <2>4. ASSUME NEW w \in Vans, Adopt(w) PROVE Kept(v)
    BY <2>4 DEF Adopt, WorkedFor, Registered
  <2>5. CASE \E t \in tenants : RemoveTenant(t) \/ \E w \in Vans : RevokeNOC(t, w)
    BY <1>1, <2>5 DEF RemoveTenant, RevokeNOC
  <2> QED BY <1>3, <2>1, <2>2, <2>3, <2>4, <2>5 DEF GatewayNext
<1>4. GatewayInv /\ [GatewayNext]_vars => [\A v \in Vans : Kept(v)]_vars
  BY <1>3
<1> QED BY <1>4, GatewayInvariant, PTL DEF GatewaySpec, DeletionReachesAll

(***************************************************************************)
(* The bridge.  The inductive invariant says whose process each child is   *)
(* while the thread is between two system calls, and from when on an id    *)
(* may no longer be that of a child.                                       *)
(***************************************************************************)
Places == {"idle", "again", "poll", "tick", "grace", "sigkill", "last", "erase"}
Handles == 1 .. MaxSubs
Processes == [is : {"free", "other", "child", "zombie"}, killed : BOOLEAN, exit : Exits]
ProcessManagers == [pid : Pids \cup {NoPid}, running : BOOLEAN, age : Nat]
Threads == [at : Places, why : {"command", "tick", "cancel"}, who : Managers,
            left : SUBSET Handles, ended : SUBSET Handles]
Replies == [ok : BOOLEAN, told : BOOLEAN, done : BOOLEAN]

\* The variables have their types.
BridgeTyped ==
  /\ table \in [Pids -> Processes] /\ mgr \in [Managers -> ProcessManagers]
  /\ subs \subseteq Handles /\ nextSub \in 1 .. MaxSubs + 1
  /\ commissioned \in BOOLEAN
  /\ thread \in Threads
  /\ kind \in Kinds /\ reply \in Replies

\* Which manager the thread is at: the command's, or that of a handle, and it runs
\* from one system call of poll() and kill() to the next.
ThreadAtManager ==
  /\ thread.at \in {"idle", "again"} => thread.why = "command"
  /\ thread.at = "tick" => thread.why = "tick"
  /\ thread.at = "erase" => thread.why = "cancel"
  /\ thread.at = "poll" => thread.why # "cancel"
  /\ thread.why = "command" => thread.who = Command
  /\ thread.why = "cancel" => thread.who \in subs
  /\ thread.why = "tick" => thread.left \subseteq subs
  /\ thread.why = "tick" /\ thread.at # "tick" => thread.who \in subs
  /\ thread.at \in {"poll", "grace", "sigkill", "last"} => mgr[thread.who].running

\* The thread may have waited for the process of manager m already.
MayBeReaped(m) ==
  /\ m = thread.who
  /\ \/ thread.at = "erase"
     \/ thread.at \in {"sigkill", "last"} /\ thread.why # "cancel"

\* A running manager is that of the command in progress or of a handle, ...
RunningAreKnown ==
  /\ mgr[Command].running => thread.why = "command" /\ thread.at \notin {"idle", "again"}
  /\ \A m \in Managers : mgr[m].running /\ m # Command => m \in subs
  /\ thread.why = "tick" => \A s \in thread.ended : ~mgr[s].running

\* ... has a process of its own, a child until somebody can have waited for it, ...
RunningHaveChildren ==
  /\ \A m \in Managers : mgr[m].running => mgr[m].pid \in Pids
  /\ \A m \in Managers : mgr[m].running /\ ~MayBeReaped(m) => Child(mgr[m].pid)
  /\ \A m, n \in Managers : mgr[m].running /\ mgr[n].running /\ mgr[m].pid = mgr[n].pid => m = n

\* ... and there are no other children.
ChildrenHaveManagers ==
  /\ \A p \in Pids : Child(p) => \E m \in Managers : mgr[m].running /\ mgr[m].pid = p
  /\ thread.at = "erase" /\ mgr[thread.who].running => ~Child(Mine)

\* Outside a command the last result stands, and a success in it is real.
ResultStands ==
  /\ thread.at = "idle" \/ thread.why # "command"
  /\ kind \notin {"version", "help", "fabrics"}
  => /\ reply.ok => reply.done
     /\ reply.told /\ kind # "invoke" => reply.done

BridgeInv ==
  /\ BridgeTyped /\ ThreadAtManager
  /\ RunningAreKnown /\ RunningHaveChildren /\ ChildrenHaveManagers
  /\ ResultStands

--------------------------------------------------------------------------------
(* The kernel's table.                                                       *)

LEMMA AliveTyped == Alive \in Exits
BY DEF Alive, Exits

LEMMA FreshTyped ==
  ASSUME NEW is \in {"free", "other", "child", "zombie"}
  PROVE  Process(is) \in Processes
BY AliveTyped DEF Process, Processes

\* Processes of other ids are what they were when an entry is set anew.
LEMMA EntrySet ==
  ASSUME table \in [Pids -> Processes], NEW p \in Pids, NEW is \in {"free", "other", "child", "zombie"},
         table' = [table EXCEPT ![p] = Process(is)]
  PROVE  /\ table' \in [Pids -> Processes]
         /\ \A q \in Pids : Child(q)' <=> IF q = p THEN is \in {"child", "zombie"} ELSE Child(q)
<1>1. table' \in [Pids -> Processes]
  BY FreshTyped
<1>2. table'[p].is = is
  BY DEF Process
<1>3. \A q \in Pids : q # p => table'[q] = table[q]
  OBVIOUS
<1> QED BY <1>1, <1>2, <1>3, PidAssumption DEF Child

\* A signal makes no child of a process, and takes none out of the table.
LEMMA SignalKeepsChildren ==
  ASSUME table \in [Pids -> Processes], NEW p \in Pids, table' = Signalled(p)
  PROVE  /\ table' \in [Pids -> Processes]
         /\ \A q \in Pids : Child(q)' <=> Child(q)
<1>1. CASE table[p].is = "child"
  <2>1. table' = [table EXCEPT ![p].killed = TRUE]
    BY <1>1 DEF Signalled
  <2>2. table' \in [Pids -> Processes]
    BY <2>1 DEF Processes
  <2>3. \A q \in Pids : table'[q].is = table[q].is
    BY <2>1 DEF Processes
  <2> QED BY <2>2, <2>3 DEF Child
<1>2. CASE table[p].is = "other"
  <2>1. table' = [table EXCEPT ![p] = Process("free")]
    BY <1>2 DEF Signalled
  <2>2. ~Child(p)
    BY <1>2 DEF Child
  <2> QED BY <2>1, <2>2, EntrySet
<1>3. CASE table[p].is \notin {"child", "other"}
  <2>1. table' = table
    BY <1>3 DEF Signalled
  <2> QED BY <2>1 DEF Child
<1> QED BY <1>1, <1>2, <1>3

\* A waitpid() takes the child it asks for out of the table, if that has ended.
LEMMA WaitTakesTheZombie ==
  ASSUME table \in [Pids -> Processes], NEW p \in Pids,
         table' = IF table[p].is = "zombie" THEN Reaped(p) ELSE table
  PROVE  /\ table' \in [Pids -> Processes]
         /\ \A q \in Pids : Child(q)' <=> Child(q) /\ (q = p => table[p].is # "zombie")
<1>1. CASE table[p].is = "zombie"
  <2>1. table' = [table EXCEPT ![p] = Process("free")]
    BY <1>1 DEF Reaped
  <2> QED BY <1>1, <2>1, EntrySet
<1>2. CASE table[p].is # "zombie"
  BY <1>2 DEF Child
<1> QED BY <1>1, <1>2

\* What a child leaves is an exit, and so is what a timeout makes of it.
LEMMA TimedOutTyped ==
  ASSUME NEW says \in BOOLEAN
  PROVE  TimedOut(says) \in Exits /\ TimedOut(says).code = -1
BY DEF TimedOut, Exits

\* Where the exit code tells success from failure, success is real.
LEMMA SuccessOnlyIfDone ==
  ASSUME NEW k \in Kinds \ {"version", "help", "fabrics"}, NEW e \in Exits, Success(k, e)
  PROVE  e.done
BY DEF Success, Confirmed, Exits, Kinds, NodeKinds

--------------------------------------------------------------------------------
(* What an invariant's part depends on.                                      *)

LEMMA BridgeStarts == BridgeInit => BridgeInv
<1> SUFFICES ASSUME BridgeInit PROVE BridgeInv
  OBVIOUS
<1> USE DEF BridgeInit
<1>1. table \in [Pids -> Processes]
  BY FreshTyped
<1>2. mgr \in [Managers -> ProcessManagers] /\ thread \in Threads
  BY BridgeAssumption DEF Unused, ProcessManagers, Idle, Threads, Places, Managers, Command
<1>3. nextSub \in 1 .. MaxSubs + 1 /\ kind \in Kinds /\ reply \in Replies
  BY BridgeAssumption DEF Kinds, Replies, NoReply
<1>4. BridgeTyped
  BY <1>1, <1>2, <1>3 DEF BridgeTyped
<1>5. \A m \in Managers : ~mgr[m].running
  BY DEF Unused
<1>6. \A p \in Pids : ~Child(p)
  BY DEF Child, Process
<1>7. Command \in Managers
  BY BridgeAssumption DEF Managers, Command
<1>8. thread.at = "idle" /\ thread.why = "command" /\ thread.who = Command
  BY DEF Idle
<1>9. ThreadAtManager
  BY <1>8 DEF ThreadAtManager
<1>10. RunningAreKnown /\ RunningHaveChildren /\ ChildrenHaveManagers
  BY <1>5, <1>6, <1>7, <1>8 DEF RunningAreKnown, RunningHaveChildren, ChildrenHaveManagers
<1>11. ResultStands
  BY DEF ResultStands
<1> QED BY <1>4, <1>9, <1>10, <1>11 DEF BridgeInv

\* A manager that stays as it is, but for its age, is as good as before.
SameManagers ==
  /\ mgr' \in [Managers -> ProcessManagers]
  /\ \A m \in Managers : mgr'[m].running = mgr[m].running /\ mgr'[m].pid = mgr[m].pid

\* The processes go on while the thread stands still.
LEMMA WorldKeeps ==
  ASSUME BridgeInv, SameManagers, table' \in [Pids -> Processes],
         \A p \in Pids : Child(p)' <=> Child(p),
         UNCHANGED <<subs, nextSub, commissioned, thread, kind, reply>>
  PROVE  BridgeInv'
<1> USE DEF BridgeInv, SameManagers
<1>0. thread.who \in Managers /\ Command \in Managers /\ Handles \subseteq Managers
  BY BridgeAssumption DEF BridgeTyped, Threads, Managers, Command, Handles
<1>1. BridgeTyped'
  BY DEF BridgeTyped
<1>2. ThreadAtManager'
  BY <1>0 DEF ThreadAtManager
<1>3. \A m \in Managers : Child(mgr[m].pid)' <=> Child(mgr[m].pid)
  BY DEF Child, BridgeTyped, ProcessManagers
<1>4. \A m \in Managers : MayBeReaped(m)' <=> MayBeReaped(m)
  BY DEF MayBeReaped
<1>5. RunningAreKnown'
  BY <1>0 DEF RunningAreKnown, BridgeTyped, Threads
<1>6. RunningHaveChildren'
  BY <1>3, <1>4 DEF RunningHaveChildren
<1>7. ChildrenHaveManagers'
  BY <1>0, <1>3 DEF ChildrenHaveManagers, Mine
<1>8. ResultStands'
  BY DEF ResultStands
<1> QED BY <1>1, <1>2, <1>5, <1>6, <1>7, <1>8

LEMMA ChildEndsKeeps == ASSUME BridgeInv, NEW p \in Pids, ChildEnds(p) PROVE BridgeInv'
<1>1. PICK e \in Exits : table' = [table EXCEPT ![p].is = "zombie", ![p].exit = e]
  BY DEF ChildEnds
<1>2. table \in [Pids -> Processes] /\ mgr \in [Managers -> ProcessManagers]
  BY DEF BridgeInv, BridgeTyped
<1>3. table'[p] = [is |-> "zombie", killed |-> table[p].killed, exit |-> e]
  BY <1>1, <1>2 DEF Processes
<1>4. \A q \in Pids : q # p => table'[q] = table[q]
  BY <1>1, <1>2
<1>5. table' \in [Pids -> Processes]
  <2>1. table[p].killed \in BOOLEAN
    BY <1>2 DEF Processes
  <2>2. table'[p] \in Processes
    BY <1>3, <2>1 DEF Processes
  <2> QED BY <1>1, <1>2, <1>4, <2>2
<1>6. \A q \in Pids : Child(q)' <=> Child(q)
  <2>1. table'[p].is = "zombie" /\ table[p].is = "child"
    BY <1>3 DEF ChildEnds
  <2> QED BY <1>4, <2>1 DEF Child
<1>7. SameManagers
  BY <1>2 DEF ChildEnds, SameManagers
<1> QED BY <1>5, <1>6, <1>7, WorldKeeps DEF ChildEnds

LEMMA OthersKeep == ASSUME BridgeInv, NEW p \in Pids, Others(p) PROVE BridgeInv'
<1> DEFINE is == IF table[p].is = "free" THEN "other" ELSE "free"
<1>1. table \in [Pids -> Processes] /\ mgr \in [Managers -> ProcessManagers]
  BY DEF BridgeInv, BridgeTyped
<1>2. table' = [table EXCEPT ![p] = Process(is)] /\ is \in {"free", "other"}
  BY DEF Others
<1>3. ~Child(p)
  BY DEF Others, Child
<1> HIDE DEF is
<1>4. table' \in [Pids -> Processes] /\ \A q \in Pids : Child(q)' <=> Child(q)
  BY <1>1, <1>2, <1>3, EntrySet
<1>5. SameManagers
  BY <1>1 DEF Others, SameManagers
<1> QED BY <1>4, <1>5, WorldKeeps DEF Others

LEMMA ElapseKeeps == ASSUME BridgeInv, Elapse PROVE BridgeInv'
<1>1. table \in [Pids -> Processes] /\ mgr \in [Managers -> ProcessManagers]
  BY DEF BridgeInv, BridgeTyped
<1>2. ASSUME NEW m \in Managers
      PROVE  mgr'[m] \in ProcessManagers /\ mgr'[m].running = mgr[m].running /\ mgr'[m].pid = mgr[m].pid
  <2>1. CASE mgr'[m] = mgr[m]
    BY <1>1, <2>1
  <2>2. CASE mgr'[m] = [mgr[m] EXCEPT !.age = @ + 1]
    BY <1>1, <2>2 DEF ProcessManagers
  <2> QED BY <2>1, <2>2 DEF Elapse
<1>3. SameManagers
  <2>1. mgr' = [m \in Managers |-> mgr'[m]]
    BY DEF Elapse
  <2> QED BY <1>2, <2>1 DEF SameManagers
<1> QED BY <1>1, <1>3, WorldKeeps DEF Elapse, Child

--------------------------------------------------------------------------------
(* poll() and kill().                                                        *)

\* The thread goes on to the next system call of the same poll(), and nothing else.
ThreadGoesOn(place) ==
  /\ thread' \in Threads /\ thread'.at = place
  /\ thread'.why = thread.why /\ thread'.who = thread.who
  /\ thread'.left = thread.left /\ thread'.ended = thread.ended

LEMMA ThreadMoves ==
  ASSUME thread \in Threads, NEW place \in Places, thread' = [thread EXCEPT !.at = place]
  PROVE  ThreadGoesOn(place)
BY DEF ThreadGoesOn, Threads

\* What is known of the process of the manager that the thread is at.
LEMMA ThreadsManager ==
  ASSUME BridgeInv, thread.at \in {"poll", "grace", "sigkill", "last"}
  PROVE  /\ thread.who \in Managers /\ mgr[thread.who] \in ProcessManagers
         /\ mgr[thread.who].running /\ Mine \in Pids
         /\ ~MayBeReaped(thread.who) => Child(Mine)
BY DEF BridgeInv, BridgeTyped, ThreadAtManager, RunningHaveChildren, Threads, ProcessManagers, Mine, Child

\* From poll() to SIGTERM, SIGKILL and the last waitpid(): the one process that is
\* touched is Mine, and it is a child until the thread may have waited for it.
LEMMA StopGoesOn ==
  ASSUME BridgeInv, thread.at \in {"poll", "grace", "sigkill", "last"},
         NEW place \in {"grace", "sigkill", "last", "erase"}, ThreadGoesOn(place),
         place = "erase" => thread.why = "cancel",
         NEW p, p = Mine, table' \in [Pids -> Processes],
         \A q \in Pids : Child(q)' => Child(q),
         \A q \in Pids : q # p /\ Child(q) => Child(q)',
         place = "erase" => ~Child(p)',
         ~MayBeReaped(thread.who)' => Child(p)',
         UNCHANGED <<mgr, subs, nextSub, commissioned, kind, reply>>
  PROVE  BridgeInv'
<1> USE DEF ThreadGoesOn
<1>0. thread.who \in Managers /\ mgr[thread.who].running /\ p \in Pids /\ p = mgr[thread.who].pid
  BY ThreadsManager DEF Mine
<1>1. BridgeTyped'
  BY DEF BridgeInv, BridgeTyped
<1>2. ThreadAtManager'
  BY <1>0 DEF BridgeInv, ThreadAtManager
<1>3. RunningAreKnown'
  <2>1. mgr[Command].running => thread.why = "command" /\ thread.at \notin {"idle", "again"}
    BY DEF BridgeInv, RunningAreKnown
  <2> QED BY <2>1 DEF BridgeInv, RunningAreKnown
<1>4. ASSUME NEW m \in Managers, mgr[m].running, ~MayBeReaped(m)' PROVE Child(mgr[m].pid)'
  <2>1. CASE m = thread.who
    BY <1>0, <1>4, <2>1
  <2>2. CASE m # thread.who
    <3>1. mgr[m].pid \in Pids /\ mgr[m].pid # p /\ Child(mgr[m].pid)
      BY <1>0, <1>4, <2>2 DEF BridgeInv, RunningHaveChildren, MayBeReaped
    <3> QED BY <3>1
  <2> QED BY <2>1, <2>2
<1>5. RunningHaveChildren'
  BY <1>4 DEF BridgeInv, RunningHaveChildren
<1>6. ChildrenHaveManagers'
  <2>1. thread'.at = "erase" => ~Child(Mine)'
    BY <1>0 DEF Mine
  <2> QED BY <2>1 DEF BridgeInv, ChildrenHaveManagers
<1>7. ResultStands'
  BY DEF BridgeInv, ResultStands
<1> QED BY <1>1, <1>2, <1>3, <1>5, <1>6, <1>7 DEF BridgeInv

LEMMA PollTimeoutKeeps == ASSUME BridgeInv, PollTimeout PROVE BridgeInv'
<1>1. table \in [Pids -> Processes] /\ thread \in Threads
  BY DEF BridgeInv, BridgeTyped
<1>2. thread.at = "poll" /\ thread' = [thread EXCEPT !.at = "grace"] /\ UNCHANGED table
  BY DEF PollTimeout
<1>3. ThreadGoesOn("grace")
  BY <1>1, <1>2, ThreadMoves DEF Places
<1>4. PICK p \in Pids : p = Mine /\ Child(p)
  BY <1>2, ThreadsManager DEF MayBeReaped
<1>5. \A q \in Pids : Child(q)' <=> Child(q)
  BY <1>2 DEF Child
<1> QED BY <1>1, <1>2, <1>3, <1>4, <1>5, StopGoesOn DEF PollTimeout

\* kill() is done when it finds its child ended; poll() goes on all the same.
LEMMA GraceEndsKeeps == ASSUME BridgeInv, GraceEnds PROVE BridgeInv'
<1> DEFINE ended == table[Mine].is = "zombie"
           place == IF thread.why = "cancel" /\ ended THEN "erase" ELSE "sigkill"
<1>1. table \in [Pids -> Processes] /\ thread \in Threads
  BY DEF BridgeInv, BridgeTyped
<1>2. /\ thread.at = "grace" /\ thread' = [thread EXCEPT !.at = place]
      /\ table' = IF ended THEN Reaped(Mine) ELSE table
  BY DEF GraceEnds
<1>3. PICK p \in Pids : p = Mine /\ Child(p)
  BY <1>2, ThreadsManager DEF MayBeReaped
<1>4. /\ table' \in [Pids -> Processes]
      /\ \A q \in Pids : Child(q)' <=> Child(q) /\ (q = p => ~ended)
  BY <1>1, <1>2, <1>3, WaitTakesTheZombie
<1> HIDE DEF ended
<1>5. place \in {"sigkill", "erase"} /\ (place = "erase" <=> thread.why = "cancel" /\ ended)
  OBVIOUS
<1> HIDE DEF place
<1>6. ThreadGoesOn(place)
  BY <1>1, <1>2, <1>5, ThreadMoves DEF Places
<1>7. place = "erase" => ~Child(p)'
  BY <1>4, <1>5
<1>8. ~MayBeReaped(thread.who)' => Child(p)'
  BY <1>3, <1>4, <1>5, <1>6 DEF MayBeReaped, ThreadGoesOn
<1> QED BY <1>2, <1>3, <1>4, <1>5, <1>6, <1>7, <1>8, StopGoesOn DEF GraceEnds

LEMMA KillKeeps == ASSUME BridgeInv, Kill PROVE BridgeInv'
<1>1. table \in [Pids -> Processes] /\ thread \in Threads
  BY DEF BridgeInv, BridgeTyped
<1>2. thread.at = "sigkill" /\ thread' = [thread EXCEPT !.at = "last"] /\ table' = Signalled(Mine)
  BY DEF Kill
<1>3. PICK p \in Pids : p = Mine /\ (thread.why = "cancel" => Child(p))
  BY <1>2, ThreadsManager DEF MayBeReaped
<1>4. table' \in [Pids -> Processes] /\ \A q \in Pids : Child(q)' <=> Child(q)
  BY <1>1, <1>2, <1>3, SignalKeepsChildren
<1>5. ThreadGoesOn("last")
  BY <1>1, <1>2, ThreadMoves DEF Places
<1>6. ~MayBeReaped(thread.who)' => Child(p)'
  BY <1>3, <1>4, <1>5 DEF MayBeReaped, ThreadGoesOn
<1> QED BY <1>2, <1>3, <1>4, <1>5, <1>6, StopGoesOn DEF Kill

\* Between calls, or between a question for the version and the one for help.
LEMMA IdleTyped ==
  /\ Idle \in Threads /\ [Idle EXCEPT !.at = "again"] \in Threads
  /\ Idle.at = "idle" /\ [Idle EXCEPT !.at = "again"].at = "again"
  /\ \A t \in {Idle, [Idle EXCEPT !.at = "again"]} : t.why = "command" /\ t.who = Command
BY BridgeAssumption DEF Idle, Threads, Places, Managers, Command

\* The answer of a command is typed, and real where it is a success.
LEMMA AnswerKeeps ==
  ASSUME BridgeInv, NEW e \in Exits, Answer(e), UNCHANGED kind
  PROVE  /\ thread' \in {Idle, [Idle EXCEPT !.at = "again"]}
         /\ reply' \in Replies /\ commissioned' \in BOOLEAN /\ ResultStands'
<1>1. Success(kind, e) \in BOOLEAN /\ Told(kind, e) \in BOOLEAN /\ e.done \in BOOLEAN /\ commissioned \in BOOLEAN /\ kind \in Kinds
  BY DEF Success, Told, Confirmed, Exits, BridgeInv, BridgeTyped
<1>2. reply' = [ok |-> Success(kind, e), told |-> Told(kind, e), done |-> e.done]
  BY DEF Answer
<1>3. commissioned' = (commissioned \/ (kind = "pair" /\ Success(kind, e)))
  BY DEF Answer
<1>4. commissioned' \in BOOLEAN
  BY <1>1, <1>3, Zenon
<1>5. thread' \in {Idle, [Idle EXCEPT !.at = "again"]}
  BY DEF Answer
<1>6. ResultStands'
  <2>1. kind \notin {"version", "help", "fabrics"} /\ Success(kind, e) => e.done
    BY <1>1, SuccessOnlyIfDone
  <2>2. reply'.ok = Success(kind, e) /\ reply'.told = Told(kind, e) /\ reply'.done = e.done
    BY <1>2
  <2>3. kind # "invoke" => Told(kind, e) = Success(kind, e)
    BY <1>1 DEF Told
  <2> QED BY <2>1, <2>2, <2>3 DEF ResultStands
<1>7. reply' \in Replies
  BY <1>1, <1>2 DEF Replies
<1> QED BY <1>4, <1>5, <1>6, <1>7

\* A manager whose process has been waited for stops running: a command returns,
\* tick() notes the handle.
LEMMA ManagerStops ==
  ASSUME BridgeInv, thread.at \in {"poll", "last"}, thread.why # "cancel",
         NEW p, p = Mine, table' \in [Pids -> Processes],
         \A q \in Pids : Child(q)' => Child(q),
         \A q \in Pids : q # p /\ Child(q) => Child(q)',
         ~Child(p)',
         NEW stopped \in ProcessManagers, ~stopped.running,
         mgr' = [mgr EXCEPT ![thread.who] = stopped],
         NEW e \in Exits, Ended(e), UNCHANGED <<subs, nextSub, kind>>
  PROVE  BridgeInv'
<1>0. thread.who \in Managers /\ mgr[thread.who].running /\ p \in Pids /\ p = mgr[thread.who].pid
  BY ThreadsManager DEF Mine
<1>1. mgr' \in [Managers -> ProcessManagers] /\ ~mgr'[thread.who].running
  BY <1>0 DEF BridgeInv, BridgeTyped
<1>2. \A m \in Managers : m # thread.who => mgr'[m] = mgr[m]
  BY <1>0 DEF BridgeInv, BridgeTyped
<1>3. \A m \in Managers : mgr'[m].running => m # thread.who /\ mgr[m].running /\ mgr'[m].pid = mgr[m].pid
  BY <1>1, <1>2
<1>4. \A m, n \in Managers : mgr'[m].running /\ mgr'[n].running /\ mgr'[m].pid = mgr'[n].pid => m = n
  BY <1>3 DEF BridgeInv, RunningHaveChildren
<1>5. ASSUME NEW m \in Managers, mgr'[m].running
      PROVE  mgr'[m].pid \in Pids /\ Child(mgr[m].pid)'
  <2>1. m # thread.who /\ mgr[m].running /\ mgr'[m].pid = mgr[m].pid
    BY <1>3, <1>5
  <2>2. PICK q \in Pids : q = mgr[m].pid
    BY <2>1 DEF BridgeInv, RunningHaveChildren
  <2>3. q # p /\ Child(q)
    BY <1>0, <2>1, <2>2 DEF BridgeInv, RunningHaveChildren, MayBeReaped
  <2>4. Child(q)' /\ q = mgr'[m].pid
    BY <2>1, <2>2, <2>3
  <2> QED BY <2>4
<1>6. RunningHaveChildren'
  BY <1>4, <1>5 DEF RunningHaveChildren
<1>7. ASSUME NEW q \in Pids, Child(q)' PROVE \E m \in Managers : mgr'[m].running /\ mgr'[m].pid = q
  <2>1. q # p /\ Child(q)
    BY <1>7
  <2>2. PICK m \in Managers : mgr[m].running /\ mgr[m].pid = q
    BY <2>1 DEF BridgeInv, ChildrenHaveManagers
  <2>3. m # thread.who
    BY <1>0, <2>1, <2>2
  <2> QED BY <1>2, <2>2, <2>3
<1>8. CASE thread.why = "command"
  <2>1. Answer(e) /\ thread.who = Command
    BY <1>8 DEF Ended, BridgeInv, ThreadAtManager
  <2>2. /\ thread' \in {Idle, [Idle EXCEPT !.at = "again"]}
        /\ reply' \in Replies /\ commissioned' \in BOOLEAN /\ ResultStands'
    BY <2>1, AnswerKeeps
  <2>3. thread' \in Threads /\ thread'.at \in {"idle", "again"} /\ thread'.why = "command" /\ thread'.who = Command
    BY <2>2, IdleTyped
  <2>4. BridgeTyped'
    BY <1>1, <2>2, <2>3 DEF BridgeInv, BridgeTyped
  <2>5. ThreadAtManager' /\ RunningAreKnown'
    BY <1>1, <1>3, <2>1, <2>3 DEF BridgeInv, ThreadAtManager, RunningAreKnown
  <2>6. ChildrenHaveManagers'
    BY <1>7, <2>3 DEF ChildrenHaveManagers
  <2> QED BY <1>6, <2>2, <2>4, <2>5, <2>6 DEF BridgeInv
<1>9. CASE thread.why = "tick"
  <2>1. /\ thread' = [thread EXCEPT !.at = "tick", !.ended = @ \cup {thread.who}]
        /\ UNCHANGED <<reply, commissioned>>
    BY <1>9 DEF Ended
  <2>2. thread \in Threads /\ thread.who \in subs /\ subs \subseteq Handles
    BY <1>9 DEF BridgeInv, BridgeTyped, ThreadAtManager
  <2>3. thread' = [at |-> "tick", why |-> thread.why, who |-> thread.who,
                   left |-> thread.left, ended |-> thread.ended \cup {thread.who}]
    BY <2>1, <2>2 DEF Threads
  <2>4. /\ thread.left \subseteq Handles /\ thread.ended \cup {thread.who} \subseteq Handles
        /\ thread.why \in {"command", "tick", "cancel"}
    BY <2>2 DEF Threads
  <2>5. thread' \in Threads
    BY <1>0, <2>3, <2>4 DEF Threads, Places
  <2>6. BridgeTyped'
    BY <1>1, <2>1, <2>5 DEF BridgeInv, BridgeTyped
  <2>7. ThreadAtManager'
    BY <1>9, <2>3 DEF BridgeInv, ThreadAtManager
  <2>8. RunningAreKnown'
    <3>1. Command \notin Handles /\ Command \in Managers /\ Handles \subseteq Managers
      BY BridgeAssumption DEF Command, Handles, Managers
    <3>2. ~mgr'[Command].running
      BY <1>3, <1>9, <3>1 DEF BridgeInv, RunningAreKnown
    <3>3. \A m \in Managers : mgr'[m].running /\ m # Command => m \in subs'
      BY <1>3 DEF BridgeInv, RunningAreKnown
    <3>4. \A s \in thread'.ended : ~mgr'[s].running
      <4>1. \A s \in thread.ended : s \in Managers /\ ~mgr[s].running
        BY <1>9, <2>4, <3>1 DEF BridgeInv, RunningAreKnown
      <4> QED BY <1>1, <1>3, <2>3, <4>1
    <3> QED BY <3>2, <3>3, <3>4 DEF RunningAreKnown
  <2>9. ChildrenHaveManagers'
    BY <1>7, <2>3 DEF ChildrenHaveManagers
  <2>10. ResultStands'
    BY <1>9, <2>1, <2>3 DEF BridgeInv, ResultStands
  <2> QED BY <1>6, <2>6, <2>7, <2>8, <2>9, <2>10 DEF BridgeInv
<1> QED BY <1>8, <1>9 DEF BridgeInv, BridgeTyped, Threads

LEMMA PollEndedKeeps == ASSUME BridgeInv, PollEnded PROVE BridgeInv'
<1>1. table \in [Pids -> Processes] /\ thread \in Threads
  BY DEF BridgeInv, BridgeTyped
<1>2. thread.at = "poll" /\ table[Mine].is = "zombie" /\ table' = Reaped(Mine)
  BY DEF PollEnded
<1>3. PICK p \in Pids : p = Mine /\ thread.why # "cancel"
  BY <1>2, ThreadsManager DEF BridgeInv, ThreadAtManager
<1>4. table' \in [Pids -> Processes] /\ \A q \in Pids : Child(q)' <=> Child(q) /\ q # p
  BY <1>1, <1>2, <1>3, WaitTakesTheZombie
<1>5. PICK e \in Exits : Ended(e)
  BY <1>1, <1>3 DEF PollEnded, Processes
<1>6. Unused \in ProcessManagers /\ ~Unused.running
  BY DEF Unused, ProcessManagers
<1>7. mgr' = [mgr EXCEPT ![thread.who] = Unused] /\ UNCHANGED <<subs, nextSub, kind>>
  BY DEF PollEnded
<1> QED BY <1>2, <1>3, <1>4, <1>5, <1>6, <1>7, ManagerStops

LEMMA LastWaitKeeps == ASSUME BridgeInv, LastWait PROVE BridgeInv'
<1>1. table \in [Pids -> Processes] /\ thread \in Threads
  BY DEF BridgeInv, BridgeTyped
<1>2. /\ thread.at = "last" /\ table[Mine].is # "child"
      /\ table' = IF table[Mine].is = "zombie" THEN Reaped(Mine) ELSE table
      /\ UNCHANGED <<subs, nextSub, kind>>
  BY DEF LastWait
<1>3. PICK p \in Pids : p = Mine
  BY <1>2, ThreadsManager
<1>4. /\ table' \in [Pids -> Processes]
      /\ \A q \in Pids : Child(q)' <=> Child(q) /\ (q = p => table[p].is # "zombie")
  BY <1>1, <1>2, <1>3, WaitTakesTheZombie
<1>5. ~Child(p)'
  <2>1. Child(p) => table[p].is \in {"child", "zombie"}
    BY DEF Child
  <2> QED BY <1>2, <1>3, <1>4, <2>1
<1>6. CASE thread.why = "cancel"
  <2>1. ThreadGoesOn("erase") /\ UNCHANGED <<mgr, reply, commissioned>>
    BY <1>1, <1>6, ThreadMoves DEF LastWait, Places
  <2>2. MayBeReaped(thread.who)'
    BY <2>1 DEF MayBeReaped, ThreadGoesOn
  <2> QED BY <1>2, <1>3, <1>4, <1>5, <1>6, <2>1, <2>2, StopGoesOn
<1>7. CASE thread.why # "cancel"
  <2> DEFINE stopped == [Unused EXCEPT !.pid = Mine]
  <2>1. Unused \in ProcessManagers /\ ~Unused.running
    BY DEF Unused, ProcessManagers
  <2>2. stopped \in ProcessManagers /\ ~stopped.running
    BY <1>3, <2>1 DEF ProcessManagers
  <2>3. PICK says \in BOOLEAN : Ended(TimedOut(says))
    BY <1>7 DEF LastWait
  <2>4. PICK e \in Exits : Ended(e)
    BY <2>3, TimedOutTyped
  <2>5. mgr' = [mgr EXCEPT ![thread.who] = stopped]
    BY <1>7 DEF LastWait
  <2> HIDE DEF stopped
  <2> QED BY <1>2, <1>3, <1>4, <1>5, <1>7, <2>2, <2>4, <2>5, ManagerStops
<1> QED BY <1>6, <1>7

LEMMA PollRunningKeeps == ASSUME BridgeInv, PollRunning PROVE BridgeInv'
<1>1. thread \in Threads /\ thread.at = "poll" /\ thread.why = "tick"
  BY DEF PollRunning, BridgeInv, BridgeTyped
<1>2. ThreadGoesOn("tick")
  BY <1>1, ThreadMoves DEF PollRunning, Places
<1>3. UNCHANGED <<table, mgr, subs, nextSub, commissioned, kind, reply>>
  BY DEF PollRunning
<1>4. BridgeTyped' /\ ThreadAtManager' /\ RunningAreKnown' /\ ResultStands'
  BY <1>1, <1>2, <1>3 DEF ThreadGoesOn, BridgeInv, BridgeTyped, ThreadAtManager, RunningAreKnown, ResultStands
<1>5. RunningHaveChildren' /\ ChildrenHaveManagers'
  BY <1>1, <1>2, <1>3 DEF ThreadGoesOn, BridgeInv, RunningHaveChildren, ChildrenHaveManagers, MayBeReaped, Child
<1> QED BY <1>4, <1>5 DEF BridgeInv

--------------------------------------------------------------------------------
(* The driver's calls.                                                       *)

\* What start() leaves between two calls: a new child with a manager of its own.
LEMMA SpawnKeeps ==
  ASSUME BridgeInv, thread.at \in {"idle", "again"}, thread'.at \notin {"erase", "sigkill", "last"},
         NEW m \in Managers, NEW p \in Pids, Spawn(m, p)
  PROVE  /\ table' \in [Pids -> Processes] /\ mgr' \in [Managers -> ProcessManagers]
         /\ mgr'[m].running /\ \A n \in Managers : n # m => mgr'[n] = mgr[n]
         /\ RunningHaveChildren' /\ ChildrenHaveManagers'
<1> DEFINE started == [pid |-> p, running |-> TRUE, age |-> 0]
<1>1. /\ table \in [Pids -> Processes] /\ mgr \in [Managers -> ProcessManagers]
      /\ table[p].is = "free" /\ ~mgr[m].running
  BY DEF Spawn, BridgeInv, BridgeTyped
<1>2. /\ table' \in [Pids -> Processes]
      /\ \A q \in Pids : Child(q)' <=> q = p \/ Child(q)
  <2>1. table' = [table EXCEPT ![p] = Process("child")]
    BY DEF Spawn
  <2> QED BY <1>1, <2>1, EntrySet
<1>3. started \in ProcessManagers /\ started.running /\ started.pid = p
  BY DEF ProcessManagers
<1>4. mgr' = [mgr EXCEPT ![m] = started]
  BY DEF Spawn
<1> HIDE DEF started
<1>5. mgr' \in [Managers -> ProcessManagers] /\ mgr'[m] = started /\ \A n \in Managers : n # m => mgr'[n] = mgr[n]
  BY <1>1, <1>3, <1>4
<1>6. ~Child(p)
  BY <1>1 DEF Child
<1>7. ASSUME NEW n \in Managers, mgr'[n].running
      PROVE  /\ mgr'[n].pid \in Pids /\ Child(mgr[n].pid)'
             /\ n # m => mgr[n].running /\ mgr'[n].pid = mgr[n].pid /\ mgr[n].pid # p
  <2>1. CASE n = m
    <3>1. mgr'[n].pid = p /\ Child(p)'
      BY <1>2, <1>3, <1>5, <2>1
    <3> QED BY <2>1, <3>1
  <2>2. CASE n # m
    <3>1. mgr'[n] = mgr[n] /\ mgr[n].running
      BY <1>5, <1>7, <2>2
    <3>2. PICK q \in Pids : q = mgr[n].pid /\ Child(q)
      BY <3>1 DEF BridgeInv, RunningHaveChildren, MayBeReaped
    <3>3. Child(q)' /\ q # p /\ q = mgr'[n].pid
      BY <1>2, <1>6, <3>1, <3>2
    <3> QED BY <3>1, <3>2, <3>3
  <2> QED BY <2>1, <2>2
<1>8. ASSUME NEW n \in Managers, NEW k \in Managers, mgr'[n].running, mgr'[k].running, mgr'[n].pid = mgr'[k].pid
      PROVE  n = k
  <2>1. mgr'[m].pid = p
    BY <1>3, <1>5
  <2>2. \A j \in Managers : mgr'[j].running /\ j # m =>
          mgr[j].running /\ mgr'[j].pid = mgr[j].pid /\ mgr[j].pid # p
    BY <1>7
  <2>3. mgr[n].running /\ mgr[k].running /\ mgr[n].pid = mgr[k].pid => n = k
    BY DEF BridgeInv, RunningHaveChildren
  <2> QED BY <1>8, <2>1, <2>2, <2>3
<1>9. ASSUME NEW q \in Pids, Child(q)' PROVE \E n \in Managers : mgr'[n].running /\ mgr'[n].pid = q
  <2>1. CASE q = p
    BY <1>3, <1>5, <2>1
  <2>2. CASE q # p
    <3>1. PICK n \in Managers : mgr[n].running /\ mgr[n].pid = q
      BY <1>2, <1>9, <2>2 DEF BridgeInv, ChildrenHaveManagers
    <3>2. n # m
      BY <1>1, <3>1
    <3> QED BY <1>5, <3>1, <3>2
  <2> QED BY <2>1, <2>2
<1>10. RunningHaveChildren'
  BY <1>7, <1>8 DEF RunningHaveChildren
<1>11. ChildrenHaveManagers'
  BY <1>9 DEF ChildrenHaveManagers
<1> QED BY <1>2, <1>3, <1>5, <1>10, <1>11

\* A command is refused, fails to start, or is polled.
LEMMA BeginKeeps == ASSUME BridgeInv, NEW k \in Kinds, Begin(k) PROVE BridgeInv'
<1>1. /\ thread \in Threads /\ thread.at \in {"idle", "again"} /\ thread.why = "command" /\ thread.who = Command
      /\ Command \in Managers /\ ~mgr[Command].running /\ table \in [Pids -> Processes]
  BY BridgeAssumption DEF Begin, BridgeInv, BridgeTyped, ThreadAtManager, RunningAreKnown, Command, Managers
<1>2. kind' = k /\ UNCHANGED <<subs, nextSub, commissioned>>
  BY DEF Begin
<1>3. CASE mgr' = mgr
  <2>1. thread' = Idle /\ reply' = NoReply
    BY <1>3 DEF Begin
  <2>2. UNCHANGED table
    <3>1. \A p \in Pids : ~Spawn(Command, p)
      <4>1. SUFFICES ASSUME NEW p \in Pids, Spawn(Command, p) PROVE FALSE
        OBVIOUS
      <4>2. mgr'[Command].running
        BY <1>1, <4>1 DEF Spawn, BridgeInv, BridgeTyped
      <4> QED BY <1>1, <1>3, <4>2
    <3> QED BY <3>1 DEF Begin
  <2>3. thread' \in Threads /\ thread'.at = "idle" /\ thread'.why = "command" /\ thread'.who = Command
    BY <2>1, IdleTyped
  <2>4. reply' \in Replies /\ ~reply'.ok /\ ~reply'.told
    BY <2>1 DEF Replies, NoReply
  <2>5. BridgeTyped' /\ ThreadAtManager' /\ RunningAreKnown' /\ ResultStands'
    BY <1>1, <1>2, <1>3, <2>2, <2>3, <2>4 DEF BridgeInv, BridgeTyped, ThreadAtManager, RunningAreKnown, ResultStands
  <2>6. RunningHaveChildren' /\ ChildrenHaveManagers'
    BY <1>1, <1>3, <2>2, <2>3 DEF BridgeInv, RunningHaveChildren, ChildrenHaveManagers, MayBeReaped, Child
  <2> QED BY <2>5, <2>6 DEF BridgeInv
<1>4. CASE mgr' # mgr
  <2>1. thread' = [Idle EXCEPT !.at = "poll"] /\ reply' = NoReply /\ NoReply \in Replies
    BY <1>4 DEF Begin, NoReply, Replies
  <2>2. PICK p \in Pids : Spawn(Command, p)
    BY <1>4 DEF Begin
  <2>3. /\ thread' \in Threads /\ thread'.at = "poll" /\ thread'.why = "command" /\ thread'.who = Command
    BY <1>1, <2>1 DEF Idle, Threads, Places
  <2>4. /\ table' \in [Pids -> Processes] /\ mgr' \in [Managers -> ProcessManagers]
        /\ mgr'[Command].running /\ \A n \in Managers : n # Command => mgr'[n] = mgr[n]
        /\ RunningHaveChildren' /\ ChildrenHaveManagers'
    BY <1>1, <2>2, <2>3, SpawnKeeps
  <2>5. BridgeTyped' /\ ThreadAtManager' /\ RunningAreKnown' /\ ResultStands'
    BY <1>2, <2>1, <2>3, <2>4 DEF BridgeInv, BridgeTyped, ThreadAtManager, RunningAreKnown, ResultStands
  <2> QED BY <2>4, <2>5 DEF BridgeInv
<1> QED BY <1>3, <1>4

LEMMA SubscribeKeeps == ASSUME BridgeInv, Subscribe PROVE BridgeInv'
<1>1. /\ thread.at = "idle" /\ thread.why = "command" /\ nextSub \in Handles /\ nextSub # Command
      /\ nextSub \in Managers /\ Command \in Managers /\ nextSub' = nextSub + 1
      /\ UNCHANGED <<commissioned, thread, kind, reply>>
  BY BridgeAssumption DEF Subscribe, MaySubscribe, BridgeInv, BridgeTyped, ThreadAtManager, Command, Managers, Handles
<1>2. nextSub' \in 1 .. MaxSubs + 1
  BY <1>1, BridgeAssumption DEF Handles
<1>3. CASE UNCHANGED <<table, mgr, subs>>
  BY <1>1, <1>2, <1>3 DEF BridgeInv, BridgeTyped, ThreadAtManager, RunningAreKnown, RunningHaveChildren,
                          ChildrenHaveManagers, ResultStands, MayBeReaped, Child, Mine
<1>4. ASSUME NEW p \in Pids, Spawn(nextSub, p), subs' = subs \cup {nextSub} PROVE BridgeInv'
  <2>1. /\ table' \in [Pids -> Processes] /\ mgr' \in [Managers -> ProcessManagers]
        /\ mgr'[nextSub].running /\ \A n \in Managers : n # nextSub => mgr'[n] = mgr[n]
        /\ RunningHaveChildren' /\ ChildrenHaveManagers'
    BY <1>1, <1>4, SpawnKeeps
  <2>2. BridgeTyped'
    BY <1>1, <1>2, <1>4, <2>1 DEF BridgeInv, BridgeTyped
  <2>3. ThreadAtManager' /\ RunningAreKnown' /\ ResultStands'
    BY <1>1, <1>4, <2>1 DEF BridgeInv, ThreadAtManager, RunningAreKnown, ResultStands
  <2> QED BY <2>1, <2>2, <2>3 DEF BridgeInv
<1> QED BY <1>3, <1>4 DEF Subscribe

LEMMA CancelKeeps == ASSUME BridgeInv, NEW s \in Handles, Cancel(s) PROVE BridgeInv'
<1>1. /\ thread.at = "idle" /\ s \in subs /\ s \in Managers /\ s # Command /\ mgr[s].running \in BOOLEAN
      /\ UNCHANGED <<table, mgr, subs, nextSub, commissioned, kind, reply>>
  BY BridgeAssumption DEF Cancel, BridgeInv, BridgeTyped, Command, Managers, Handles, ProcessManagers
<1>2. thread' = [at |-> IF mgr[s].running THEN "grace" ELSE "erase", why |-> "cancel", who |-> s,
                 left |-> {}, ended |-> {}]
  BY DEF Cancel, Idle
<1>3. thread' \in Threads /\ thread'.why = "cancel" /\ thread'.who = s
  BY <1>1, <1>2 DEF Threads, Places
<1>4. thread'.at = IF mgr[s].running THEN "grace" ELSE "erase"
  BY <1>2
<1>5. BridgeTyped' /\ ThreadAtManager' /\ ResultStands'
  BY <1>1, <1>3, <1>4 DEF BridgeInv, BridgeTyped, ThreadAtManager, ResultStands
<1>6. RunningAreKnown' /\ RunningHaveChildren' /\ ChildrenHaveManagers'
  BY <1>1, <1>3, <1>4 DEF BridgeInv, RunningAreKnown, RunningHaveChildren, ChildrenHaveManagers, MayBeReaped, Child
<1> QED BY <1>5, <1>6 DEF BridgeInv

LEMMA TickKeeps == ASSUME BridgeInv, Tick PROVE BridgeInv'
<1>1. thread.at = "idle" /\ subs \subseteq Handles /\ UNCHANGED <<table, mgr, subs, nextSub, commissioned, kind, reply>>
  BY DEF Tick, BridgeInv, BridgeTyped
<1>2. thread' = [at |-> "tick", why |-> "tick", who |-> Command, left |-> subs, ended |-> {}]
  BY DEF Tick, Idle
<1>3. thread' \in Threads
  BY <1>1, <1>2, BridgeAssumption DEF Threads, Places, Managers, Command
<1>4. thread'.at = "tick" /\ thread'.why = "tick" /\ thread'.left = subs /\ thread'.ended = {}
  BY <1>2
<1>5. BridgeTyped' /\ ThreadAtManager' /\ ResultStands'
  BY <1>1, <1>3, <1>4 DEF BridgeInv, BridgeTyped, ThreadAtManager, ResultStands
<1>6. RunningAreKnown' /\ RunningHaveChildren' /\ ChildrenHaveManagers'
  BY <1>1, <1>3, <1>4 DEF BridgeInv, RunningAreKnown, RunningHaveChildren, ChildrenHaveManagers, MayBeReaped, Child,
                          ThreadAtManager
<1> QED BY <1>5, <1>6 DEF BridgeInv

\* A nonempty set of handles has a first one.
LEMMA FirstHandle ==
  ASSUME NEW S \in SUBSET Handles, S # {}
  PROVE  (CHOOSE x \in S : \A y \in S : x <= y) \in S
<1>1. S \in SUBSET Nat
  BY BridgeAssumption DEF Handles
<1>2. PICK x \in S : \A y \in S : ~ (<<y, x>> \in OpToRel(<, Nat))
  BY <1>1, WFMin, NatLessThanWellFounded, Zenon
<1>3. ASSUME NEW y \in S PROVE x <= y
  <2>1. x \in Nat /\ y \in Nat
    BY <1>1
  <2>2. ~(y < x)
    BY <1>2, <2>1 DEF OpToRel
  <2> QED BY <2>1, <2>2
<1> QED BY <1>3

LEMMA TickNextKeeps == ASSUME BridgeInv, TickNext PROVE BridgeInv'
<1> DEFINE s == CHOOSE x \in thread.left : \A y \in thread.left : x <= y
<1>1. /\ thread \in Threads /\ thread.at = "tick" /\ thread.why = "tick" /\ thread.left \subseteq subs
      /\ thread.left \subseteq Handles /\ thread.ended \subseteq Handles /\ thread.left # {}
      /\ UNCHANGED <<table, mgr, subs, nextSub, commissioned, kind, reply>>
  BY DEF TickNext, BridgeInv, BridgeTyped, ThreadAtManager, Threads
<1>2. s \in thread.left
  BY <1>1, FirstHandle
<1>3. thread' = [thread EXCEPT !.at = IF mgr[s].running THEN "poll" ELSE "tick", !.who = s, !.left = @ \ {s}]
  BY DEF TickNext
<1> HIDE DEF s
<1>4. thread' = [at |-> IF mgr[s].running THEN "poll" ELSE "tick", why |-> "tick", who |-> s,
                 left |-> thread.left \ {s}, ended |-> thread.ended]
  BY <1>1, <1>3 DEF Threads
<1>5. s \in subs /\ s \in Handles /\ s \in Managers /\ s # Command
  BY <1>1, <1>2, BridgeAssumption DEF Handles, Managers, Command
<1>6. thread' \in Threads
  BY <1>1, <1>4, <1>5 DEF Threads, Places
<1>7. /\ thread'.at = IF mgr[s].running THEN "poll" ELSE "tick"
      /\ thread'.why = "tick" /\ thread'.who = s /\ thread'.left \subseteq subs /\ thread'.ended = thread.ended
  BY <1>1, <1>4
<1>8. BridgeTyped' /\ ThreadAtManager' /\ ResultStands'
  BY <1>1, <1>5, <1>6, <1>7 DEF BridgeInv, BridgeTyped, ThreadAtManager, ResultStands
<1>9. RunningAreKnown' /\ RunningHaveChildren' /\ ChildrenHaveManagers'
  BY <1>1, <1>7 DEF BridgeInv, RunningAreKnown, RunningHaveChildren, ChildrenHaveManagers, MayBeReaped, Child
<1> QED BY <1>8, <1>9 DEF BridgeInv

\* What is erased has no process left.
LEMMA EraseKeeps == ASSUME BridgeInv, Erase PROVE BridgeInv'
<1> DEFINE gone == IF thread.at = "erase" THEN {thread.who} ELSE thread.ended
<1>1. /\ thread \in Threads /\ mgr \in [Managers -> ProcessManagers]
      /\ thread' = Idle /\ UNCHANGED <<table, nextSub, commissioned, kind, reply>>
      /\ subs' = subs \ gone /\ mgr' = [m \in Managers |-> IF m \in gone THEN Unused ELSE mgr[m]]
  BY DEF Erase, BridgeInv, BridgeTyped
<1>2. /\ thread.at = "erase" \/ thread.at = "tick"
      /\ thread.why # "command" /\ (thread.at = "tick" => thread.why = "tick")
      /\ thread.who \in Managers
  BY DEF Erase, BridgeInv, BridgeTyped, ThreadAtManager, Threads
<1>3. \A m \in gone : m \in Managers /\ (mgr[m].running => ~Child(mgr[m].pid))
  <2>1. CASE thread.at = "erase"
    BY <1>2, <2>1 DEF BridgeInv, ChildrenHaveManagers, Mine
  <2>2. CASE thread.at = "tick"
    <3>1. thread.ended \subseteq Managers
      BY <1>1, BridgeAssumption DEF Threads, Handles, Managers
    <3> QED BY <1>2, <2>2, <3>1 DEF BridgeInv, RunningAreKnown
  <2> QED BY <1>2, <2>1, <2>2
<1>4. thread.at = "erase" => thread.who \in gone
  OBVIOUS
<1> HIDE DEF gone
<1>5. Unused \in ProcessManagers /\ ~Unused.running
  BY DEF Unused, ProcessManagers
<1>6. mgr' \in [Managers -> ProcessManagers]
  BY <1>1, <1>5
<1>7. \A m \in Managers : mgr'[m].running <=> mgr[m].running /\ m \notin gone
  BY <1>1, <1>5
<1>8. \A m \in Managers : m \notin gone => mgr'[m] = mgr[m]
  BY <1>1
<1>9. thread' \in Threads /\ thread'.at = "idle" /\ thread'.why = "command" /\ thread'.who = Command
  BY <1>1, IdleTyped
<1>10. BridgeTyped' /\ ThreadAtManager' /\ ResultStands'
  BY <1>1, <1>2, <1>6, <1>9 DEF BridgeInv, BridgeTyped, ThreadAtManager, ResultStands
<1>11. RunningAreKnown'
  <2>1. Command \in Managers /\ ~mgr[Command].running
    BY <1>2, BridgeAssumption DEF BridgeInv, RunningAreKnown, Command, Managers
  <2> QED BY <1>1, <1>7, <1>9, <2>1 DEF BridgeInv, RunningAreKnown
<1>12. ASSUME NEW m \in Managers, mgr'[m].running
       PROVE  mgr[m].running /\ mgr'[m].pid = mgr[m].pid /\ mgr'[m].pid \in Pids /\ Child(mgr[m].pid)'
  <2>1. m \notin gone /\ mgr[m].running /\ mgr'[m] = mgr[m]
    BY <1>7, <1>8, <1>12
  <2>2. ~MayBeReaped(m)
    BY <1>2, <1>4, <2>1 DEF MayBeReaped
  <2>3. PICK q \in Pids : q = mgr[m].pid /\ Child(q)
    BY <2>1, <2>2 DEF BridgeInv, RunningHaveChildren
  <2>4. Child(q)' /\ q = mgr'[m].pid
    BY <1>1, <2>1, <2>3 DEF Child
  <2> QED BY <2>1, <2>4
<1>13. RunningHaveChildren'
  <2>1. \A m, n \in Managers : mgr'[m].running /\ mgr'[n].running /\ mgr'[m].pid = mgr'[n].pid => m = n
    BY <1>12 DEF BridgeInv, RunningHaveChildren
  <2> QED BY <1>12, <2>1 DEF RunningHaveChildren
<1>14. ASSUME NEW p \in Pids, Child(p)' PROVE \E m \in Managers : mgr'[m].running /\ mgr'[m].pid = p
  <2>1. Child(p)
    BY <1>1, <1>14 DEF Child
  <2>2. PICK m \in Managers : mgr[m].running /\ mgr[m].pid = p
    BY <2>1 DEF BridgeInv, ChildrenHaveManagers
  <2>3. m \notin gone
    BY <1>3, <2>1, <2>2
  <2> QED BY <1>7, <1>8, <2>2, <2>3
<1>15. ChildrenHaveManagers'
  BY <1>9, <1>14 DEF ChildrenHaveManagers
<1> QED BY <1>10, <1>11, <1>13, <1>15 DEF BridgeInv

--------------------------------------------------------------------------------
LEMMA BridgeSteps == BridgeInv /\ [BridgeNext]_bridgeVars => BridgeInv'
<1> SUFFICES ASSUME BridgeInv, [BridgeNext]_bridgeVars PROVE BridgeInv'
  OBVIOUS
<1>1. CASE \E p \in Pids : ChildEnds(p) \/ Others(p)
  BY <1>1, ChildEndsKeeps, OthersKeep
<1>2. CASE Elapse
  BY <1>2, ElapseKeeps
<1>3. CASE Works
  <2>1. "help" \in Kinds
    BY DEF Kinds
  <2> QED BY <1>3, <2>1, PollEndedKeeps, PollRunningKeeps, PollTimeoutKeeps, GraceEndsKeeps, KillKeeps,
             LastWaitKeeps, TickNextKeeps, EraseKeeps, BeginKeeps DEF Works
<1>4. CASE \E k \in Kinds \ {"help"} : Begin(k)
  BY <1>4, BeginKeeps
<1>5. CASE Subscribe \/ Tick \/ \E s \in 1 .. MaxSubs : Cancel(s)
  BY <1>5, SubscribeKeeps, TickKeeps, CancelKeeps DEF Handles
<1>6. CASE UNCHANGED bridgeVars
  BY <1>6 DEF bridgeVars, BridgeInv, BridgeTyped, ThreadAtManager, RunningAreKnown, RunningHaveChildren,
              ChildrenHaveManagers, ResultStands, MayBeReaped, Child, Mine
<1> QED BY <1>1, <1>2, <1>3, <1>4, <1>5, <1>6 DEF BridgeNext

\* The variables keep their types, the thread its place in the code, and children
\* and managers belong together between any two system calls.
THEOREM BridgeInvariant == BridgeSpec => []BridgeInv
BY BridgeStarts, BridgeSteps, PTL DEF BridgeSpec

\* However commands, subscriptions, cancellations and ticks follow each other, and
\* whichever children hang, ignore SIGTERM or die: between calls every child is the
\* process of a handle in subscriptions_.
THEOREM NoneIsLeftBehind == BridgeSpec => []NoneLeftBehind
<1>1. BridgeInv => NoneLeftBehind
  <2> SUFFICES ASSUME BridgeInv, thread.at = "idle", NEW p \in Pids, Child(p)
               PROVE  \E s \in subs : mgr[s].running /\ mgr[s].pid = p
    BY DEF NoneLeftBehind
  <2>1. PICK m \in Managers : mgr[m].running /\ mgr[m].pid = p
    BY DEF BridgeInv, ChildrenHaveManagers
  <2>2. m \in subs
    BY <2>1 DEF BridgeInv, RunningAreKnown
  <2> QED BY <2>1, <2>2
<1> QED BY <1>1, BridgeInvariant, PTL

\* No result that the driver reports as a success is of a command that the device
\* did not carry out, nor is one that a HardwareNode reports so, except those of
\* invokeCommand().
THEOREM SuccessesAreReal == BridgeSpec => []SuccessIsReal
<1>1. BridgeInv => SuccessIsReal
  BY DEF BridgeInv, ResultStands, SuccessIsReal
<1> QED BY <1>1, BridgeInvariant, PTL

\* kill() of a subscription never sends SIGKILL to a process id that it has given
\* back.
THEOREM CancelHitsOnlyItsChild == BridgeSpec => []CancelHitsItsChild
<1>1. BridgeInv => CancelHitsItsChild
  <2> SUFFICES ASSUME BridgeInv, thread.at = "sigkill", thread.why = "cancel" PROVE Child(Mine)
    BY DEF CancelHitsItsChild
  <2> QED BY ThreadsManager DEF MayBeReaped
<1> QED BY <1>1, BridgeInvariant, PTL
================================================================================
