----------------------------- MODULE BorderRouter -----------------------------
(***************************************************************************)
(* The border router's tables, and who feeds them: the SRP server's leases *)
(* (src/src/thread/SRP.cpp), the DNS-SD ServiceRegistry they are published *)
(* in (src/src/net/Discovery.cpp), the SRP clients of the devices, and the *)
(* proxy table of controllers' sessions (src/src/thread/BorderRouter.cpp). *)
(*                                                                         *)
(* A device has one service, registered through its SRPClient, so that the *)
(* record it hands over carries the present time.  Two clocks run on its   *)
(* registration: the lease, two hours, and the time to live of the         *)
(* published record, two minutes; the client renews once a minute.  Ages   *)
(* are kept, exact up to one more than the limit they are compared with.   *)
(* The handlers are a library's: no program of the repository calls them   *)
(* on a schedule, and no fairness is assumed of them.                      *)
(***************************************************************************)
EXTENDS Integers, Sequences, FiniteSets

CONSTANTS
  Devices, Controllers,
  Rlocs,        \* addresses: those of a router's children and its own
  RouterOf,     \* getRouterId(): the router of an address
  LeaseTime,    \* SRPLease::lease_duration
  Ttl,          \* ServiceRecord::ttl
  RenewAfter,   \* SRPClient::renewal_interval_
  IdleTime,     \* ProxyEntry::idle_timeout
  MaxEntries,   \* BorderRouterProxy's max_entries
  MaxEvents     \* bound: moves, boots, faults and proxy operations

ASSUME BorderRouterAssumption ==
  /\ LeaseTime \in Nat /\ Ttl \in Nat /\ RenewAfter \in Nat /\ IdleTime \in Nat
  /\ MaxEntries \in Nat /\ MaxEvents \in Nat

\* The order of the code's 60 s and 120 s: ages of clients are exact up to Ttl.
ASSUME RenewalAssumption == RenewAfter <= Ttl

VARIABLES
  lease,    \* SRPServer::leases_, per device: [held, rloc, age, forced]
  record,   \* ServiceRegistry::records_, per device: [listed, rloc, age]
  client,   \* SRPClient, per device: [registered, rloc, changed, age]
  due,      \* clients that have not looked at their renewal in this unit
  proxy,    \* BorderRouterProxy::entries_: [ctl, dev, rloc, age, active]
  cut,      \* routers the border router has no route to
  events    \* events so far

vars == <<lease, record, client, due, proxy, cut, events>>

NoLease == [held |-> FALSE, rloc |-> CHOOSE a \in Rlocs : TRUE, age |-> 0, forced |-> FALSE]
NoRecord == [listed |-> FALSE, rloc |-> CHOOSE a \in Rlocs : TRUE, age |-> 0]

\* A lease and a record as they are made; an entry of the proxy table.
Registered(a) == [held |-> TRUE, rloc |-> a, age |-> 0, forced |-> FALSE]
Published(a) == [listed |-> TRUE, rloc |-> a, age |-> 0]
Entry(c, d, a) == [ctl |-> c, dev |-> d, rloc |-> a, age |-> 0, active |-> TRUE]

Routers == {RouterOf[a] : a \in Rlocs}
Older(age, limit) == IF age > limit THEN age ELSE age + 1
Event == events < MaxEvents /\ events' = events + 1

--------------------------------------------------------------------------------
BorderInit ==
  /\ lease = [d \in Devices |-> NoLease] /\ record = [d \in Devices |-> NoRecord]
  /\ client \in [Devices -> {[registered |-> FALSE, rloc |-> a, changed |-> FALSE, age |-> 0] : a \in Rlocs}]
  /\ due = {} /\ proxy = <<>> /\ cut = {} /\ events = 0

(* The SRP clients.                                                          *)

\* registerWithServer(), when a device boots: the server creates the lease or
\* refreshes it, and publishes the record.
Boot(d, a) ==
  /\ Event
  /\ client' = [client EXCEPT ![d] = [registered |-> TRUE, rloc |-> a, changed |-> FALSE, age |-> 0]]
  /\ lease' = [lease EXCEPT ![d] = Registered(a)]
  /\ record' = [record EXCEPT ![d] = Published(a)]
  /\ UNCHANGED <<due, proxy, cut>>

\* A re-attached device has a new address: onRLOCChanged().
Move(d, a) ==
  /\ Event /\ a # client[d].rloc
  /\ client' = [client EXCEPT ![d].rloc = a, ![d].changed = TRUE]
  /\ UNCHANGED <<lease, record, due, proxy, cut>>

NeedsRenewal(d) ==
  client[d].registered /\ (client[d].changed \/ client[d].age > RenewAfter)

\* renewLease(): an expired record comes back with it, at the address of the
\* lease.  (Mutant: only the lease is renewed.)
RenewLeaseOnly(d) ==
  /\ lease' = [lease EXCEPT ![d].age = 0, ![d].forced = FALSE]
  /\ UNCHANGED record

RenewLease(d) ==
  /\ lease' = [lease EXCEPT ![d].age = 0, ![d].forced = FALSE]
  /\ record' = [record EXCEPT ![d] = Published(lease[d].rloc)]

\* A client looks once in a unit, unless it sleeps, and renews; without a lease
\* the renewal fails and nothing else is tried.
Poll(d) ==
  /\ d \in due /\ due' = due \ {d}
  /\ IF NeedsRenewal(d) /\ lease[d].held
     THEN RenewLease(d) /\ client' = [client EXCEPT ![d].age = 0]
     ELSE UNCHANGED <<lease, record, client>>
  /\ UNCHANGED <<proxy, cut, events>>

Oversleep(d) ==
  /\ Event /\ d \in due /\ due' = due \ {d}
  /\ UNCHANGED <<lease, record, client, proxy, cut>>

--------------------------------------------------------------------------------
(* The SRP server and the registry.                                          *)

\* removeLeasesForNode(), for a device that is shut down.
RemoveLeases(d) ==
  /\ Event /\ lease[d].held
  /\ lease' = [lease EXCEPT ![d] = NoLease]
  /\ record' = [record EXCEPT ![d] = NoRecord]
  /\ UNCHANGED <<client, due, proxy, cut>>

\* forceExpireLease(): the lease looks expired to the next tick.
ForceExpire(d) ==
  /\ Event /\ lease[d].held
  /\ lease' = [lease EXCEPT ![d].forced = TRUE]
  /\ UNCHANGED <<record, client, due, proxy, cut>>

IsExpired(d) == lease[d].held /\ (lease[d].forced \/ lease[d].age > LeaseTime)

\* SRPServer::tick(): the records of expired leases go with them.
ServerTick ==
  /\ \E d \in Devices : IsExpired(d)
  /\ lease' = [d \in Devices |-> IF IsExpired(d) THEN NoLease ELSE lease[d]]
  /\ record' = [d \in Devices |-> IF IsExpired(d) THEN NoRecord ELSE record[d]]
  /\ UNCHANGED <<client, due, proxy, cut, events>>

ExpireStale ==
  LET stale == {d \in Devices : record[d].listed /\ record[d].age > Ttl}
  IN /\ stale # {}
     /\ record' = [d \in Devices |-> IF d \in stale THEN NoRecord ELSE record[d]]
     /\ UNCHANGED <<lease, client, due, proxy, cut, events>>

--------------------------------------------------------------------------------
(* The proxy table.                                                          *)

Positions(c, d) == {i \in DOMAIN proxy : proxy[i].ctl = c /\ proxy[i].dev = d}

\* addEntry(), at the address its caller believes the device to have: an entry
\* there is is brought up to date, a new one is refused by a full table.
\* (Mutant: a full table makes room by dropping its oldest entry.)
AddEntryInPlaceOfOldest(c, d, a) ==
  /\ Event
  /\ LET entry == Entry(c, d, a)
     IN IF Positions(c, d) # {}
        THEN proxy' = [i \in DOMAIN proxy |-> IF i \in Positions(c, d) THEN entry ELSE proxy[i]]
        ELSE proxy' = Append(IF Len(proxy) >= MaxEntries THEN Tail(proxy) ELSE proxy, entry)
  /\ UNCHANGED <<lease, record, client, due, cut>>

AddEntry(c, d, a) ==
  /\ Event
  /\ LET entry == Entry(c, d, a)
     IN IF Positions(c, d) # {}
        THEN proxy' = [i \in DOMAIN proxy |-> IF i \in Positions(c, d) THEN entry ELSE proxy[i]]
        ELSE proxy' = IF Len(proxy) >= MaxEntries THEN proxy ELSE Append(proxy, entry)
  /\ UNCHANGED <<lease, record, client, due, cut>>

\* removeEntry(), removeDevice(), removeController(), and their repetition.
Removals ==
  {C \X D : C \in {C \in SUBSET Controllers : Cardinality(C) = 1 \/ C = Controllers},
            D \in {D \in SUBSET Devices : Cardinality(D) = 1 \/ D = Devices}}

RemoveEntries(gone) ==
  /\ Event
  /\ proxy' = SelectSeq(proxy, LAMBDA e : <<e.ctl, e.dev>> \notin gone)
  /\ UNCHANGED <<lease, record, client, due, cut>>

Touch(c, d) ==
  /\ Event /\ Positions(c, d) # {}
  /\ proxy' = [i \in DOMAIN proxy |-> IF i \in Positions(c, d) THEN [proxy[i] EXCEPT !.age = 0] ELSE proxy[i]]
  /\ UNCHANGED <<lease, record, client, due, cut>>

ExpireIdle ==
  /\ \E i \in DOMAIN proxy : proxy[i].age > IdleTime
  /\ proxy' = SelectSeq(proxy, LAMBDA e : e.age <= IdleTime)
  /\ UNCHANGED <<lease, record, client, due, cut, events>>

Redirected(d, a) ==
  [i \in DOMAIN proxy |-> IF proxy[i].dev = d THEN [proxy[i] EXCEPT !.rloc = a] ELSE proxy[i]]

\* The border router learns of a device's new address: updateNodeRLOC() at the
\* SRP server and updateDeviceRLOC() at the proxy table.
\* (Mutant: the lease keeps the address it was made with.)
UpdateRecordOnly(d) ==
  /\ Event /\ client[d].changed
  /\ IF lease[d].held
     THEN /\ lease' = [lease EXCEPT ![d].age = 0, ![d].forced = FALSE]
          /\ record' = [record EXCEPT ![d] = Published(client[d].rloc)]
     ELSE UNCHANGED <<lease, record>>
  /\ proxy' = Redirected(d, client[d].rloc)
  /\ UNCHANGED <<client, due, cut>>

UpdateRLOC(d) ==
  /\ Event /\ client[d].changed
  /\ IF lease[d].held
     THEN /\ lease' = [lease EXCEPT ![d] = Registered(client[d].rloc)]
          /\ record' = [record EXCEPT ![d] = Published(client[d].rloc)]
     ELSE UNCHANGED <<lease, record>>
  /\ proxy' = Redirected(d, client[d].rloc)
  /\ UNCHANGED <<client, due, cut>>

\* The mesh routes to some other set of routers, and refreshFromRouting() looks.
Refresh(gone) ==
  /\ Event /\ cut' = gone
  /\ proxy' = [i \in DOMAIN proxy |->
                 [proxy[i] EXCEPT !.active = RouterOf[proxy[i].rloc] \notin gone]]
  /\ UNCHANGED <<lease, record, client, due>>

--------------------------------------------------------------------------------
\* The next unit of time, when every client has looked or slept through it.
Elapse ==
  /\ due = {} /\ due' = Devices
  /\ lease' = [d \in Devices |-> IF lease[d].held THEN [lease[d] EXCEPT !.age = Older(@, LeaseTime)] ELSE lease[d]]
  /\ record' = [d \in Devices |-> IF record[d].listed THEN [record[d] EXCEPT !.age = Older(@, Ttl)] ELSE record[d]]
  /\ client' = [d \in Devices |-> IF client[d].registered THEN [client[d] EXCEPT !.age = Older(@, Ttl)] ELSE client[d]]
  /\ proxy' = [i \in DOMAIN proxy |-> [proxy[i] EXCEPT !.age = Older(@, IdleTime)]]
  /\ UNCHANGED <<cut, events>>

BorderNext ==
  \/ \E d \in Devices :
       \/ Poll(d) \/ Oversleep(d) \/ RemoveLeases(d) \/ ForceExpire(d) \/ UpdateRLOC(d)
       \/ \E a \in Rlocs : Boot(d, a) \/ Move(d, a) \/ \E c \in Controllers : AddEntry(c, d, a)
       \/ \E c \in Controllers : Touch(c, d)
  \/ \E gone \in Removals : RemoveEntries(gone)
  \/ \E gone \in SUBSET Routers : gone # cut /\ Refresh(gone)
  \/ ServerTick \/ ExpireStale \/ ExpireIdle
  \/ Elapse

BorderSpec == BorderInit /\ [][BorderNext]_vars

--------------------------------------------------------------------------------
(***************************************************************************)
(* Properties.                                                             *)
(***************************************************************************)
\* The SRP server publishes nothing without a lease, nor at another address than
\* the lease's: no path of lease and record through boots, renewals, moves,
\* removals and the two expiries leaves one behind.
PublishedIsLeased ==
  \A d \in Devices : record[d].listed => lease[d].held /\ record[d].rloc = lease[d].rloc

\* resolve() and browse() answer with what is listed.
Found(d) == record[d].listed

\* IPV6_AND_DISCOVERY.md: a device is undiscoverable only if it fails to renew:
\* one that has renewed within the record's time to live is found as long as the
\* server holds its lease, whatever has expired in between.
RenewedAreListed ==
  \A d \in Devices :
    client[d].registered /\ client[d].age <= Ttl /\ lease[d].held => Found(d)

\* A session that is not removed and has been used within the idle time stays in
\* the table: other controllers, a full table, moves of its device and a mesh that
\* is cut do not take it away.
SessionsInUseStay ==
  [][(\E gone \in Removals : RemoveEntries(gone)) \/
     \A c \in Controllers, d \in Devices :
       (\E i \in Positions(c, d) : proxy[i].age <= IdleTime) => Positions(c, d)' # {}]_vars
================================================================================
