-------------------------- MODULE BorderRouter_proofs --------------------------
(***************************************************************************)
(* Theorems about module BorderRouter, for any devices, addresses and      *)
(* durations: the lease of a device and its published record, which expire *)
(* by clocks of their own, tell the same story.                            *)
(***************************************************************************)
EXTENDS BorderRouter, TLAPS

\* The address in a lease or record that is not there.
NoRloc == NoLease.rloc

Leases == [held : BOOLEAN, rloc : Rlocs \cup {NoRloc}, age : 0 .. LeaseTime + 1, forced : BOOLEAN]
Records == [listed : BOOLEAN, rloc : Rlocs \cup {NoRloc}, age : 0 .. Ttl + 1]
ClientsOf == [registered : BOOLEAN, rloc : Rlocs, changed : BOOLEAN, age : 0 .. Ttl + 1]

LeasesTyped ==
  /\ lease \in [Devices -> Leases]
  /\ record \in [Devices -> Records]
  /\ client \in [Devices -> ClientsOf]

\* What is published was published by a client, at the address of its lease, and
\* is no older than the last success of that client; and while client and lease
\* are fresh it is there.
Agree(l, r, c) ==
  /\ r.listed => /\ l.held /\ r.rloc = l.rloc
                 /\ c.registered /\ r.age <= c.age
  /\ l.held => c.registered
  /\ c.registered /\ c.age <= Ttl /\ l.held => r.listed

LeaseInv == LeasesTyped /\ \A d \in Devices : Agree(lease[d], record[d], client[d])

--------------------------------------------------------------------------------
(* The records steps write.                                                  *)

LEMMA MadeTyped ==
  ASSUME NEW a \in Rlocs \cup {NoRloc}
  PROVE  Registered(a) \in Leases /\ Published(a) \in Records
BY BorderRouterAssumption DEF Registered, Published, Leases, Records

LEMMA NoneTyped == NoLease \in Leases /\ NoRecord \in Records
<1>1. /\ NoLease = [held |-> FALSE, rloc |-> NoRloc, age |-> 0, forced |-> FALSE]
      /\ NoRecord = [listed |-> FALSE, rloc |-> NoRloc, age |-> 0]
  BY DEF NoLease, NoRecord, NoRloc
<1>2. 0 \in 0 .. LeaseTime + 1 /\ 0 \in 0 .. Ttl + 1
  BY BorderRouterAssumption
<1>3. [held |-> FALSE, rloc |-> NoRloc, age |-> 0, forced |-> FALSE] \in Leases
  BY <1>2 DEF Leases
<1>4. [listed |-> FALSE, rloc |-> NoRloc, age |-> 0] \in Records
  BY <1>2 DEF Records
<1> QED BY <1>1, <1>3, <1>4

\* A lease, or a client, with a new age and flag, or address and flag.
LEMMA LeaseSetTo ==
  ASSUME NEW l \in Leases, NEW age \in 0 .. LeaseTime + 1, NEW f \in BOOLEAN,
         NEW x, x = [l EXCEPT !.age = age, !.forced = f]
  PROVE  x \in Leases /\ x.held = l.held /\ x.rloc = l.rloc
<1>1. x = [held |-> l.held, rloc |-> l.rloc, age |-> age, forced |-> f]
  BY DEF Leases
<1> QED BY <1>1 DEF Leases

LEMMA ClientSetTo ==
  ASSUME NEW c \in ClientsOf, NEW a \in Rlocs, NEW f \in BOOLEAN,
         NEW x, x = [c EXCEPT !.rloc = a, !.changed = f]
  PROVE  x \in ClientsOf /\ x.registered = c.registered /\ x.age = c.age
<1>1. x = [registered |-> c.registered, rloc |-> a, changed |-> f, age |-> c.age]
  BY DEF ClientsOf
<1> QED BY <1>1 DEF ClientsOf

LEMMA LeaseForced ==
  ASSUME NEW l \in Leases, NEW f \in BOOLEAN
  PROVE  LET x == [l EXCEPT !.forced = f]
         IN x \in Leases /\ x.held = l.held /\ x.rloc = l.rloc
<1>1. [l EXCEPT !.forced = f] = [held |-> l.held, rloc |-> l.rloc, age |-> l.age, forced |-> f]
  BY DEF Leases
<1> QED BY <1>1 DEF Leases

LEMMA ClientRenewed ==
  ASSUME NEW c \in ClientsOf, NEW age \in 0 .. Ttl + 1
  PROVE  LET x == [c EXCEPT !.age = age]
         IN x \in ClientsOf /\ x.registered = c.registered /\ x.age = age
<1>1. [c EXCEPT !.age = age] = [registered |-> c.registered, rloc |-> c.rloc, changed |-> c.changed, age |-> age]
  BY DEF ClientsOf
<1> QED BY <1>1 DEF ClientsOf

LEMMA NothingAgrees == ASSUME NEW l, NEW c, ~l.held PROVE Agree(l, NoRecord, c)
BY DEF Agree, NoRecord

LEMMA FreshAgrees ==
  ASSUME NEW l, NEW a, NEW c \in ClientsOf, l.held, l.rloc = a, c.registered
  PROVE  Agree(l, Published(a), c)
BY BorderRouterAssumption DEF Agree, Published, ClientsOf

--------------------------------------------------------------------------------
(* The steps.                                                                *)

LEMMA LeasesStart == BorderInit => LeaseInv
<1> SUFFICES ASSUME BorderInit PROVE LeaseInv
  OBVIOUS
<1>1. lease \in [Devices -> Leases] /\ record \in [Devices -> Records]
  BY NoneTyped DEF BorderInit
<1>2. client \in [Devices -> ClientsOf]
  <2>1. \A a \in Rlocs : [registered |-> FALSE, rloc |-> a, changed |-> FALSE, age |-> 0] \in ClientsOf
    BY BorderRouterAssumption DEF ClientsOf
  <2> QED BY <2>1 DEF BorderInit
<1>3. ASSUME NEW d \in Devices PROVE Agree(lease[d], record[d], client[d])
  <2>1. lease[d] = NoLease /\ record[d] = NoRecord
    BY DEF BorderInit
  <2>2. ~NoLease.held
    BY DEF NoLease
  <2> QED BY <2>1, <2>2, NothingAgrees
<1> QED BY <1>1, <1>2, <1>3 DEF LeaseInv, LeasesTyped

LEMMA BootAgrees ==
  ASSUME LeaseInv, NEW d \in Devices, NEW a \in Rlocs, Boot(d, a)
  PROVE  LeaseInv'
<1> DEFINE c == [registered |-> TRUE, rloc |-> a, changed |-> FALSE, age |-> 0]
<1>1. c \in ClientsOf /\ c.registered
  BY BorderRouterAssumption DEF ClientsOf
<1> HIDE DEF c
<1>2. /\ client' = [client EXCEPT ![d] = c]
      /\ lease' = [lease EXCEPT ![d] = Registered(a)]
      /\ record' = [record EXCEPT ![d] = Published(a)]
  BY DEF Boot, c
<1>3. LeasesTyped'
  BY <1>1, <1>2, MadeTyped DEF LeaseInv, LeasesTyped
<1>4. Agree(Registered(a), Published(a), c)
  BY <1>1, FreshAgrees DEF Registered
<1> QED BY <1>2, <1>3, <1>4 DEF LeaseInv, LeasesTyped

LEMMA MoveAgrees ==
  ASSUME LeaseInv, NEW d \in Devices, NEW a \in Rlocs, Move(d, a)
  PROVE  LeaseInv'
<1> DEFINE c == [client[d] EXCEPT !.rloc = a, !.changed = TRUE]
<1>1. client[d] \in ClientsOf /\ TRUE \in BOOLEAN
  BY DEF LeaseInv, LeasesTyped
<1>2. c \in ClientsOf /\ c.registered = client[d].registered /\ c.age = client[d].age
  BY <1>1, ClientSetTo, Zenon
<1>3. client' = [client EXCEPT ![d] = c] /\ UNCHANGED <<lease, record>>
  BY DEF Move, LeaseInv, LeasesTyped
<1> HIDE DEF c
<1>4. LeasesTyped'
  BY <1>2, <1>3 DEF LeaseInv, LeasesTyped
<1>5. Agree(lease[d], record[d], c)
  BY <1>2 DEF LeaseInv, Agree
<1> QED BY <1>3, <1>4, <1>5 DEF LeaseInv, LeasesTyped

\* A lease that is held gets a new age, at its address or at another, and the
\* record is published again.
LEMMA RefreshedAgree ==
  ASSUME LeaseInv, NEW d \in Devices, lease[d].held,
         NEW l \in Leases, NEW c \in ClientsOf, l.held, c.registered,
         lease' = [lease EXCEPT ![d] = l],
         record' = [record EXCEPT ![d] = Published(l.rloc)],
         client' = [client EXCEPT ![d] = c]
  PROVE  LeaseInv'
<1>1. l.rloc \in Rlocs \cup {NoRloc}
  BY DEF Leases
<1>2. LeasesTyped'
  BY <1>1, MadeTyped DEF LeaseInv, LeasesTyped
<1>3. Agree(l, Published(l.rloc), c)
  BY FreshAgrees
<1> QED BY <1>2, <1>3 DEF LeaseInv, LeasesTyped

LEMMA PollAgrees ==
  ASSUME LeaseInv, NEW d \in Devices, Poll(d)
  PROVE  LeaseInv'
<1>1. CASE NeedsRenewal(d) /\ lease[d].held
  <2> DEFINE l == [lease[d] EXCEPT !.age = 0, !.forced = FALSE]
             c == [client[d] EXCEPT !.age = 0]
  <2>1. lease[d] \in Leases /\ client[d] \in ClientsOf /\ client[d].registered
    BY <1>1 DEF LeaseInv, LeasesTyped, NeedsRenewal
  <2>2. 0 \in 0 .. LeaseTime + 1 /\ 0 \in 0 .. Ttl + 1 /\ FALSE \in BOOLEAN
    BY BorderRouterAssumption
  <2>3. l \in Leases /\ l.held = lease[d].held /\ l.rloc = lease[d].rloc
    <3>1. \A f \in BOOLEAN : \A x : x = [lease[d] EXCEPT !.age = 0, !.forced = f] =>
            x \in Leases /\ x.held = lease[d].held /\ x.rloc = lease[d].rloc
      BY <2>1, <2>2, LeaseSetTo
    <3> QED BY <2>2, <3>1, Zenon
  <2>4. c \in ClientsOf /\ c.registered = client[d].registered
    BY <2>1, <2>2, ClientRenewed, Zenon
  <2>5. /\ lease' = [lease EXCEPT ![d] = l] /\ client' = [client EXCEPT ![d] = c]
        /\ record' = [record EXCEPT ![d] = Published(lease[d].rloc)]
    BY <1>1 DEF Poll, RenewLease, LeaseInv, LeasesTyped
  <2> HIDE DEF l, c
  <2> QED BY <1>1, <2>1, <2>3, <2>4, <2>5, RefreshedAgree
<1>2. CASE ~(NeedsRenewal(d) /\ lease[d].held)
  BY <1>2 DEF Poll, LeaseInv, LeasesTyped
<1> QED BY <1>1, <1>2

LEMMA UpdateAgrees ==
  ASSUME LeaseInv, NEW d \in Devices, UpdateRLOC(d)
  PROVE  LeaseInv'
<1>1. CASE lease[d].held
  <2> DEFINE l == Registered(client[d].rloc)
  <2>1. client[d] \in ClientsOf /\ client[d].rloc \in Rlocs /\ client[d].registered
    BY <1>1 DEF LeaseInv, LeasesTyped, ClientsOf, Agree
  <2>2. l \in Leases /\ l.held /\ l.rloc = client[d].rloc
    BY <2>1, MadeTyped DEF Registered
  <2>3. /\ lease' = [lease EXCEPT ![d] = l]
        /\ record' = [record EXCEPT ![d] = Published(l.rloc)]
    BY <1>1, <2>2 DEF UpdateRLOC
  <2>4. client' = [client EXCEPT ![d] = client[d]]
    BY DEF UpdateRLOC, LeaseInv, LeasesTyped
  <2> HIDE DEF l
  <2> QED BY <1>1, <2>1, <2>2, <2>3, <2>4, RefreshedAgree
<1>2. CASE ~lease[d].held
  BY <1>2 DEF UpdateRLOC, LeaseInv, LeasesTyped
<1> QED BY <1>1, <1>2

LEMMA RemoveLeasesAgrees ==
  ASSUME LeaseInv, NEW d \in Devices, RemoveLeases(d)
  PROVE  LeaseInv'
<1>1. LeasesTyped'
  BY NoneTyped DEF RemoveLeases, LeaseInv, LeasesTyped
<1>2. Agree(NoLease, NoRecord, client[d])
  BY NothingAgrees DEF NoLease
<1> QED BY <1>1, <1>2 DEF RemoveLeases, LeaseInv, LeasesTyped

LEMMA ForceExpireAgrees ==
  ASSUME LeaseInv, NEW d \in Devices, ForceExpire(d)
  PROVE  LeaseInv'
<1> DEFINE l == [lease[d] EXCEPT !.forced = TRUE]
<1>1. lease[d] \in Leases /\ TRUE \in BOOLEAN
  BY DEF LeaseInv, LeasesTyped
<1>2. l \in Leases /\ l.held = lease[d].held /\ l.rloc = lease[d].rloc
  BY <1>1, LeaseForced, Zenon
<1>3. lease' = [lease EXCEPT ![d] = l] /\ UNCHANGED <<record, client>>
  BY DEF ForceExpire, LeaseInv, LeasesTyped
<1> HIDE DEF l
<1>4. LeasesTyped'
  BY <1>2, <1>3 DEF LeaseInv, LeasesTyped
<1>5. Agree(l, record[d], client[d])
  BY <1>2 DEF LeaseInv, Agree
<1> QED BY <1>3, <1>4, <1>5 DEF LeaseInv, LeasesTyped

LEMMA ServerTickAgrees ==
  ASSUME LeaseInv, ServerTick
  PROVE  LeaseInv'
<1>1. LeasesTyped'
  BY NoneTyped DEF ServerTick, LeaseInv, LeasesTyped
<1>2. ASSUME NEW d \in Devices PROVE Agree(lease'[d], record'[d], client'[d])
  <2>1. CASE IsExpired(d)
    <3>1. lease'[d] = NoLease /\ record'[d] = NoRecord /\ ~NoLease.held
      BY <2>1 DEF ServerTick, NoLease
    <3> QED BY <3>1, NothingAgrees
  <2>2. CASE ~IsExpired(d)
    BY <2>2 DEF ServerTick, LeaseInv
  <2> QED BY <2>1, <2>2
<1> QED BY <1>1, <1>2 DEF LeaseInv

\* A record that is stale is older than the time to live, and so is the client's
\* last success: the client is not promised anything any more.
LEMMA ExpireStaleAgrees ==
  ASSUME LeaseInv, ExpireStale
  PROVE  LeaseInv'
<1> DEFINE stale == {d \in Devices : record[d].listed /\ record[d].age > Ttl}
<1>1. record' = [d \in Devices |-> IF d \in stale THEN NoRecord ELSE record[d]]
      /\ UNCHANGED <<lease, client>>
  BY DEF ExpireStale
<1>2. LeasesTyped'
  BY <1>1, NoneTyped DEF LeaseInv, LeasesTyped
<1>3. ASSUME NEW d \in Devices PROVE Agree(lease'[d], record'[d], client'[d])
  <2>1. CASE d \in stale
    <3>1. record'[d] = NoRecord /\ lease'[d] = lease[d] /\ client'[d] = client[d] /\ ~NoRecord.listed
      BY <1>1, <2>1 DEF NoRecord
    <3>2. record[d].age <= client[d].age /\ record[d].age > Ttl
      BY <2>1 DEF LeaseInv, Agree
    <3>3. record[d].age \in Nat /\ client[d].age \in Nat /\ Ttl \in Nat
      BY BorderRouterAssumption DEF LeaseInv, LeasesTyped, Records, ClientsOf
    <3>4. ~(client[d].age <= Ttl)
      BY <3>2, <3>3
    <3> QED BY <3>1, <3>4 DEF LeaseInv, Agree
  <2>2. CASE d \notin stale
    BY <1>1, <2>2 DEF LeaseInv
  <2> QED BY <2>1, <2>2
<1> QED BY <1>2, <1>3 DEF LeaseInv

\* Record and client grow older together.
LEMMA ElapseAgrees ==
  ASSUME LeaseInv, Elapse
  PROVE  LeaseInv'
<1>1. /\ lease' = [d \in Devices |-> IF lease[d].held THEN [lease[d] EXCEPT !.age = Older(@, LeaseTime)] ELSE lease[d]]
      /\ record' = [d \in Devices |-> IF record[d].listed THEN [record[d] EXCEPT !.age = Older(@, Ttl)] ELSE record[d]]
      /\ client' = [d \in Devices |-> IF client[d].registered THEN [client[d] EXCEPT !.age = Older(@, Ttl)] ELSE client[d]]
  BY DEF Elapse
<1>2. \A limit \in Nat : \A a, b \in 0 .. limit + 1 :
        /\ Older(a, limit) \in 0 .. limit + 1
        /\ a <= b => Older(a, limit) <= Older(b, limit)
        /\ Older(a, limit) <= limit => a <= limit
  BY DEF Older
<1>3. ASSUME NEW d \in Devices
      PROVE  /\ lease'[d] \in Leases /\ lease'[d].held = lease[d].held /\ lease'[d].rloc = lease[d].rloc
  <2> DEFINE l == [held |-> lease[d].held, rloc |-> lease[d].rloc,
                   age |-> Older(lease[d].age, LeaseTime), forced |-> lease[d].forced]
  <2>1. lease[d] \in Leases
    BY DEF LeaseInv, LeasesTyped
  <2>2. Older(lease[d].age, LeaseTime) \in 0 .. LeaseTime + 1
    BY <1>2, <2>1, BorderRouterAssumption DEF Leases
  <2>3. l \in Leases /\ l.held = lease[d].held /\ l.rloc = lease[d].rloc
    BY <2>1, <2>2 DEF Leases
  <2>4. [lease[d] EXCEPT !.age = Older(@, LeaseTime)] = l
    BY <2>1 DEF Leases
  <2>5. lease'[d] = IF lease[d].held THEN l ELSE lease[d]
    BY <1>1, <2>4
  <2> HIDE DEF l
  <2> QED BY <2>1, <2>3, <2>5
<1>4. ASSUME NEW d \in Devices
      PROVE  /\ record'[d] \in Records /\ record'[d].listed = record[d].listed
             /\ record'[d].rloc = record[d].rloc
             /\ record[d].listed => record'[d].age = Older(record[d].age, Ttl)
  <2> DEFINE r == [listed |-> record[d].listed, rloc |-> record[d].rloc, age |-> Older(record[d].age, Ttl)]
  <2>1. record[d] \in Records
    BY DEF LeaseInv, LeasesTyped
  <2>2. Older(record[d].age, Ttl) \in 0 .. Ttl + 1
    BY <1>2, <2>1, BorderRouterAssumption DEF Records
  <2>3. /\ r \in Records /\ r.listed = record[d].listed /\ r.rloc = record[d].rloc
        /\ r.age = Older(record[d].age, Ttl)
    BY <2>1, <2>2 DEF Records
  <2>4. [record[d] EXCEPT !.age = Older(@, Ttl)] = r
    BY <2>1 DEF Records
  <2>5. record'[d] = IF record[d].listed THEN r ELSE record[d]
    BY <1>1, <2>4
  <2> HIDE DEF r
  <2> QED BY <2>1, <2>3, <2>5
<1>5. ASSUME NEW d \in Devices
      PROVE  /\ client'[d] \in ClientsOf /\ client'[d].registered = client[d].registered
             /\ client[d].registered => client'[d].age = Older(client[d].age, Ttl)
  <2> DEFINE c == [registered |-> client[d].registered, rloc |-> client[d].rloc,
                   changed |-> client[d].changed, age |-> Older(client[d].age, Ttl)]
  <2>1. client[d] \in ClientsOf
    BY DEF LeaseInv, LeasesTyped
  <2>2. Older(client[d].age, Ttl) \in 0 .. Ttl + 1
    BY <1>2, <2>1, BorderRouterAssumption DEF ClientsOf
  <2>3. /\ c \in ClientsOf /\ c.registered = client[d].registered
        /\ c.age = Older(client[d].age, Ttl)
    BY <2>1, <2>2 DEF ClientsOf
  <2>4. [client[d] EXCEPT !.age = Older(@, Ttl)] = c
    BY <2>1 DEF ClientsOf
  <2>5. client'[d] = IF client[d].registered THEN c ELSE client[d]
    BY <1>1, <2>4
  <2> HIDE DEF c
  <2> QED BY <2>1, <2>3, <2>5
<1>6. LeasesTyped'
  <2>1. /\ lease' = [d \in Devices |-> lease'[d]] /\ record' = [d \in Devices |-> record'[d]]
        /\ client' = [d \in Devices |-> client'[d]]
    BY <1>1
  <2> QED BY <1>3, <1>4, <1>5, <2>1 DEF LeasesTyped
<1>7. ASSUME NEW d \in Devices PROVE Agree(lease'[d], record'[d], client'[d])
  <2>1. Agree(lease[d], record[d], client[d])
    BY DEF LeaseInv
  <2>2. record[d].age \in 0 .. Ttl + 1 /\ client[d].age \in 0 .. Ttl + 1 /\ Ttl \in Nat
    BY BorderRouterAssumption DEF LeaseInv, LeasesTyped, Records, ClientsOf
  <2>3. /\ record[d].age <= client[d].age => Older(record[d].age, Ttl) <= Older(client[d].age, Ttl)
        /\ Older(client[d].age, Ttl) <= Ttl => client[d].age <= Ttl
    BY <1>2, <2>2
  <2> QED BY <1>3, <1>4, <1>5, <2>1, <2>3 DEF Agree
<1> QED BY <1>6, <1>7 DEF LeaseInv

\* The steps that look at the proxy table only.
LEMMA ProxyStepsAgree ==
  ASSUME LeaseInv, UNCHANGED <<lease, record, client>>
  PROVE  LeaseInv'
BY DEF LeaseInv, LeasesTyped

LEMMA LeaseSteps == LeaseInv /\ [BorderNext]_vars => LeaseInv'
<1> SUFFICES ASSUME LeaseInv, [BorderNext]_vars PROVE LeaseInv'
  OBVIOUS
<1>1. ASSUME NEW d \in Devices,
             Poll(d) \/ Oversleep(d) \/ RemoveLeases(d) \/ ForceExpire(d) \/ UpdateRLOC(d)
      PROVE  LeaseInv'
  <2>1. CASE Oversleep(d)
    BY <2>1, ProxyStepsAgree DEF Oversleep
  <2> QED BY <1>1, <2>1, PollAgrees, RemoveLeasesAgrees, ForceExpireAgrees, UpdateAgrees
<1>2. ASSUME NEW d \in Devices,
             \E a \in Rlocs : Boot(d, a) \/ Move(d, a) \/ \E c \in Controllers : AddEntry(c, d, a)
      PROVE  LeaseInv'
  <2>1. CASE \E a \in Rlocs : \E c \in Controllers : AddEntry(c, d, a)
    BY <2>1, ProxyStepsAgree DEF AddEntry
  <2> QED BY <1>2, <2>1, BootAgrees, MoveAgrees
<1>3. ASSUME NEW d \in Devices, \E c \in Controllers : Touch(c, d)
      PROVE  LeaseInv'
  BY <1>3, ProxyStepsAgree DEF Touch
<1>4. CASE \E gone \in Removals : RemoveEntries(gone)
  BY <1>4, ProxyStepsAgree DEF RemoveEntries
<1>5. CASE \E gone \in SUBSET Routers : Refresh(gone)
  BY <1>5, ProxyStepsAgree DEF Refresh
<1>6. CASE ServerTick \/ ExpireStale \/ ExpireIdle \/ Elapse
  <2>1. CASE ExpireIdle
    BY <2>1, ProxyStepsAgree DEF ExpireIdle
  <2> QED BY <1>6, <2>1, ServerTickAgrees, ExpireStaleAgrees, ElapseAgrees
<1>7. CASE UNCHANGED vars
  BY <1>7, ProxyStepsAgree DEF vars
<1> QED BY <1>1, <1>2, <1>3, <1>4, <1>5, <1>6, <1>7 DEF BorderNext

LEMMA LeaseInvariant == BorderSpec => []LeaseInv
BY LeasesStart, LeaseSteps, PTL DEF BorderSpec

\* Leases, records and clients keep their types and ages their bounds.
THEOREM LeaseTypeCorrect == BorderSpec => []LeasesTyped
<1>1. LeaseInv => LeasesTyped
  BY DEF LeaseInv
<1> QED BY <1>1, LeaseInvariant, PTL

\* The registry publishes nothing without a lease, nor at another address than the
\* lease's, whatever expires or moves first.
THEOREM PublishedHasLease == BorderSpec => []PublishedIsLeased
<1>1. LeaseInv => PublishedIsLeased
  BY DEF LeaseInv, Agree, PublishedIsLeased
<1> QED BY <1>1, LeaseInvariant, PTL

\* A device that renews in time can be discovered: its record is never older than
\* its last success.
THEOREM RenewedIsListed == BorderSpec => []RenewedAreListed
<1>1. LeaseInv => RenewedAreListed
  BY DEF LeaseInv, Agree, RenewedAreListed, Found
<1> QED BY <1>1, LeaseInvariant, PTL
================================================================================
