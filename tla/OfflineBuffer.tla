----------------------------- MODULE OfflineBuffer -----------------------------
(***************************************************************************)
(* The fleet gateway's event buffer, src/src/gateway/OfflineBuffer.cpp,    *)
(* and the consumers that page through it with GET /api/events?since= and  *)
(* GET /api/vans/{van_id}/events?since= (GatewayServer.cpp).               *)
(*                                                                         *)
(* The code keeps one deque per van.  Ids are handed out in push order, so *)
(* a deque is the set of its events, its front the event of the least id.  *)
(* Both `while' loops that enforce a limit pop at most once, because only  *)
(* push() adds and it adds one event: WithinLimits, which holds after every*)
(* step, is what makes a second turn impossible.                           *)
(***************************************************************************)
EXTENDS Integers, FiniteSets

CONSTANTS
  VanIds,    \* van ids
  Fleet,     \* the consumer of the fleet-wide stream
  PerVan,    \* max_per_van_ (10,000)
  MaxTotal,  \* max_total_   (100,000)
  MaxAge,    \* the age evict() is called with
  Lead,      \* bound: how far ahead of the clock a caller stamps an event
  MaxEvents  \* bound: events pushed in one life of the gateway

ASSUME LimitsAssumption ==
  /\ PerVan \in Nat
  /\ MaxTotal \in Nat
  /\ MaxAge \in Nat
  /\ Lead \in Nat
  /\ MaxEvents \in Nat

ASSUME FleetAssumption == Fleet \notin VanIds

VARIABLES
  events,  \* buffers_: the events of every deque
  next,    \* next_sequence_id_
  total,   \* total_count_, a counter kept beside the deques
  cursor,  \* per consumer, the `since' of its next request
  seen     \* history: per consumer, the ids it was given

bufferVars == <<events, next, total, cursor, seen>>

\* The consumer of one van's events is named after the van.
Readers == VanIds \cup {Fleet}

\* The distance of an event's stamp to the clock, told apart up to the first one
\* that evict() removes; below 0 the stamp is ahead of the clock.
Ages == -Lead .. MaxAge + 1

Event == [seq : Nat, van : VanIds, age : Ages]

Of(v, set) == {e \in set : e.van = v}

\* The front of the deque, or of the deque with the oldest front.
Oldest(set) == {e \in set : \A f \in set : e.seq <= f.seq}

--------------------------------------------------------------------------------
BufferInit ==
  /\ events = {}
  /\ next = 1
  /\ total = 0
  /\ cursor = [c \in Readers |-> 0]
  /\ seen = [c \in Readers |-> {}]

\* enforcePerVanLimit and enforceTotalLimit: what push() drops after adding.
OverVan(v, set) ==
  IF Cardinality(Of(v, set)) > PerVan THEN Oldest(Of(v, set)) ELSE {}

\* (Mutant: the total limit takes from the van that pushed.)
OverTotalOwn(v, set, count) == IF count > MaxTotal THEN Oldest(Of(v, set)) ELSE {}
\* (With no front left to take, Oldest is empty: the loop's other way out.)
OverTotal(v, set, count) == IF count > MaxTotal THEN Oldest(set) ELSE {}

\* push(): an event with the caller's stamp, which nobody compares with those
\* before it, is appended, then both limits are enforced.
Push(v, age) ==
  LET added == events \cup {[seq |-> next, van |-> v, age |-> age]}
      kept == added \ OverVan(v, added)
      count == total + 1 - Cardinality(OverVan(v, added))
      dropped == OverTotal(v, kept, count)
  IN /\ next <= MaxEvents
     /\ next' = next + 1
     /\ events' = kept \ dropped
     /\ total' = count - Cardinality(dropped)
     /\ UNCHANGED <<cursor, seen>>

--------------------------------------------------------------------------------
\* drain() and drainAll(): what a request with this `since' is answered.
Batch(c, since) ==
  {e \in events : e.seq > since /\ (c = Fleet \/ e.van = c)}

\* drainAll() sorts by id, so the last event of an answer has the greatest.
LastOf(batch) ==
  CHOOSE s \in {e.seq : e \in batch} : \A e \in batch : e.seq <= s

\* handleVanEvents and handleFleetEvents, by a consumer that asks next time
\* for what follows the last event of the answer.
Fetch(c) ==
  LET batch == Batch(c, cursor[c])
  IN /\ batch # {}
     /\ cursor' = [cursor EXCEPT ![c] = LastOf(batch)]
     /\ seen' = [seen EXCEPT ![c] = @ \cup {e.seq : e \in batch}]
     /\ UNCHANGED <<events, next, total>>

--------------------------------------------------------------------------------
\* clear() and clearAll(): ids go on from where they are.
Clear(v) ==
  /\ Of(v, events) # {}
  /\ total' = total - Cardinality(Of(v, events))
  /\ events' = events \ Of(v, events)
  /\ UNCHANGED <<next, cursor, seen>>

\* (Mutant: ids start again with the emptied buffer.)
ClearAllFromOne ==
  /\ events' = {}
  /\ total' = 0
  /\ next' = 1
  /\ UNCHANGED <<cursor, seen>>

ClearAll ==
  /\ events' = {}
  /\ total' = 0
  /\ UNCHANGED <<next, cursor, seen>>

\* evict(): each deque loses the events at its front that are too old.
Expired(set) ==
  {e \in set : \A f \in Of(e.van, set) : f.seq <= e.seq => f.age > MaxAge}

Evict ==
  /\ events' = events \ Expired(events)
  /\ total' = total - Cardinality(Expired(events))
  /\ UNCHANGED <<next, cursor, seen>>

--------------------------------------------------------------------------------
\* The environment: time.  The buffer lives as long as the gateway's process.
Older(e) == [e EXCEPT !.age = IF e.age > MaxAge THEN e.age ELSE e.age + 1]

Elapse ==
  /\ events' = {Older(e) : e \in events}
  /\ UNCHANGED <<next, total, cursor, seen>>

BufferNext ==
  \/ \E v \in VanIds, age \in Ages : Push(v, age)
  \/ \E c \in Readers : Fetch(c)
  \/ \E v \in VanIds : Clear(v)
  \/ ClearAll
  \/ Evict
  \/ Elapse

BufferSpec == BufferInit /\ [][BufferNext]_bufferVars

--------------------------------------------------------------------------------
(***************************************************************************)
(* Properties.                                                             *)
(***************************************************************************)
BufferTypeOK ==
  /\ events \in SUBSET Event
  /\ next \in Nat \ {0}
  /\ total \in Nat
  /\ cursor \in [Readers -> Nat]
  /\ seen \in [Readers -> SUBSET Nat]

\* total_count_ is adjusted in five places and never recomputed: it is the
\* number of events held, so enforceTotalLimit compares the right number and
\* the unsigned counter never passes below zero.
CountIsExact == total = Cardinality(events)

\* Both limits hold after every call: the buffer never grows past its memory.
WithinLimits ==
  /\ \A v \in VanIds : Cardinality(Of(v, events)) <= PerVan
  /\ Cardinality(events) <= MaxTotal

\* An id names one event, and one that was handed out.
IdsAreUnique ==
  /\ \A e \in events : e.seq \in 1 .. next - 1
  /\ \A e, f \in events : e.seq = f.seq => e = f

\* Paging loses nothing that is still buffered: an event the next request of a
\* consumer will not return is one it was given already, whatever was pushed,
\* dropped, cleared or evicted between its requests.
NoneSkipped ==
  \A c \in Readers : \A e \in Batch(c, 0) : e.seq <= cursor[c] => e.seq \in seen[c]

\* Nor does it repeat: no answer holds an event the consumer was given before.
NothingRepeated ==
  [][\A c \in Readers :
       Fetch(c) => \A e \in Batch(c, cursor[c]) : e.seq \notin seen[c]]_bufferVars

\* A push costs at most one event: the oldest of the van that is over its
\* limit, or the oldest of the whole fleet when the total is.
PushDropsTheOldest ==
  [][\A v \in VanIds : (\E age \in Ages : Push(v, age)) =>
       \A e \in events \ events' :
         /\ \A f \in events \ events' : e = f
         /\ \/ \A f \in events' : e.seq < f.seq
            \/ /\ e.van = v /\ Cardinality(Of(v, events)) = PerVan
               /\ \A f \in Of(v, events') : e.seq < f.seq]_bufferVars

\* evict() pops at the fronts only: it takes nothing that is not past its age, and
\* leaves an event past its age only behind a younger one that was pushed before it.
OldStayOnlyBehindYoung ==
  [][Evict =>
       /\ \A e \in events \ events' : e.age > MaxAge
       /\ \A e \in events' : e.age > MaxAge =>
            \E f \in Of(e.van, events') : f.seq < e.seq /\ f.age <= MaxAge]_bufferVars
================================================================================
