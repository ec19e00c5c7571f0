------------------------------- MODULE MatterNode -------------------------------
(***************************************************************************)
(* The Matter stack of a node (src/src/matter): sessions, subscriptions    *)
(* and exchanges, which the node's main loop ticks together through        *)
(* InteractionModel::tick().                                               *)
(*                                                                         *)
(* Ages are kept instead of times, exact up to one more than the limit     *)
(* they are compared with.  A time point that was never set is the clock's *)
(* epoch: some code asks for it (a report or a liveness check that never   *)
(* was), other code subtracts it and finds an age past every limit.        *)
(***************************************************************************)
EXTENDS Integers

CONSTANTS
  Sessions, Subs, Exchanges,   \* the ids createSession() and its kin give out
  MinInterval, MaxInterval,    \* a subscription's intervals
  IdleTimeout,                 \* SessionParams::idle_timeout
  ExchangeTimeout,             \* ExchangeEntry::timeout
  MaxRetransmits,              \* ExchangeEntry::MAX_RETRANSMITS
  MaxMissed,                   \* Subscription::MAX_MISSED_LIVENESS
  MaxLag                       \* bound: the longest time between two handlers

ASSUME MatterAssumption ==
  /\ MinInterval \in Nat /\ MaxInterval \in Nat \ {0} /\ MinInterval <= MaxInterval
  /\ IdleTimeout \in Nat /\ ExchangeTimeout \in Nat
  /\ MaxRetransmits \in Nat /\ MaxMissed \in Nat \ {0} /\ MaxLag \in Nat \ {0}

Never == -1

VARIABLES
  session,    \* sessions_: [state, idle]
  sub,        \* subs_: [state, on, report, live, missed], the ages of the last
              \* report and the last liveness check, Never if there was none
  exchange,   \* exchanges_: [state, age, sent]; "gone" once erased
  dirty,      \* history: subscriptions with a change no report has told
  outcome     \* history: per exchange, which handlers its owner had called

matterVars == <<session, sub, exchange, dirty, outcome>>

Upto(n, limit) == IF n > limit THEN limit ELSE n

--------------------------------------------------------------------------------
NoSession == [state |-> "none", idle |-> 0]
NoSub == [state |-> "none", on |-> CHOOSE s \in Sessions : TRUE, report |-> Never, live |-> Never, missed |-> 0]
NoExchange == [state |-> "none", age |-> 0, sent |-> 0]

MatterInit ==
  /\ session = [s \in Sessions |-> NoSession]
  /\ sub = [i \in Subs |-> NoSub]
  /\ exchange = [e \in Exchanges |-> NoExchange]
  /\ dirty = {} /\ outcome = [e \in Exchanges |-> {}]

\* createSession(): last_activity is the epoch until a request uses the session.
CreateSession(s) ==
  /\ session[s].state = "none"
  /\ session' = [session EXCEPT ![s] = [state |-> "active", idle |-> IdleTimeout + 1]]
  /\ UNCHANGED <<sub, exchange, dirty, outcome>>

DestroySession(s) ==
  /\ session[s].state \in {"active", "expired"}
  /\ session' = [session EXCEPT ![s].state = "destroyed"]
  /\ UNCHANGED <<sub, exchange, dirty, outcome>>

\* updateActivity(), as the four send functions begin.
UpdateActivity(s) ==
  /\ session[s].state = "active" /\ session' = [session EXCEPT ![s].idle = 0]

\* sendRead(), sendWrite(), sendInvoke(): for what is kept here, a use.
Use(s) == UpdateActivity(s) /\ UNCHANGED <<sub, exchange, dirty, outcome>>

\* createSubscription(): a record with nothing reported yet.
Created(s) == [NoSub EXCEPT !.state = "active", !.on = s]

SendSubscribe(s, i) ==
  /\ sub[i].state = "none" /\ UpdateActivity(s)
  /\ sub' = [sub EXCEPT ![i] = Created(s)]
  /\ UNCHANGED <<exchange, dirty, outcome>>

\* cancelSubscription(), cancelAllForSession(): the record stays, inactive.
Cancel(I) ==
  /\ \E i \in I : sub[i].state = "active"
  /\ sub' = [i \in Subs |-> IF i \in I /\ sub[i].state = "active" THEN [sub[i] EXCEPT !.state = "inactive"] ELSE sub[i]]
  /\ dirty' = dirty \ I
  /\ UNCHANGED <<session, exchange, outcome>>

--------------------------------------------------------------------------------
(* SubscriptionManager.                                                      *)

\* onDataChanged(): a report, or nothing within the minimum interval, where
\* "defer" leaves it to tick().
\* (Mutant: a deferred change counts as a report.)
TooSoon(i) == sub[i].report # Never /\ sub[i].report < MinInterval

OnDataChangedRestarts(covering) ==
  LET active == {i \in covering : sub[i].state = "active"}
      told == {i \in active : ~TooSoon(i)}
  IN /\ active # {}
     /\ sub' = [i \in Subs |-> IF i \in active THEN [sub[i] EXCEPT !.report = 0] ELSE sub[i]]
     /\ dirty' = (dirty \cup active) \ told
     /\ UNCHANGED <<session, exchange, outcome>>

OnDataChanged(covering) ==
  LET active == {i \in covering : sub[i].state = "active"}
      told == {i \in active : ~TooSoon(i)}
  IN /\ active # {}
     /\ sub' = [i \in Subs |-> IF i \in told THEN [sub[i] EXCEPT !.report = 0] ELSE sub[i]]
     /\ dirty' = (dirty \cup active) \ told
     /\ UNCHANGED <<session, exchange, outcome>>

LivenessReceived(i) ==
  /\ sub[i].state = "active"
  /\ sub' = [sub EXCEPT ![i].live = 0, ![i].missed = 0]
  /\ UNCHANGED <<session, exchange, dirty, outcome>>

Missed(r) ==
  [r EXCEPT !.missed = @ + 1, !.state = IF r.missed + 1 >= MaxMissed THEN "inactive" ELSE @]

LivenessFailed(i) ==
  /\ sub[i].state = "active"
  /\ sub' = [sub EXCEPT ![i] = Missed(@)]
  /\ dirty' = IF sub'[i].state = "inactive" THEN dirty \ {i} ELSE dirty
  /\ UNCHANGED <<session, exchange, outcome>>

ReportDue(r) == r.report = Never \/ r.report >= MaxInterval

\* SubscriptionManager::tick(), for one record: the periodic report, then the
\* liveness check, which begins with the first one received.
\* (Mutant: a report is taken for a sign of life.)
CheckedByReport(r) ==
  LET reported == IF ReportDue(r) THEN [r EXCEPT !.report = 0, !.missed = 0] ELSE r
  IN IF r.live # Never /\ r.live > 2 * MaxInterval THEN Missed([reported EXCEPT !.live = 0]) ELSE reported

Checked(r) ==
  LET reported == IF ReportDue(r) THEN [r EXCEPT !.report = 0] ELSE r
  IN IF r.live # Never /\ r.live > 2 * MaxInterval THEN Missed([reported EXCEPT !.live = 0]) ELSE reported

--------------------------------------------------------------------------------
(* ExchangeManager.                                                          *)

\* initiateExchange() with its handlers: sent_time is the epoch, so that the
\* first tick sends again at once.
Initiate(e) ==
  /\ exchange[e].state = "none"
  /\ exchange' = [exchange EXCEPT ![e] = [state |-> "waiting", age |-> ExchangeTimeout + 1, sent |-> 0]]
  /\ UNCHANGED <<session, sub, dirty, outcome>>

\* onMessageReceived(): answers may come late, and twice.
\* (Mutant: the exchange goes on waiting.)
OnMessageReceivedWaiting(e) ==
  /\ exchange[e].state \in {"waiting", "answered", "completed"}
  /\ UNCHANGED exchange
  /\ outcome' = [outcome EXCEPT ![e] = @ \cup {"response"}]
  /\ UNCHANGED <<session, sub, dirty>>

OnMessageReceived(e) ==
  /\ exchange[e].state \in {"waiting", "answered", "completed"}
  /\ exchange' = [exchange EXCEPT ![e].state = IF @ = "waiting" THEN "answered" ELSE @]
  /\ outcome' = [outcome EXCEPT ![e] = @ \cup {"response"}]
  /\ UNCHANGED <<session, sub, dirty>>

\* completeExchange(): an owner that wants no more of it, with its answer or
\* without.  The next tick erases it and calls nobody.
Complete(e) ==
  /\ exchange[e].state \in {"waiting", "answered", "completed"}
  /\ exchange' = [exchange EXCEPT ![e].state = "completed"]
  /\ UNCHANGED <<session, sub, dirty, outcome>>

TimesOut(x) == x.state = "waiting" /\ x.age > ExchangeTimeout /\ x.sent >= MaxRetransmits

\* ExchangeManager::tick(), for one exchange.
\* (Mutant: a retransmission is not counted.)
RetriedUncounted(x) ==
  IF x.state = "completed" \/ TimesOut(x) THEN [x EXCEPT !.state = "gone"]
  ELSE IF x.state = "waiting" /\ x.age > ExchangeTimeout THEN [x EXCEPT !.age = 0]
  ELSE x

Retried(x) ==
  IF x.state = "completed" \/ TimesOut(x) THEN [x EXCEPT !.state = "gone"]
  ELSE IF x.state = "waiting" /\ x.age > ExchangeTimeout THEN [x EXCEPT !.age = 0, !.sent = @ + 1]
  ELSE x

--------------------------------------------------------------------------------
\* expireIdleSessions(), for one session.
Expired(r) == IF r.state = "active" /\ r.idle > IdleTimeout THEN [r EXCEPT !.state = "expired"] ELSE r

\* InteractionModel::tick(): exchanges, subscriptions, idle sessions.
InteractionTick ==
  /\ exchange' = [e \in Exchanges |-> Retried(exchange[e])]
  /\ outcome' = [e \in Exchanges |-> IF TimesOut(exchange[e]) THEN outcome[e] \cup {"timeout"} ELSE outcome[e]]
  /\ sub' = [i \in Subs |-> IF sub[i].state = "active" THEN Checked(sub[i]) ELSE sub[i]]
  /\ dirty' = {i \in dirty : sub'[i].state = "active" /\ ~ReportDue(sub[i])}
  /\ session' = [s \in Sessions |-> Expired(session[s])]

MatterElapse(d) ==
  LET since(age, limit) == IF age = Never THEN Never ELSE Upto(age + d, limit)
  IN /\ session' = [s \in Sessions |-> IF session[s].state = "active"
                      THEN [session[s] EXCEPT !.idle = Upto(@ + d, IdleTimeout + 1)] ELSE session[s]]
     /\ sub' = [i \in Subs |-> IF sub[i].state = "active"
                  THEN [sub[i] EXCEPT !.report = since(@, MaxInterval), !.live = since(@, 2 * MaxInterval + 1)]
                  ELSE sub[i]]
     /\ exchange' = [e \in Exchanges |-> IF exchange[e].state = "waiting"
                       THEN [exchange[e] EXCEPT !.age = Upto(@ + d, ExchangeTimeout + 1)] ELSE exchange[e]]
     /\ UNCHANGED <<dirty, outcome>>

MatterNext ==
  \/ \E s \in Sessions : CreateSession(s) \/ DestroySession(s) \/ Use(s) \/ \E i \in Subs : SendSubscribe(s, i)
  \/ \E i \in Subs : Cancel({i}) \/ LivenessReceived(i) \/ LivenessFailed(i)
  \/ \E s \in Sessions : Cancel({i \in Subs : sub[i].on = s})
  \/ \E covering \in SUBSET Subs : OnDataChanged(covering)
  \/ \E e \in Exchanges : Initiate(e) \/ OnMessageReceived(e) \/ Complete(e)
  \/ InteractionTick
  \/ \E d \in 1 .. MaxLag : MatterElapse(d)

MatterSpec == MatterInit /\ [][MatterNext]_matterVars

\* The node's loop ticks every 100 ms or after a frame, and time passes.
MatterFairness == WF_matterVars(InteractionTick) /\ WF_matterVars(\E d \in 1 .. MaxLag : MatterElapse(d))

FairMatterSpec == MatterSpec /\ MatterFairness

--------------------------------------------------------------------------------
(***************************************************************************)
(* Properties.                                                             *)
(***************************************************************************)
\* An exchange ends one way: its owner is told of a timeout, gets answers, or
\* completes it, and a late or repeated answer changes nothing of that.  (Until
\* the next tick the response handler hears of answers to a completed one.)
OneOutcome == \A e \in Exchanges : outcome[e] # {"response", "timeout"}

\* An exchange nobody answers comes to its timeout, unless its owner has given it
\* up: none is left waiting, and none is erased with its owner still waiting.
ExchangesEnd ==
  \A e \in Exchanges :
    exchange[e].state = "waiting" ~> (outcome[e] # {} \/ exchange[e].state = "completed")

\* A change within the minimum interval is deferred and not lost: as long as the
\* subscription is active a later report carries it, however often it changes.
ChangesAreReported == \A i \in Subs : i \in dirty ~> i \notin dirty

\* A subscription whose peer has confirmed it once and never again does not stay
\* active for ever.
DeadPeersAreNoticed ==
  \A i \in Subs : [](sub[i].live # Never /\ sub[i].state = "active" =>
    <>(sub[i].state # "active" \/ (sub[i].live = 0 /\ sub[i].missed = 0)))
================================================================================
