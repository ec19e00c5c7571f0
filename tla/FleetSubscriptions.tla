-------------------------- MODULE FleetSubscriptions --------------------------
(***************************************************************************)
(* The gateway's subscriptions, FleetSubscriptionManager.cpp, over the     *)
(* long-running chip-tool processes that ChipToolDriver.cpp keeps for them *)
(* and ProcessManager.cpp polls.                                           *)
(*                                                                         *)
(* A rule is applied to a van by starting a process; the manager keeps a   *)
(* record of it, the driver keeps the process.  A pass of tick() looks for *)
(* records that are silent too long, then polls the processes.  No code    *)
(* reads the reports a process prints, so none ever reaches a record.      *)
(*                                                                         *)
(* Time points are distances to the present, kept up to the limit they are *)
(* compared with: `since' is now - last_report.                            *)
(***************************************************************************)
EXTENDS Integers, FiniteSets

CONSTANTS
  Vans,       \* van ids
  MaxRules,   \* bound: rules ever added
  Interval,   \* max_interval of each rule
  Fallback,   \* the max_interval of a record whose rule is gone (60 s)
  MaxMissed,  \* MAX_MISSED (3)
  SinceCap,   \* one past every limit `since' is compared with
  MaxSubs,    \* bound: processes ever started
  MaxLag      \* bound: the longest time between two handlers

Rules == 1 .. MaxRules

ASSUME SubscriptionsAssumption ==
  /\ MaxRules \in Nat
  /\ Interval \in [Rules -> Nat]
  /\ Fallback \in Nat
  /\ MaxMissed \in Nat \ {0}
  /\ SinceCap \in Nat
  /\ 2 * Fallback < SinceCap /\ \A r \in Rules : 2 * Interval[r] < SinceCap
  /\ MaxSubs \in Nat
  /\ MaxLag \in Nat \ {0}

VARIABLES
  rules,      \* rules_: the ids in force
  nextRule,   \* next_rule_id_
  connected,  \* the vans session_pool_ calls connected
  subs,       \* van_subs_: the records of each van
  processes,  \* the driver's subscriptions_
  nextSub     \* next_sub_id_

subsVars == <<rules, nextRule, connected, subs, processes, nextSub>>

\* The interval a record of rule r is judged by while `known' are in force.
IntervalOf(r, known) == IF r \in known THEN Interval[r] ELSE Fallback

\* VanSubscriptionState; sub 0 is the id of a process that did not start.
Record == [rule : Rules, sub : Nat, active : BOOLEAN,
           since : 0 .. SinceCap, missed : 0 .. MaxMissed]

\* SubscriptionHandle: `aged' once any time has passed since the start.
Process == [id : Nat \ {0}, van : Vans, rule : Rules,
            aged : BOOLEAN, exited : BOOLEAN]

Named(records) == {s.sub : s \in records}

--------------------------------------------------------------------------------
SubsInit ==
  /\ rules = {} /\ nextRule = 1
  /\ connected = {}
  /\ subs = [v \in Vans |-> {}]
  /\ processes = {} /\ nextSub = 1

AddRule ==
  /\ nextRule <= MaxRules
  /\ rules' = rules \cup {nextRule}
  /\ nextRule' = nextRule + 1
  /\ UNCHANGED <<connected, subs, processes, nextSub>>

\* removeRule(): the records of the rule, and their processes, stay.
RemoveRule(r) ==
  /\ r \in rules
  /\ rules' = rules \ {r}
  /\ UNCHANGED <<nextRule, connected, subs, processes, nextSub>>

\* The id the driver hands out for rule r: the rules are applied in order, and
\* a process that does not start uses its id up.
\* (Mutant: every rule of the call gets the same id.)
SubIdSame(r) == nextSub

SubId(r) == nextSub + Cardinality({q \in rules : q < r})

\* applyRule() for a process that started, and for one that did not.
Applied(r, started) ==
  IF r \in started
  THEN [rule |-> r, sub |-> SubId(r), active |-> TRUE, since |-> 0, missed |-> 0]
  ELSE [rule |-> r, sub |-> 0, active |-> FALSE, since |-> SinceCap, missed |-> 0]

\* subscribeVan(): the old records are dropped, their processes are not
\* cancelled; `started' are the rules whose process starts.
SubscribeVan(v, started) ==
  /\ v \in connected
  /\ nextSub + Cardinality(rules) <= MaxSubs + 1
  /\ subs' = [subs EXCEPT ![v] = {Applied(r, started) : r \in rules}]
  /\ processes' = processes \cup
       {[id |-> SubId(r), van |-> v, rule |-> r, aged |-> FALSE, exited |-> FALSE] :
          r \in started}
  /\ nextSub' = nextSub + Cardinality(rules)
  /\ UNCHANGED <<rules, nextRule, connected>>

\* cancelSubscription() for every active record.
Cancelled(v) == {s.sub : s \in {t \in subs[v] : t.active /\ t.sub # 0}}

UnsubscribeVan(v) ==
  /\ subs[v] # {}
  /\ subs' = [subs EXCEPT ![v] = {}]
  /\ processes' = {p \in processes : p.id \notin Cancelled(v)}
  /\ UNCHANGED <<rules, nextRule, connected, nextSub>>

--------------------------------------------------------------------------------
\* checkLiveness() for one record: a pass that finds it silent for more than
\* two intervals counts against it.
\* (Mutant: the count starts again instead of growing.)
JudgedReset(s) ==
  IF s.active /\ s.since > 2 * IntervalOf(s.rule, rules)
  THEN [s EXCEPT !.missed = 1, !.active = 1 < MaxMissed]
  ELSE s

Judged(s) ==
  IF s.active /\ s.since > 2 * IntervalOf(s.rule, rules)
  THEN [s EXCEPT !.missed = s.missed + 1, !.active = s.missed + 1 < MaxMissed]
  ELSE s

\* ProcessManager::poll() has something to say: the process ended, or it has
\* run for longer than the driver's timeout of Duration(0) and is killed.
Polled(p) == p.exited \/ p.aged

\* tick(): checkLiveness(), then the driver's tick().
Tick ==
  /\ subs' = [v \in Vans |-> {Judged(s) : s \in subs[v]}]
  /\ processes' = {p \in processes : ~Polled(p)}
  /\ UNCHANGED <<rules, nextRule, connected, nextSub>>

--------------------------------------------------------------------------------
\* The environment: sessions, chip-tool processes and time.
SessionChanges(v) ==
  /\ \/ connected' = connected \cup {v}
     \/ connected' = connected \ {v}
  /\ UNCHANGED <<rules, nextRule, subs, processes, nextSub>>

ProcessExits(p) ==
  /\ p \in processes /\ ~p.exited
  /\ processes' = (processes \ {p}) \cup {[p EXCEPT !.exited = TRUE]}
  /\ UNCHANGED <<rules, nextRule, connected, subs, nextSub>>

Later(since, d) == IF since + d > SinceCap THEN SinceCap ELSE since + d

Aged(s, d) == IF s.active THEN [s EXCEPT !.since = Later(s.since, d)] ELSE s

Elapse(d) ==
  /\ subs' = [v \in Vans |-> {Aged(s, d) : s \in subs[v]}]
  /\ processes' = {[p EXCEPT !.aged = TRUE] : p \in processes}
  /\ UNCHANGED <<rules, nextRule, connected, nextSub>>

SubsNext ==
  \/ AddRule
  \/ \E r \in Rules : RemoveRule(r)
  \/ \E v \in Vans : \E started \in SUBSET rules : SubscribeVan(v, started)
  \/ \E v \in Vans : UnsubscribeVan(v)
  \/ Tick
  \/ \E v \in Vans : SessionChanges(v)
  \/ \E p \in processes : ProcessExits(p)
  \/ \E d \in 1 .. MaxLag : Elapse(d)

SubsSpec == SubsInit /\ [][SubsNext]_subsVars

\* The gateway's loop goes on, and time passes.
SubsFairness == WF_subsVars(Tick) /\ WF_subsVars(\E d \in 1 .. MaxLag : Elapse(d))

FairSubsSpec == SubsSpec /\ SubsFairness

--------------------------------------------------------------------------------
(***************************************************************************)
(* Properties.                                                             *)
(***************************************************************************)
SubsTypeOK ==
  /\ rules \subseteq 1 .. nextRule - 1 /\ nextRule \in 1 .. MaxRules + 1
  /\ connected \in SUBSET Vans
  /\ subs \in [Vans -> SUBSET Record]
  /\ processes \in SUBSET Process
  /\ nextSub \in 1 .. MaxSubs + 1

\* A record's process is its own: cancelling it stops no other subscription,
\* whatever was resubscribed, removed or failed to start in between.
RecordsOwnProcesses ==
  /\ \A v, w \in Vans : \A s \in subs[v], t \in subs[w] :
       s.sub = t.sub /\ s.sub # 0 => v = w /\ s = t
  /\ \A v \in Vans : \A s \in subs[v], p \in processes :
       p.id = s.sub => p.van = v /\ p.rule = s.rule

\* unsubscribeVan() cancels only active records.  That is enough, but only since
\* a pass ends every process it finds running (Polled): a record the liveness
\* check gave up has been through a pass, and has no process left to cancel.
LostHaveNoProcess ==
  \A v \in Vans : \A s \in subs[v] :
    ~s.active => \A p \in processes : p.id # s.sub

\* A record is given up after MaxMissed silent passes and not before, so that a
\* single late pass, however late, never loses a subscription.
LossTakesSilentPasses ==
  [][\A v \in Vans : \A t \in subs'[v] :
       ~t.active /\ t.sub # 0 =>
         \E s \in subs[v] : /\ s.sub = t.sub
                            /\ s.active => s.missed = MaxMissed - 1]_subsVars

\* A subscription whose process is gone does not stay active for ever.
DeadAreNoticed ==
  \A v \in Vans : \A i \in 1 .. MaxSubs :
    (\E s \in subs[v] : s.active /\ s.sub = i /\ \A p \in processes : p.id # i)
      ~> ~(\E s \in subs[v] : s.active /\ s.sub = i)

\* "No timeout for long-running subscriptions" (ChipToolDriver.cpp, subscribe()):
\* a pass of the loop ends no process that is still running.  It is not so: the
\* driver passes Duration(0), and ProcessManager::poll() kills what has run for
\* longer than that.
SubscriptionsHaveNoTimeout ==
  [][Tick => \A p \in processes : ~p.exited => p \in processes']_subsVars

================================================================================
