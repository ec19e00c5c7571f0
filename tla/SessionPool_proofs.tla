-------------------------- MODULE SessionPool_proofs ---------------------------
(***************************************************************************)
(* Theorems of SessionPool for any vans, devices, intervals and limits.    *)
(***************************************************************************)
EXTENDS SessionPool, TLAPS

\* What holds of one van between two handlers: s is its record, t its tries, a the
\* time since it last answered and g the time since the last pass.
VanInv(s, t, a, g) ==
  /\ s \in Session
  /\ t \in 0 .. MaxAttempts
  /\ a \in 0 .. Keepalive
  /\ s.state = "Reconnecting" => s.attempts = t
  /\ s.state = "Connected" => /\ t = 0
                              /\ a = s.quiet
                              /\ s.idle <= s.quiet \/ s.quiet = Keepalive
                              /\ g <= Slack => s.idle < Keepalive + g
  /\ IF s.state = "Absent" THEN s.told \in {"Absent", "Disconnected"}
                           ELSE s.told = s.state

\* The inductive invariant.
PoolInv ==
  /\ reachable \in SUBSET Devices
  /\ sessions \in [Vans -> Session]
  /\ tries \in [Vans -> 0 .. MaxAttempts]
  /\ answered \in [Vans -> 0 .. Keepalive]
  /\ gap \in 0 .. Slack + 1
  /\ \A v \in Vans : VanInv(sessions[v], tries[v], answered[v], gap)

USE IntervalsAssumption, KeepaliveFirst

\* The backoff is an integer and never more than the cap.
LEMMA BackoffBounded ==
  ASSUME NEW n \in Nat \ {0}
  PROVE  Backoff(n) \in Waits
<1>1. 2 ^ (n - 1) \in Int
  OBVIOUS
<1>2. Base * 2 ^ (n - 1) \in Int
  BY <1>1
<1> QED
  BY <1>2 DEF Backoff, Waits, AtMost, AtLeast

\* The records connect() stores are well formed, whatever the driver says.
LEMMA FreshRecords ==
  ASSUME NEW device \in Devices, NEW g \in Nat
  PROVE  /\ VanInv(NotifyEvent(Connected(device), "Connected"), 0, 0, g)
         /\ VanInv(NotifyEvent(Refused(device), "Failed"), 0, 0, g)
         /\ NoSession(device) \in Session
BY DEF VanInv, Connected, Refused, NoSession, NotifyEvent, Session, States, Waits, AtLeast

\* A keepalive, answered or not, leaves a record well formed; only the answered
\* one leaves it connected.
LEMMA KeepaliveKeeps ==
  ASSUME NEW s \in Session, s.state = "Connected"
  PROVE  /\ SendKeepalive(s) \in Session
         /\ SendKeepalive(s).device = s.device
         /\ Answers(s.device) => /\ SendKeepalive(s).state = "Connected"
                                 /\ SendKeepalive(s).told = s.told
                                 /\ SendKeepalive(s).idle = 0
                                 /\ SendKeepalive(s).quiet = 0
         /\ ~Answers(s.device) => /\ SendKeepalive(s).state = "Reconnecting"
                                  /\ SendKeepalive(s).told = "Reconnecting"
                                  /\ SendKeepalive(s).attempts = 0
                                  /\ SendKeepalive(s).idle = s.idle
<1>1. CASE Answers(s.device)
  <2>1. SendKeepalive(s) = [s EXCEPT !.quiet = 0, !.idle = 0]
    BY <1>1 DEF SendKeepalive
  <2>2. SendKeepalive(s) = [state |-> "Connected", device |-> s.device,
                            idle |-> 0, quiet |-> 0, wait |-> s.wait,
                            attempts |-> s.attempts, told |-> s.told]
    BY <2>1 DEF Session
  <2> QED
    BY <1>1, <2>2 DEF Session, States
<1>2. CASE ~Answers(s.device)
  <2>1. SendKeepalive(s) = NotifyEvent([s EXCEPT !.quiet = 0, !.state = "Reconnecting",
                                                 !.wait = Base, !.attempts = 0],
                                       "Reconnecting")
    BY <1>2 DEF SendKeepalive
  <2>2. SendKeepalive(s) = [state |-> "Reconnecting", device |-> s.device,
                            idle |-> s.idle, quiet |-> 0, wait |-> Base,
                            attempts |-> 0, told |-> "Reconnecting"]
    BY <2>1 DEF Session, NotifyEvent
  <2>3. Base \in Waits
    BY DEF Waits, AtLeast
  <2> QED
    BY <1>2, <2>2, <2>3 DEF Session, States
<1> QED
  BY <1>1, <1>2

\* The idle check changes nothing but the state, and tells of it.
LEMMA IdleKeeps ==
  ASSUME NEW s \in Session
  PROVE  /\ CheckIdle(s) \in Session
         /\ s.idle >= SessionTimeout => /\ CheckIdle(s).state = "Disconnected"
                                        /\ CheckIdle(s).told = "Disconnected"
         /\ s.idle < SessionTimeout => CheckIdle(s) = s
<1>1. CASE s.idle >= SessionTimeout
  <2>1. CheckIdle(s) = NotifyEvent([s EXCEPT !.state = "Disconnected"], "Disconnected")
    BY <1>1 DEF CheckIdle
  <2>2. CheckIdle(s) = [state |-> "Disconnected", device |-> s.device, idle |-> s.idle,
                        quiet |-> s.quiet, wait |-> s.wait, attempts |-> s.attempts,
                        told |-> "Disconnected"]
    BY <2>1 DEF NotifyEvent, Session
  <2> QED
    BY <1>1, <2>2 DEF Session, States
<1>2. CASE ~(s.idle >= SessionTimeout)
  BY <1>2 DEF CheckIdle, Session
<1> QED
  BY <1>1, <1>2

\* One pass over a connected van.
LEMMA TickConnected ==
  ASSUME NEW s, NEW t, NEW a, NEW g \in Nat, VanInv(s, t, a, g), s.state = "Connected"
  PROVE  /\ TickOne(s) \in Session
         /\ KeepaliveDue(s) /\ Answers(s.device)
              => TickOne(s).state = "Connected" /\ TickOne(s).quiet = 0
                                               /\ TickOne(s).idle = 0
         /\ KeepaliveDue(s) /\ ~Answers(s.device)
              => \/ TickOne(s).state = "Disconnected" /\ g > Slack
                 \/ TickOne(s).state = "Reconnecting" /\ TickOne(s).attempts = 0
         /\ ~KeepaliveDue(s) => TickOne(s) = s
         /\ TickOne(s).told = TickOne(s).state
<1> DEFINE k == IF KeepaliveDue(s) THEN SendKeepalive(s) ELSE s
<1>1. TickOne(s) = CheckIdle(k)
  BY DEF TickOne, ReconnectDue
<1>2. s \in Session
  BY DEF VanInv
<1>3. CASE KeepaliveDue(s)
  <2>1. k = SendKeepalive(s) /\ k \in Session
    BY <1>2, <1>3, KeepaliveKeeps
  <2>2. s.told = "Connected"
    BY DEF VanInv
  <2>3. CASE Answers(s.device)
    <3>1. k.idle < SessionTimeout
      BY <1>2, <2>1, <2>3, KeepaliveKeeps
    <3> QED
      BY <1>1, <1>2, <2>1, <2>2, <2>3, <3>1, KeepaliveKeeps, IdleKeeps
  <2>4. CASE ~Answers(s.device)
    <3>1. k.state = "Reconnecting" /\ k.told = "Reconnecting" /\ k.attempts = 0
          /\ k.idle = s.idle
      BY <1>2, <2>1, <2>4, KeepaliveKeeps
    <3>2. s.idle >= SessionTimeout => g > Slack
      BY <1>2 DEF VanInv, Slack, Session
    <3>3. s.idle \in Nat
      BY <1>2 DEF Session
    <3> HIDE DEF k
    <3> QED
      BY <1>1, <1>3, <2>1, <2>4, <3>1, <3>2, <3>3, IdleKeeps
  <2> QED
    BY <2>3, <2>4
<1>4. CASE ~KeepaliveDue(s)
  <2>1. k = s
    BY <1>4
  <2>2. s.idle < SessionTimeout
    BY <1>4 DEF VanInv, KeepaliveDue, Session
  <2> QED
    BY <1>1, <1>2, <1>4, <2>1, <2>2, IdleKeeps DEF VanInv
<1> QED
  BY <1>3, <1>4

\* One pass over a van in an outage.
LEMMA TickReconnecting ==
  ASSUME NEW s, NEW t, NEW a, NEW g, VanInv(s, t, a, g), s.state = "Reconnecting"
  PROVE  /\ TickOne(s) \in Session
         /\ TickOne(s).told = TickOne(s).state
         /\ ~ReconnectDue(s) => TickOne(s) = s
         /\ ReconnectDue(s) /\ GivesUp(s)
              => /\ TickOne(s).state = "Failed"
                 /\ TickOne(s).attempts = s.attempts + 1
         /\ Attempts(s) /\ Answers(s.device)
              => /\ TickOne(s).state = "Connected"
                 /\ TickOne(s).quiet = 0
                 /\ TickOne(s).idle = 0
         /\ Attempts(s) /\ ~Answers(s.device)
              => /\ TickOne(s).state = "Reconnecting"
                 /\ TickOne(s).attempts = s.attempts + 1
<1>1. s \in Session /\ s.attempts \in 0 .. MaxAttempts /\ s.told = s.state
  BY DEF VanInv, Session
<1>2. TickOne(s) = IF ReconnectDue(s) THEN AttemptReconnect(s) ELSE s
  BY DEF TickOne
<1>3. Backoff(s.attempts + 1) \in Waits
  BY <1>1, BackoffBounded
<1>4. CASE ReconnectDue(s) /\ GivesUp(s)
  <2>1. TickOne(s) = NotifyEvent([s EXCEPT !.state = "Failed",
                                           !.attempts = s.attempts + 1], "Failed")
    BY <1>2, <1>4 DEF AttemptReconnect
  <2>2. TickOne(s) = [state |-> "Failed", device |-> s.device, idle |-> s.idle,
                      quiet |-> s.quiet, wait |-> s.wait,
                      attempts |-> s.attempts + 1, told |-> "Failed"]
    BY <1>1, <2>1 DEF Session, NotifyEvent
  <2> QED
    BY <1>1, <1>4, <2>2 DEF Session, States, Attempts
<1>5. CASE ReconnectDue(s) /\ ~GivesUp(s) /\ Answers(s.device)
  <2>1. TickOne(s) = NotifyEvent([s EXCEPT !.state = "Connected", !.idle = 0,
                                           !.quiet = 0, !.attempts = 0], "Connected")
    BY <1>2, <1>5 DEF AttemptReconnect
  <2>2. TickOne(s) = [state |-> "Connected", device |-> s.device, idle |-> 0,
                      quiet |-> 0, wait |-> s.wait, attempts |-> 0,
                      told |-> "Connected"]
    BY <1>1, <2>1 DEF Session, NotifyEvent
  <2> QED
    BY <1>1, <1>5, <2>2 DEF Session, States, Attempts
<1>6. CASE ReconnectDue(s) /\ ~GivesUp(s) /\ ~Answers(s.device)
  <2>1. TickOne(s) = [s EXCEPT !.attempts = s.attempts + 1,
                               !.wait = Backoff(s.attempts + 1)]
    BY <1>2, <1>6 DEF AttemptReconnect
  <2>2. TickOne(s) = [state |-> "Reconnecting", device |-> s.device,
                      idle |-> s.idle, quiet |-> s.quiet,
                      wait |-> Backoff(s.attempts + 1),
                      attempts |-> s.attempts + 1, told |-> s.told]
    BY <1>1, <2>1 DEF Session
  <2> QED
    BY <1>1, <1>3, <1>6, <2>2 DEF Session, States, Attempts
<1>7. CASE ~ReconnectDue(s)
  BY <1>1, <1>2, <1>7 DEF Attempts
<1> QED
  BY <1>4, <1>5, <1>6, <1>7

\* One pass over a van in any other state does nothing.
LEMMA TickOther ==
  ASSUME NEW s, s.state \notin {"Connected", "Reconnecting"}
  PROVE  TickOne(s) = s /\ ~Heard(s) /\ ~Attempts(s)
BY DEF TickOne, Heard, Attempts, ReconnectDue, KeepaliveDue

\* A pass keeps what holds of a van.
LEMMA TickKeeps ==
  ASSUME NEW s, NEW t, NEW a, NEW g \in Nat, VanInv(s, t, a, g)
  PROVE  VanInv(TickOne(s), TriesAfter(t, s), IF Heard(s) THEN 0 ELSE a, 0)
<1>1. CASE s.state = "Connected"
  <2>1. ~Attempts(s) /\ (Heard(s) <=> KeepaliveDue(s) /\ Answers(s.device))
    BY <1>1 DEF Attempts, ReconnectDue, Heard
  <2>2. TriesAfter(t, s) = 0
    BY <1>1, <2>1 DEF TriesAfter, VanInv
  <2>3. CASE ~KeepaliveDue(s)
    <3>1. TickOne(s) = s
      BY <1>1, <2>3, TickConnected
    <3>2. s.idle < Keepalive
      BY <1>1, <2>3 DEF VanInv, KeepaliveDue, Session
    <3> QED
      BY <1>1, <2>1, <2>2, <2>3, <3>1, <3>2 DEF VanInv
  <2>4. CASE KeepaliveDue(s) /\ Answers(s.device)
    <3>1. /\ TickOne(s) \in Session /\ TickOne(s).state = "Connected"
          /\ TickOne(s).quiet = 0 /\ TickOne(s).idle = 0 /\ TickOne(s).told = "Connected"
      BY <1>1, <2>4, TickConnected
    <3> QED
      BY <2>1, <2>2, <2>4, <3>1 DEF VanInv
  <2>5. CASE KeepaliveDue(s) /\ ~Answers(s.device)
    <3>1. /\ TickOne(s) \in Session /\ TickOne(s).told = TickOne(s).state
          /\ \/ TickOne(s).state = "Disconnected"
             \/ TickOne(s).state = "Reconnecting" /\ TickOne(s).attempts = 0
      BY <1>1, <2>5, TickConnected
    <3> QED
      BY <2>1, <2>2, <2>5, <3>1 DEF VanInv
  <2> QED
    BY <2>3, <2>4, <2>5
<1>2. CASE s.state = "Reconnecting"
  <2>1. Heard(s) <=> Attempts(s) /\ Answers(s.device)
    BY <1>2 DEF Heard, KeepaliveDue
  <2>2. CASE ~ReconnectDue(s)
    <3>1. TickOne(s) = s /\ ~Attempts(s)
      BY <1>2, <2>2, TickReconnecting DEF Attempts
    <3> QED
      BY <1>2, <2>1, <3>1 DEF TriesAfter, VanInv
  <2>3. CASE ReconnectDue(s) /\ GivesUp(s)
    <3>1. TickOne(s) \in Session /\ TickOne(s).state = "Failed" /\ ~Attempts(s)
          /\ TickOne(s).told = "Failed"
      BY <1>2, <2>3, TickReconnecting DEF Attempts
    <3> QED
      BY <2>1, <3>1 DEF TriesAfter, VanInv
  <2>4. CASE Attempts(s) /\ Answers(s.device)
    <3>1. /\ TickOne(s) \in Session
          /\ TickOne(s).state = "Connected"
          /\ TickOne(s).idle = 0 /\ TickOne(s).quiet = 0
          /\ TickOne(s).told = "Connected"
      BY <1>2, <2>4, TickReconnecting
    <3> QED
      BY <2>1, <2>4, <3>1 DEF TriesAfter, VanInv
  <2>5. CASE Attempts(s) /\ ~Answers(s.device)
    <3>1. /\ TickOne(s) \in Session
          /\ TickOne(s).state = "Reconnecting"
          /\ TickOne(s).attempts = s.attempts + 1
          /\ TickOne(s).told = "Reconnecting"
      BY <1>2, <2>5, TickReconnecting
    <3>2. s.attempts = t /\ t < MaxAttempts
      BY <1>2, <2>5 DEF VanInv, Attempts, GivesUp
    <3> QED
      BY <2>1, <2>5, <3>1, <3>2 DEF TriesAfter, VanInv, AtMost
  <2> QED
    BY <2>2, <2>3, <2>4, <2>5 DEF Attempts
<1>3. CASE s.state \notin {"Connected", "Reconnecting"}
  BY <1>3, TickOther DEF TriesAfter, VanInv
<1> QED
  BY <1>1, <1>2, <1>3

\* The passing of time keeps what holds of a van.
LEMMA ElapseKeeps ==
  ASSUME NEW s, NEW t, NEW a, NEW g \in Nat, NEW d \in Nat, VanInv(s, t, a, g)
  PROVE  VanInv(Aged(s, d), t, AtMost(a + d, Keepalive), AtMost(g + d, Slack + 1))
<1>1. CASE s.state = "Connected"
  <2>1. Aged(s, d) = [s EXCEPT !.idle = AtMost(s.idle + d, SessionTimeout),
                               !.quiet = AtMost(s.quiet + d, Keepalive)]
    BY <1>1 DEF Aged
  <2>2. Aged(s, d) = [state |-> "Connected", device |-> s.device,
                      idle |-> AtMost(s.idle + d, SessionTimeout),
                      quiet |-> AtMost(s.quiet + d, Keepalive),
                      wait |-> s.wait, attempts |-> s.attempts, told |-> s.told]
    BY <1>1, <2>1 DEF VanInv, Session
  <2> QED
    BY <1>1, <2>2 DEF VanInv, Session, States, AtMost, Slack
<1>2. CASE s.state = "Reconnecting"
  <2>1. Aged(s, d) = [s EXCEPT !.wait = AtLeast(s.wait - d, 0)]
    BY <1>2 DEF Aged
  <2>2. AtLeast(s.wait - d, 0) \in Waits
    BY DEF VanInv, Session, Waits, AtLeast
  <2> QED
    BY <1>2, <2>1, <2>2 DEF VanInv, Session, AtMost
<1>3. CASE s.state \notin {"Connected", "Reconnecting"}
  BY <1>3 DEF Aged, VanInv, AtMost
<1> QED
  BY <1>1, <1>2, <1>3

--------------------------------------------------------------------------------
(***************************************************************************)
(* The invariant: Init, every action, and what follows from it.            *)
(***************************************************************************)
LEMMA PoolInitInv == PoolInit => PoolInv
<1> SUFFICES ASSUME PoolInit PROVE PoolInv
  OBVIOUS
<1>1. PICK device \in Devices : sessions = [v \in Vans |-> NoSession(device)]
  BY DEF PoolInit
<1>2. NoSession(device) \in Session /\ NoSession(device).state = "Absent"
  BY FreshRecords DEF NoSession
<1> QED
  BY <1>1, <1>2 DEF PoolInit, PoolInv, VanInv, NoSession, Slack

LEMMA ConnectKeeps ==
  ASSUME PoolInv, NEW v \in Vans, NEW device \in Devices, Connect(v, device)
  PROVE  PoolInv'
<1> DEFINE fresh == IF Answers(device) THEN Connected(device) ELSE Refused(device)
           s == NotifyEvent(fresh, fresh.state)
<1>1. gap \in Nat
  BY DEF PoolInv, Slack
<1>2. VanInv(s, 0, 0, gap) /\ s \in Session
  <2>1. CASE Answers(device)
    BY <1>1, <2>1, FreshRecords DEF VanInv, Connected
  <2>2. CASE ~Answers(device)
    BY <1>1, <2>2, FreshRecords DEF VanInv, Refused
  <2> QED
    BY <2>1, <2>2
<1>3. /\ sessions' = [sessions EXCEPT ![v] = s]
      /\ tries' = [tries EXCEPT ![v] = 0]
      /\ answered' = [answered EXCEPT ![v] = 0]
      /\ UNCHANGED <<reachable, gap>>
  BY DEF Connect
<1> HIDE DEF fresh, s
<1>4. \A u \in Vans : VanInv(sessions'[u], tries'[u], answered'[u], gap')
  BY <1>2, <1>3 DEF PoolInv
<1> QED
  BY <1>2, <1>3, <1>4 DEF PoolInv

LEMMA DisconnectKeeps ==
  ASSUME PoolInv, NEW v \in Vans, Disconnect(v)
  PROVE  PoolInv'
<1> DEFINE gone == NotifyEvent(NoSession(sessions[v].device), "Disconnected")
<1>1. sessions[v].device \in Devices
  BY DEF PoolInv, Session
<1>2. gone \in Session /\ gone.state = "Absent" /\ gone.told = "Disconnected"
  BY <1>1 DEF NoSession, NotifyEvent, Session, States, Waits, AtLeast
<1>3. /\ sessions' = [sessions EXCEPT ![v] = gone]
      /\ UNCHANGED <<reachable, tries, answered, gap>>
  BY DEF Disconnect
<1> HIDE DEF gone
<1>4. \A u \in Vans : VanInv(sessions'[u], tries'[u], answered'[u], gap')
  BY <1>2, <1>3 DEF PoolInv, VanInv
<1> QED
  BY <1>2, <1>3, <1>4 DEF PoolInv

LEMMA CommandKeeps ==
  ASSUME PoolInv, NEW v \in Vans, Command(v)
  PROVE  PoolInv'
<1> DEFINE s == [sessions[v] EXCEPT !.idle = 0]
<1>1. sessions[v] \in Session /\ VanInv(sessions[v], tries[v], answered[v], gap)
      /\ gap \in Nat
  BY DEF PoolInv, Slack
<1>2. s \in Session /\ s.state = sessions[v].state /\ s.idle = 0
      /\ s.quiet = sessions[v].quiet /\ s.attempts = sessions[v].attempts
      /\ s.told = sessions[v].told
  BY <1>1 DEF Session
<1>3. sessions' = [sessions EXCEPT ![v] = s]
  BY DEF Command, PoolInv
<1>4. VanInv(s, tries[v], answered[v], gap)
  <2> HIDE DEF s
  <2> QED
    BY <1>1, <1>2 DEF VanInv, Session
<1> HIDE DEF s
<1>5. UNCHANGED <<reachable, tries, answered, gap>>
  BY DEF Command
<1>6. \A u \in Vans : VanInv(sessions'[u], tries'[u], answered'[u], gap')
  BY <1>3, <1>4, <1>5 DEF PoolInv
<1> QED
  BY <1>2, <1>3, <1>5, <1>6 DEF PoolInv

LEMMA PassKeeps ==
  ASSUME PoolInv, Tick
  PROVE  PoolInv'
<1>1. /\ sessions' = [v \in Vans |-> TickOne(sessions[v])]
      /\ tries' = [v \in Vans |-> TriesAfter(tries[v], sessions[v])]
      /\ answered' = [v \in Vans |-> IF Heard(sessions[v]) THEN 0 ELSE answered[v]]
      /\ gap' = 0
      /\ UNCHANGED reachable
  BY DEF Tick
<1>2. \A v \in Vans : VanInv(sessions'[v], tries'[v], answered'[v], 0)
  <2> TAKE v \in Vans
  <2>1. VanInv(sessions[v], tries[v], answered[v], gap) /\ gap \in Nat
    BY DEF PoolInv, Slack
  <2> QED
    BY <1>1, <2>1, TickKeeps
<1>3. \A v \in Vans : sessions'[v] \in Session /\ tries'[v] \in 0 .. MaxAttempts
                       /\ answered'[v] \in 0 .. Keepalive
  BY <1>2 DEF VanInv
<1> QED
  BY <1>1, <1>2, <1>3 DEF PoolInv, Slack

LEMMA TimeKeeps ==
  ASSUME PoolInv, NEW d \in 1 .. MaxLag, Elapse(d)
  PROVE  PoolInv'
<1>1. /\ sessions' = [v \in Vans |-> Aged(sessions[v], d)]
      /\ answered' = [v \in Vans |-> AtMost(answered[v] + d, Keepalive)]
      /\ gap' = AtMost(gap + d, Slack + 1)
      /\ UNCHANGED <<reachable, tries>>
  BY DEF Elapse
<1>2. \A v \in Vans : VanInv(sessions'[v], tries'[v], answered'[v], gap')
  <2> TAKE v \in Vans
  <2>1. VanInv(sessions[v], tries[v], answered[v], gap) /\ gap \in Nat
    BY DEF PoolInv, Slack
  <2> QED
    BY <1>1, <2>1, ElapseKeeps
<1>3. \A v \in Vans : sessions'[v] \in Session /\ answered'[v] \in 0 .. Keepalive
  BY <1>2 DEF VanInv
<1>4. gap' \in 0 .. Slack + 1
  BY <1>1 DEF PoolInv, Slack, AtMost
<1> QED
  BY <1>1, <1>2, <1>3, <1>4 DEF PoolInv

LEMMA PoolInvInductive == PoolInv /\ [PoolNext]_poolVars => PoolInv'
<1> SUFFICES ASSUME PoolInv, [PoolNext]_poolVars PROVE PoolInv'
  OBVIOUS
<1>1. CASE \E v \in Vans, device \in Devices : Connect(v, device)
  BY <1>1, ConnectKeeps
<1>2. CASE \E v \in Vans : Disconnect(v)
  BY <1>2, DisconnectKeeps
<1>3. CASE \E v \in Vans : Command(v)
  BY <1>3, CommandKeeps
<1>4. CASE Tick
  BY <1>4, PassKeeps
<1>5. CASE \E d \in 1 .. MaxLag : Elapse(d)
  BY <1>5, TimeKeeps
<1>6. CASE \E device \in Devices : DeviceChanges(device)
  BY <1>6 DEF DeviceChanges, PoolInv, VanInv
<1>7. CASE UNCHANGED poolVars
  BY <1>7 DEF poolVars, PoolInv, VanInv
<1> QED
  BY <1>1, <1>2, <1>3, <1>4, <1>5, <1>6, <1>7 DEF PoolNext

LEMMA PoolInvariant == PoolSpec => []PoolInv
BY PoolInitInv, PoolInvInductive, PTL DEF PoolSpec

\* The records, histories and counters keep their types: in particular no van
\* is ever charged more attempts than the limit allows.
THEOREM PoolTypeCorrect == PoolSpec => []PoolTypeOK
<1>1. PoolInv => PoolTypeOK
  BY DEF PoolInv, PoolTypeOK
<1> QED
  BY <1>1, PoolInvariant, PTL

\* Observers are never behind the pool, for any number of vans: each of the seven
\* calls of notifyEvent tells the state its place has set.
THEOREM ObserversAreInStep == PoolSpec => []ObserversInStep
<1>1. PoolInv => ObserversInStep
  BY DEF PoolInv, VanInv, ObserversInStep
<1> QED
  BY <1>1, PoolInvariant, PTL

\* An outage costs at most MaxAttempts driver calls.
THEOREM AttemptsAreBounded == PoolSpec => []AttemptsAreCalls
<1>1. PoolInv => AttemptsAreCalls
  <2> SUFFICES ASSUME PoolInv, NEW v \in Vans
               PROVE  /\ sessions[v].state = "Reconnecting"
                           => sessions[v].attempts = tries[v]
                      /\ sessions[v].state = "Connected" => tries[v] = 0
                      /\ tries[v] <= MaxAttempts
    BY DEF AttemptsAreCalls
  <2>1. VanInv(sessions[v], tries[v], answered[v], gap)
    BY DEF PoolInv
  <2> QED
    BY <2>1 DEF VanInv
<1> QED
  BY <1>1, PoolInvariant, PTL

\* A session that looks idle has its keepalive due.
THEOREM IdleHasKeepaliveDue == PoolSpec => []IdleNeedsKeepalive
<1>1. PoolInv => IdleNeedsKeepalive
  BY DEF PoolInv, VanInv, IdleNeedsKeepalive, IsConnected
<1> QED
  BY <1>1, PoolInvariant, PTL

\* The idle timeout never closes the session of a van that answers.
THEOREM IdleClosesOnlyTheDead == PoolSpec => IdleOnlyWhenDead
<1>1. PoolInv /\ [PoolNext]_poolVars =>
        [Tick => \A v \in Vans :
           IsConnected(v) /\ sessions'[v].state = "Disconnected"
             => ~Answers(sessions[v].device)]_poolVars
  <2> SUFFICES ASSUME PoolInv, Tick, NEW v \in Vans, IsConnected(v),
                      sessions'[v].state = "Disconnected",
                      Answers(sessions[v].device)
               PROVE  FALSE
    OBVIOUS
  <2>1. VanInv(sessions[v], tries[v], answered[v], gap) /\ gap \in Nat
    BY DEF PoolInv, Slack
  <2>2. TickOne(sessions[v]).state = "Connected"
    BY <2>1, TickConnected DEF IsConnected
  <2> QED
    BY <2>2 DEF Tick
<1> QED
  BY <1>1, PoolInvariant, PTL DEF PoolSpec, IdleOnlyWhenDead

\* After a pass every connected van answered within the keepalive interval.
THEOREM ConnectedIsFresh == PoolSpec => FreshAfterTick
<1>1. PoolInv /\ [PoolNext]_poolVars =>
        [Tick => \A v \in Vans :
           sessions'[v].state = "Connected" => answered'[v] < Keepalive]_poolVars
  <2> SUFFICES ASSUME PoolInv, Tick, NEW v \in Vans,
                      sessions'[v].state = "Connected"
               PROVE  answered'[v] < Keepalive
    OBVIOUS
  <2> DEFINE s == sessions[v]
  <2>1. VanInv(s, tries[v], answered[v], gap) /\ gap \in Nat
    BY DEF PoolInv, Slack
  <2>2. /\ TickOne(s).state = "Connected"
        /\ answered'[v] = IF Heard(s) THEN 0 ELSE answered[v]
    BY DEF Tick
  <2>3. CASE s.state = "Connected"
    <3>1. KeepaliveDue(s) => Answers(s.device)
      BY <2>1, <2>2, <2>3, TickConnected
    <3>2. ~KeepaliveDue(s) => answered[v] < Keepalive
      BY <2>1, <2>3 DEF VanInv, KeepaliveDue, Session
    <3> QED
      BY <2>2, <3>1, <3>2 DEF Heard
  <2>4. CASE s.state = "Reconnecting"
    <3>1. Heard(s)
      BY <2>1, <2>2, <2>4, TickReconnecting DEF Heard, Attempts
    <3> QED
      BY <2>2, <3>1
  <2>5. CASE s.state \notin {"Connected", "Reconnecting"}
    BY <2>2, <2>5, TickOther
  <2> QED
    BY <2>3, <2>4, <2>5
<1> QED
  BY <1>1, PoolInvariant, PTL DEF PoolSpec, FreshAfterTick

\* A pass gives an outage up only after every attempt was made.
THEOREM FailureUsesTheBudget == PoolSpec => FailsOnlyAfterBudget
<1>1. PoolInv /\ [PoolNext]_poolVars =>
        [Tick => \A v \in Vans :
           sessions[v].state # "Failed" /\ sessions'[v].state = "Failed"
             => tries[v] = MaxAttempts]_poolVars
  <2> SUFFICES ASSUME PoolInv, Tick, NEW v \in Vans,
                      sessions[v].state # "Failed",
                      sessions'[v].state = "Failed"
               PROVE  tries[v] = MaxAttempts
    OBVIOUS
  <2> DEFINE s == sessions[v]
  <2>1. VanInv(s, tries[v], answered[v], gap) /\ TickOne(s).state = "Failed" /\ gap \in Nat
    BY DEF PoolInv, Tick, Slack
  <2>2. s.state = "Reconnecting"
    BY <2>1, TickConnected, TickOther
  <2>3. GivesUp(s)
    BY <2>1, <2>2, TickReconnecting DEF Attempts
  <2> QED
    BY <2>1, <2>2, <2>3 DEF VanInv, GivesUp, Session
<1> QED
  BY <1>1, PoolInvariant, PTL DEF PoolSpec, FailsOnlyAfterBudget

--------------------------------------------------------------------------------
(***************************************************************************)
(* The pool implements the contract.                                       *)
(***************************************************************************)
LEMMA LinkTypes ==
  ASSUME NEW s \in Session
  PROVE  /\ LinkOf(s) \in {"none", "up", "retrying", "down"}
         /\ s.attempts <= MaxAttempts => LeftOf(s) \in 0 .. MaxAttempts
         /\ s.state # "Reconnecting" => LeftOf(s) \in 0 .. MaxAttempts
BY DEF LinkOf, LeftOf, Session

\* What a pass does to one record is a move of its link.
LEMMA PassMoves ==
  ASSUME NEW s, NEW t, NEW a, NEW g \in Nat, VanInv(s, t, a, g)
  PROVE  LET u == TickOne(s)
             link == LinkOf(s)   left == LeftOf(s)
             to == LinkOf(u)     rest == LeftOf(u)
         IN \/ to = link /\ rest = left
            \/ link = "up" /\ to = "retrying" /\ rest = MaxAttempts
            \/ g > Slack /\ link = "up" /\ to = "down" /\ rest = MaxAttempts
            \/ link = "retrying" /\ left > 0 /\ to = "up" /\ rest = MaxAttempts
            \/ link = "retrying" /\ left > 0 /\ to = "retrying" /\ rest = left - 1
            \/ link = "retrying" /\ left = 0 /\ to = "down" /\ rest = 0
<1>1. CASE s.state = "Connected"
  <2>1. CASE ~KeepaliveDue(s)
    BY <1>1, <2>1, TickConnected
  <2>2. CASE KeepaliveDue(s) /\ Answers(s.device)
    BY <1>1, <2>2, TickConnected DEF LinkOf, LeftOf
  <2>3. CASE KeepaliveDue(s) /\ ~Answers(s.device)
    BY <1>1, <2>3, TickConnected DEF LinkOf, LeftOf
  <2> QED
    BY <2>1, <2>2, <2>3
<1>2. CASE s.state = "Reconnecting"
  <2>1. LinkOf(s) = "retrying" /\ LeftOf(s) = MaxAttempts - s.attempts
        /\ s.attempts \in 0 .. MaxAttempts
    BY <1>2 DEF LinkOf, LeftOf, VanInv
  <2>2. CASE ~ReconnectDue(s)
    BY <1>2, <2>2, TickReconnecting
  <2>3. CASE ReconnectDue(s) /\ GivesUp(s)
    <3>1. TickOne(s).state = "Failed" /\ TickOne(s).attempts = s.attempts + 1
      BY <1>2, <2>3, TickReconnecting
    <3>2. LinkOf(TickOne(s)) = "down" /\ LeftOf(TickOne(s)) = 0
      BY <2>1, <3>1 DEF LinkOf, LeftOf
    <3> QED
      BY <2>1, <2>3, <3>2 DEF GivesUp
  <2>4. CASE Attempts(s) /\ Answers(s.device)
    <3>1. TickOne(s).state = "Connected"
      BY <1>2, <2>4, TickReconnecting
    <3> QED
      BY <2>1, <2>4, <3>1 DEF LinkOf, LeftOf, Attempts, GivesUp
  <2>5. CASE Attempts(s) /\ ~Answers(s.device)
    <3>1. TickOne(s).state = "Reconnecting" /\ TickOne(s).attempts = s.attempts + 1
      BY <1>2, <2>5, TickReconnecting
    <3> QED
      BY <2>1, <2>5, <3>1 DEF LinkOf, LeftOf, Attempts, GivesUp
  <2> QED
    BY <2>2, <2>3, <2>4, <2>5 DEF Attempts
<1>3. CASE s.state \notin {"Connected", "Reconnecting"}
  BY <1>3, TickOther
<1> QED
  BY <1>1, <1>2, <1>3

LEMMA StepImplements ==
  ASSUME PoolInv, PoolInv', [PoolNext]_poolVars
  PROVE  [Contract!Next]_(Contract!linkVars)
<1> DEFINE lk == [v \in Vans |-> LinkOf(sessions[v])]
           lf == [v \in Vans |-> LeftOf(sessions[v])]
<1>1. CASE \E v \in Vans, device \in Devices : Connect(v, device)
  <2>1. PICK v \in Vans, device \in Devices : Connect(v, device)
    BY <1>1
  <2> DEFINE base == IF Answers(device) THEN Connected(device) ELSE Refused(device)
             fresh == NotifyEvent(base, base.state)
  <2>2. LinkOf(fresh) \in {"up", "down"} /\ LeftOf(fresh) = MaxAttempts
    BY DEF Connected, Refused, LinkOf, LeftOf, NotifyEvent
  <2>3. sessions' = [sessions EXCEPT ![v] = fresh]
    BY <2>1 DEF Connect
  <2> HIDE DEF base, fresh
  <2>4. lk' = [lk EXCEPT ![v] = LinkOf(fresh)] /\ lf' = [lf EXCEPT ![v] = MaxAttempts]
    BY <2>2, <2>3 DEF PoolInv
  <2>5. Contract!Open(v)
    BY <2>1, <2>2, <2>4 DEF Contract!Open, Connect
  <2> QED
    BY <2>5 DEF Contract!Next
<1>2. CASE \E v \in Vans : Disconnect(v)
  <2>1. PICK v \in Vans : Disconnect(v)
    BY <1>2
  <2> DEFINE gone == NotifyEvent(NoSession(sessions[v].device), "Disconnected")
  <2>2. LinkOf(gone) = "none" /\ LeftOf(gone) = MaxAttempts
    BY DEF NoSession, NotifyEvent, LinkOf, LeftOf
  <2>3. sessions' = [sessions EXCEPT ![v] = gone] /\ sessions[v].state # "Absent"
    BY <2>1 DEF Disconnect
  <2> HIDE DEF gone
  <2>4. lk' = [lk EXCEPT ![v] = "none"] /\ lf' = [lf EXCEPT ![v] = MaxAttempts]
    BY <2>2, <2>3 DEF PoolInv
  <2>5. lk[v] # "none"
    BY <2>3 DEF LinkOf
  <2>6. Contract!Close(v)
    BY <2>1, <2>4, <2>5 DEF Contract!Close, Disconnect
  <2> QED
    BY <2>6 DEF Contract!Next
<1>3. CASE \E v \in Vans : Command(v)
  <2>1. PICK v \in Vans : Command(v)
    BY <1>3
  <2>2. \A u \in Vans : /\ sessions'[u].state = sessions[u].state
                        /\ sessions'[u].attempts = sessions[u].attempts
    BY <2>1 DEF Command, PoolInv, Session
  <2>3. UNCHANGED <<lk, lf>>
    BY <2>2 DEF LinkOf, LeftOf
  <2> QED
    BY <2>1, <2>3 DEF Contract!linkVars, Command
<1>4. CASE Tick
  <2>1. \A v \in Vans : /\ VanInv(sessions[v], tries[v], answered[v], gap)
                        /\ VanInv(sessions'[v], tries'[v], answered'[v], gap')
    BY DEF PoolInv
  <2>2. \A v \in Vans : sessions'[v] = TickOne(sessions[v])
    BY <1>4 DEF Tick
  <2>3. \A v \in Vans : lk'[v] = LinkOf(TickOne(sessions[v]))
                        /\ lf'[v] = LeftOf(TickOne(sessions[v]))
    BY <2>2
  <2>4. \A v \in Vans : lk'[v] \in {"none", "up", "retrying", "down"}
                        /\ lf'[v] \in 0 .. MaxAttempts
    <3> TAKE v \in Vans
    <3>1. sessions'[v] \in Session
      BY <2>1 DEF VanInv
    <3>2. sessions'[v].state = "Reconnecting" => sessions'[v].attempts <= MaxAttempts
      BY <2>1 DEF VanInv
    <3> QED
      BY <3>1, <3>2 DEF LinkOf, LeftOf, Session
  <2>5. \A v \in Vans : \/ Contract!Keep(v)
                        \/ Contract!Lose(v)
                        \/ Contract!Abandon(v)
                        \/ Contract!Restore(v)
                        \/ Contract!UseTry(v)
                        \/ Contract!GiveUp(v)
    <3> TAKE v \in Vans
    <3>1. VanInv(sessions[v], tries[v], answered[v], gap) /\ gap \in Nat
      BY <2>1 DEF PoolInv, Slack
    <3> QED
      BY <2>3, <3>1, PassMoves
      DEF Contract!Keep, Contract!Lose, Contract!Abandon, Contract!Restore,
          Contract!UseTry, Contract!GiveUp
  <2>6. (gap > Slack)' = FALSE
    BY <1>4 DEF Tick, Slack
  <2>7. Contract!Round
    BY <2>4, <2>5, <2>6 DEF Contract!Round
  <2> QED
    BY <2>7 DEF Contract!Next
<1>5. CASE \E d \in 1 .. MaxLag : Elapse(d)
  <2>1. \A u \in Vans : /\ sessions'[u].state = sessions[u].state
                        /\ sessions'[u].attempts = sessions[u].attempts
    <3> TAKE u \in Vans
    <3>1. PICK d \in 1 .. MaxLag : sessions' = [v \in Vans |-> Aged(sessions[v], d)]
      BY <1>5 DEF Elapse
    <3>2. sessions[u] \in Session /\ sessions'[u] = Aged(sessions[u], d)
      BY <3>1 DEF PoolInv
    <3>3. /\ Aged(sessions[u], d).state = sessions[u].state
          /\ Aged(sessions[u], d).attempts = sessions[u].attempts
      BY <3>2 DEF Aged, Session
    <3> QED
      BY <3>2, <3>3
  <2>2. UNCHANGED <<lk, lf>>
    BY <2>1 DEF LinkOf, LeftOf
  <2>3. (gap > Slack)' = (gap > Slack) \/ (gap > Slack)' = TRUE
    <3>1. CASE gap' > Slack
      BY <3>1 DEF Slack
    <3>2. CASE ~(gap' > Slack)
      <4>1. ~(gap > Slack)
        BY <1>5, <3>2 DEF Elapse, AtMost, PoolInv, Slack
      <4> QED
        BY <3>2, <4>1 DEF Slack
    <3> QED
      BY <3>1, <3>2
  <2> QED
    BY <2>2, <2>3 DEF Contract!linkVars, Contract!Delay, Contract!Next
<1>6. CASE \E device \in Devices : DeviceChanges(device)
  BY <1>6 DEF DeviceChanges, Contract!linkVars
<1>7. CASE UNCHANGED poolVars
  BY <1>7 DEF poolVars, Contract!linkVars
<1> QED
  BY <1>1, <1>2, <1>3, <1>4, <1>5, <1>6, <1>7 DEF PoolNext

\* The session pool implements the contract: for any fleet and any limits, an
\* outage has MaxAttempts tries, and is given up only when they are used or when the
\* pass that met it came more than Slack after the one before.
THEOREM PoolKeepsContract == PoolSpec => KeepsContract
<1>1. PoolInit => Contract!Init
  <2> SUFFICES ASSUME PoolInit PROVE Contract!Init
    OBVIOUS
  <2>1. \A v \in Vans : sessions[v].state = "Absent"
    <3>1. PICK device \in Devices : sessions = [v \in Vans |-> NoSession(device)]
      BY DEF PoolInit
    <3> QED
      BY <3>1 DEF NoSession
  <2> QED
    BY <2>1 DEF PoolInit, Contract!Init, LinkOf, LeftOf, Slack
<1>2. PoolInv /\ PoolInv' /\ [PoolNext]_poolVars
        => [Contract!Next]_(Contract!linkVars)
  BY StepImplements
<1> QED
  BY <1>1, <1>2, PoolInvariant, PTL DEF PoolSpec, KeepsContract, Contract!Spec

--------------------------------------------------------------------------------
(***************************************************************************)
(* The gateway's view of the pool.                                         *)
(***************************************************************************)
\* Module Gateway keeps of a record whether there is one and whether it is
\* connected.
SeenAs(s) == CASE s.state = "Absent" -> "none"
               [] s.state = "Connected" -> "up"
               [] OTHER -> "down"
seen == [v \in Vans |-> SeenAs(sessions[v])]

\* What that module lets its handlers and its tick do to this view: an adopted van
\* is up or down, a deleted one has none, a tick makes and ends no session, and
\* nothing else is seen.
GatewaySeesThePool ==
  [][/\ \A v \in Vans, device \in Devices :
          Connect(v, device) => \E state \in {"up", "down"} : seen' = [seen EXCEPT ![v] = state]
     /\ \A v \in Vans : Disconnect(v) => seen' = [seen EXCEPT ![v] = "none"]
     /\ Tick => seen' \in {s \in [Vans -> {"none", "up", "down"}] :
                             \A v \in Vans : s[v] = "none" <=> seen[v] = "none"}
     /\ \/ \E v \in Vans : Command(v)
        \/ \E d \in 1 .. MaxLag : Elapse(d)
        \/ \E device \in Devices : DeviceChanges(device)
        => UNCHANGED seen]_poolVars

\* The pool does to a session only what module Gateway allows for.
THEOREM PoolIsAsTheGatewaySeesIt == PoolSpec => GatewaySeesThePool
<1> DEFINE Step ==
      /\ \A v \in Vans, device \in Devices :
           Connect(v, device) => \E state \in {"up", "down"} : seen' = [seen EXCEPT ![v] = state]
      /\ \A v \in Vans : Disconnect(v) => seen' = [seen EXCEPT ![v] = "none"]
      /\ Tick => seen' \in {s \in [Vans -> {"none", "up", "down"}] :
                              \A v \in Vans : s[v] = "none" <=> seen[v] = "none"}
      /\ \/ \E v \in Vans : Command(v)
         \/ \E d \in 1 .. MaxLag : Elapse(d)
         \/ \E device \in Devices : DeviceChanges(device)
         => UNCHANGED seen
<1>1. ASSUME PoolInv PROVE Step
  <2>1. sessions \in [Vans -> Session]
    BY <1>1 DEF PoolInv
  <2>2. ASSUME NEW v \in Vans, NEW device \in Devices, Connect(v, device)
        PROVE  \E state \in {"up", "down"} : seen' = [seen EXCEPT ![v] = state]
    <3>1. PICK base \in {Connected(device), Refused(device)} :
            sessions' = [sessions EXCEPT ![v] = NotifyEvent(base, base.state)]
      BY <2>2 DEF Connect
    <3> DEFINE fresh == NotifyEvent(base, base.state)
    <3>2. SeenAs(fresh) \in {"up", "down"}
      BY DEF Connected, Refused, SeenAs, NotifyEvent
    <3>3. seen' = [seen EXCEPT ![v] = SeenAs(fresh)]
      BY <2>1, <3>1 DEF seen
    <3> QED
      BY <3>2, <3>3
  <2>3. ASSUME NEW v \in Vans, Disconnect(v) PROVE seen' = [seen EXCEPT ![v] = "none"]
    <3>1. PICK gone : /\ gone = NotifyEvent(NoSession(sessions[v].device), "Disconnected")
                      /\ sessions' = [sessions EXCEPT ![v] = gone]
      BY <2>3 DEF Disconnect
    <3>2. SeenAs(gone) = "none"
      BY <3>1 DEF NoSession, NotifyEvent, SeenAs
    <3> QED
      BY <2>1, <3>1, <3>2 DEF seen
  <2>4. ASSUME Tick
        PROVE  seen' \in {s \in [Vans -> {"none", "up", "down"}] : \A v \in Vans : s[v] = "none" <=> seen[v] = "none"}
    <3>1. ASSUME NEW v \in Vans
          PROVE  seen'[v] \in {"none", "up", "down"} /\ (seen'[v] = "none" <=> seen[v] = "none")
      <4>1. PICK s : s = sessions[v] /\ sessions'[v] = TickOne(s)
        BY <2>4 DEF Tick
      <4>2. VanInv(s, tries[v], answered[v], gap) /\ gap \in Nat
        BY <1>1, <4>1 DEF PoolInv, Slack
      <4>3. LinkOf(TickOne(s)) = "none" <=> LinkOf(s) = "none"
        BY <4>2, PassMoves
      <4>4. \A r : (LinkOf(r) = "none" <=> SeenAs(r) = "none") /\ SeenAs(r) \in {"none", "up", "down"}
        BY DEF LinkOf, SeenAs
      <4>5. seen'[v] = SeenAs(TickOne(s)) /\ seen[v] = SeenAs(s)
        BY <4>1 DEF seen
      <4> QED
        BY <4>3, <4>4, <4>5
    <3> QED
      BY <3>1 DEF seen
  <2>5. ASSUME \A v \in Vans : sessions'[v].state = sessions[v].state PROVE UNCHANGED seen
    BY <2>5 DEF seen, SeenAs
  <2>6. ASSUME NEW v \in Vans, Command(v) PROVE UNCHANGED seen
    <3>1. sessions' = [sessions EXCEPT ![v].idle = 0]
      BY <2>6 DEF Command
    <3>2. \A u \in Vans : sessions'[u].state = sessions[u].state
      BY <2>1, <3>1 DEF Session
    <3> QED
      BY <2>5, <3>2
  <2>7. ASSUME NEW d \in 1 .. MaxLag, Elapse(d) PROVE UNCHANGED seen
    <3>1. ASSUME NEW u \in Vans PROVE sessions'[u].state = sessions[u].state
      <4>1. sessions[u] \in Session /\ sessions'[u] = Aged(sessions[u], d)
        BY <2>1, <2>7 DEF Elapse
      <4> QED
        BY <4>1 DEF Aged, Session
    <3> QED
      BY <2>5, <3>1
  <2>8. ASSUME NEW device \in Devices, DeviceChanges(device) PROVE UNCHANGED seen
    BY <2>8 DEF DeviceChanges, seen
  <2> QED
    BY <2>2, <2>3, <2>4, <2>6, <2>7, <2>8
<1>2. PoolInv /\ [PoolNext]_poolVars => [Step]_poolVars
  BY <1>1
<1> QED
  BY <1>2, PoolInvariant, PTL DEF PoolSpec, GatewaySeesThePool
================================================================================
