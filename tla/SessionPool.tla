------------------------------ MODULE SessionPool ------------------------------
(***************************************************************************)
(* The fleet gateway's CASE session pool, src/src/gateway/SessionPool.cpp, *)
(* with the calls CommandRelay.cpp makes into it.                          *)
(*                                                                         *)
(* The gateway is one thread: a loop that serves HTTP requests and, once a *)
(* second, calls tick(now).  The pool keeps one record per van and drives  *)
(* it through keepalives, backoff and reconnection.  Every driver call     *)
(* blocks the thread, so time may pass by any amount between two handlers. *)
(*                                                                         *)
(* Time points are kept as distances to the present: `idle' is             *)
(* now - last_activity, `quiet' is now - last_keepalive and `wait' is      *)
(* next_reconnect - now.  The code only ever compares a distance with one  *)
(* limit, so each is kept up to that limit, which makes the state finite   *)
(* without bounding the clock.                                             *)
(***************************************************************************)
EXTENDS Integers

CONSTANTS
  Vans,           \* van ids
  Devices,        \* Matter node ids behind the vans
  Keepalive,      \* keepalive_interval_ (60 s)
  SessionTimeout, \* session_timeout_    (300 s)
  Base,           \* reconnect_base_     (5 s)
  Cap,            \* reconnect_max_      (300 s)
  MaxAttempts,    \* max_reconnect_attempts_ (10)
  MaxLag          \* bound: the longest time between two handlers

ASSUME IntervalsAssumption ==
  /\ Keepalive \in Nat \ {0}
  /\ SessionTimeout \in Nat \ {0}
  /\ Base \in Nat \ {0}
  /\ Cap \in Nat \ {0}
  /\ MaxAttempts \in Nat
  /\ MaxLag \in Nat \ {0}

\* The constructor's defaults respect this order (60 s and 300 s).
ASSUME KeepaliveFirst == Keepalive <= SessionTimeout

VARIABLES
  reachable,  \* environment: the devices chip-tool gets an answer from
  sessions,   \* sessions_: the record of each van, "Absent" when there is none
  tries,      \* history: establishCASE calls made since the van was last up
  answered,   \* history: time since the pool last got an answer for the van
  gap         \* history: time since the last pass

poolVars == <<reachable, sessions, tries, answered, gap>>

--------------------------------------------------------------------------------
States == {"Absent", "Disconnected", "Connected", "Reconnecting", "Failed"}

AtMost(a, limit) == IF a < limit THEN a ELSE limit
AtLeast(a, limit) == IF a > limit THEN a ELSE limit

\* VanSession.  "Connecting" lives only inside connect(), which no one observes.
Waits == {w \in Int : w <= AtLeast(Base, Cap)}

\* (`told' is history: the state the van's observers were told of last.)
Session ==
  [state : States, device : Devices, idle : 0 .. SessionTimeout,
   quiet : 0 .. Keepalive, wait : Waits, attempts : 0 .. MaxAttempts + 1,
   told : States]

\* A van the map has no entry for; but for `told' the other fields mean nothing.
NoSession(device) ==
  [state |-> "Absent", device |-> device, idle |-> 0, quiet |-> 0,
   wait |-> 0, attempts |-> 0, told |-> "Absent"]

\* notifyEvent: each place that sets a state makes its own call, with a state of
\* its own choice.
NotifyEvent(s, state) == [s EXCEPT !.told = state]

\* calculateBackoff: the base doubled per attempt after the first, capped.
Backoff(attempt) == AtMost(Base * 2 ^ (attempt - 1), Cap)

\* establishCASE and readAttribute succeed when the device answers in time.
Answers(device) == device \in reachable

\* The longest time between two passes that keeps the idle check out of the way of
\* the keepalive (240 s with the defaults).
Slack == SessionTimeout - Keepalive

--------------------------------------------------------------------------------
PoolInit ==
  /\ reachable \in SUBSET Devices
  /\ \E device \in Devices : sessions = [v \in Vans |-> NoSession(device)]
  /\ tries = [v \in Vans |-> 0]
  /\ answered = [v \in Vans |-> 0]
  /\ gap = 0

\* connect(): one driver call decides; the record of an earlier session of the
\* van is overwritten whatever its state was.
Connected(device) ==
  [state |-> "Connected", device |-> device, idle |-> 0, quiet |-> 0,
   wait |-> 0, attempts |-> 0, told |-> "Absent"]

Refused(device) ==
  [state |-> "Failed", device |-> device, idle |-> 0, quiet |-> 0,
   wait |-> Base, attempts |-> 0, told |-> "Absent"]

Connect(v, device) ==
  LET fresh == IF Answers(device) THEN Connected(device) ELSE Refused(device)
  IN /\ sessions' = [sessions EXCEPT ![v] = NotifyEvent(fresh, fresh.state)]
     /\ tries' = [tries EXCEPT ![v] = 0]
     /\ answered' = [answered EXCEPT ![v] = 0]
     /\ UNCHANGED <<reachable, gap>>

\* disconnect(): the observers hear "Disconnected", then the record is erased.
Disconnect(v) ==
  /\ sessions[v].state # "Absent"
  /\ sessions' = [sessions EXCEPT
                    ![v] = NotifyEvent(NoSession(sessions[v].device), "Disconnected")]
  /\ UNCHANGED <<reachable, tries, answered, gap>>

IsConnected(v) == sessions[v].state = "Connected"

\* CommandRelay's four operations: refused unless connected, and the activity
\* is recorded whether or not the device answered.
Command(v) ==
  /\ IsConnected(v)
  /\ sessions' = [sessions EXCEPT ![v].idle = 0]
  /\ UNCHANGED <<reachable, tries, answered, gap>>

--------------------------------------------------------------------------------
(***************************************************************************)
(* tick(): what one pass does to one record.  A pass uses the time it      *)
(* began at for every van, so the whole pass is one step.                  *)
(***************************************************************************)
\* (Mutant: recent activity of any kind postpones the keepalive.)
KeepaliveDueWhenIdle(s) == s.state = "Connected" /\ s.idle >= Keepalive

KeepaliveDue(s) == s.state = "Connected" /\ s.quiet >= Keepalive

\* (Mutant: an answer to the keepalive does not count as activity.)
SendKeepaliveIdle(s) ==
  IF Answers(s.device)
  THEN [s EXCEPT !.quiet = 0]
  ELSE NotifyEvent([s EXCEPT !.quiet = 0, !.state = "Reconnecting",
                             !.wait = Base, !.attempts = 0], "Reconnecting")

SendKeepalive(s) ==
  IF Answers(s.device)
  THEN [s EXCEPT !.quiet = 0, !.idle = 0]
  ELSE NotifyEvent([s EXCEPT !.quiet = 0, !.state = "Reconnecting",
                             !.wait = Base, !.attempts = 0], "Reconnecting")

\* The idle check follows the keepalive and does not look at its outcome.
\* (Mutant: the idle timeout forgets to notify.)
CheckIdleSilently(s) ==
  IF s.idle >= SessionTimeout THEN [s EXCEPT !.state = "Disconnected"] ELSE s

CheckIdle(s) ==
  IF s.idle >= SessionTimeout
  THEN NotifyEvent([s EXCEPT !.state = "Disconnected"], "Disconnected")
  ELSE s

ReconnectDue(s) == s.state = "Reconnecting" /\ s.wait = 0

\* (Mutant: the limit compared after the attempt is counted.)
GivesUpEarly(s) == s.attempts + 1 >= MaxAttempts

GivesUp(s) == s.attempts >= MaxAttempts

AttemptReconnect(s) ==
  IF GivesUp(s)
  THEN NotifyEvent([s EXCEPT !.state = "Failed", !.attempts = s.attempts + 1], "Failed")
  ELSE IF Answers(s.device)
  THEN NotifyEvent([s EXCEPT !.state = "Connected", !.idle = 0, !.quiet = 0,
                             !.attempts = 0], "Connected")
  ELSE [s EXCEPT !.attempts = s.attempts + 1, !.wait = Backoff(s.attempts + 1)]

TickOne(s) ==
  CASE s.state = "Connected" ->
         CheckIdle(IF KeepaliveDue(s) THEN SendKeepalive(s) ELSE s)
    [] ReconnectDue(s) -> AttemptReconnect(s)
    [] OTHER -> s

\* Whether a pass calls establishCASE, and whether it gets any answer, for s.
Attempts(s) == ReconnectDue(s) /\ ~GivesUp(s)
Heard(s) == (KeepaliveDue(s) \/ Attempts(s)) /\ Answers(s.device)
\* (The count of tries stops one past the budget, where AttemptsAreCalls fails.)
TriesAfter(t, s) ==
  IF Heard(s) THEN 0 ELSE IF Attempts(s) THEN AtMost(t + 1, MaxAttempts + 1) ELSE t

Tick ==
  /\ sessions' = [v \in Vans |-> TickOne(sessions[v])]
  /\ tries' = [v \in Vans |-> TriesAfter(tries[v], sessions[v])]
  /\ answered' = [v \in Vans |-> IF Heard(sessions[v]) THEN 0 ELSE answered[v]]
  /\ gap' = 0
  /\ UNCHANGED reachable

--------------------------------------------------------------------------------
(***************************************************************************)
(* The environment: time, and devices that come and go.                    *)
(***************************************************************************)
\* A distance no code reads in a record's state is left as it is.
Aged(s, d) ==
  CASE s.state = "Connected" ->
         [s EXCEPT !.idle = AtMost(s.idle + d, SessionTimeout),
                   !.quiet = AtMost(s.quiet + d, Keepalive)]
    [] s.state = "Reconnecting" -> [s EXCEPT !.wait = AtLeast(s.wait - d, 0)]
    [] OTHER -> s

Elapse(d) ==
  /\ sessions' = [v \in Vans |-> Aged(sessions[v], d)]
  /\ answered' = [v \in Vans |-> AtMost(answered[v] + d, Keepalive)]
  /\ gap' = AtMost(gap + d, Slack + 1)
  /\ UNCHANGED <<reachable, tries>>

DeviceChanges(device) ==
  /\ \/ reachable' = reachable \cup {device}
     \/ reachable' = reachable \ {device}
  /\ UNCHANGED <<sessions, tries, answered, gap>>

PoolNext ==
  \/ \E v \in Vans, device \in Devices : Connect(v, device)
  \/ \E v \in Vans : Disconnect(v)
  \/ \E v \in Vans : Command(v)
  \/ Tick
  \/ \E d \in 1 .. MaxLag : Elapse(d)
  \/ \E device \in Devices : DeviceChanges(device)

PoolSpec == PoolInit /\ [][PoolNext]_poolVars

\* GatewayMain's loop ticks for as long as it runs, and time passes.
PoolFairness == WF_poolVars(Tick) /\ WF_poolVars(\E d \in 1 .. MaxLag : Elapse(d))

FairPoolSpec == PoolSpec /\ PoolFairness

--------------------------------------------------------------------------------
(***************************************************************************)
(* Properties.                                                             *)
(***************************************************************************)
PoolTypeOK ==
  /\ reachable \in SUBSET Devices
  /\ sessions \in [Vans -> Session]
  /\ tries \in [Vans -> 0 .. MaxAttempts]
  /\ answered \in [Vans -> 0 .. Keepalive]
  /\ gap \in 0 .. Slack + 1

\* An observer of onSessionEvent that keeps the last state it heard is never
\* behind the pool: all seven calls of notifyEvent are there, tell the state that
\* was set, and those of one pass come in the order in which states were set.
ObserversInStep ==
  \A v \in Vans : IF sessions[v].state = "Absent"
                  THEN sessions[v].told \in {"Absent", "Disconnected"}
                  ELSE sessions[v].told = sessions[v].state

\* The attempts counter counts the calls really made in the outage, so that a
\* van that does not answer costs at most MaxAttempts blocking driver calls.
AttemptsAreCalls ==
  \A v \in Vans :
    /\ sessions[v].state = "Reconnecting" => sessions[v].attempts = tries[v]
    /\ sessions[v].state = "Connected" => tries[v] = 0
    /\ tries[v] <= MaxAttempts

\* Commands count as activity without an answer, yet what the idle check reads
\* never runs ahead of the keepalive clock: a connected session that looks idle
\* always has its keepalive due in the same pass.
IdleNeedsKeepalive ==
  \A v \in Vans : IsConnected(v) => \/ sessions[v].idle <= sessions[v].quiet
                                   \/ sessions[v].quiet = Keepalive

\* A pass closes a session as idle only when the van failed to answer in it; a
\* van that answers is never disconnected for being quiet.
IdleOnlyWhenDead ==
  [][Tick => \A v \in Vans :
        IsConnected(v) /\ sessions'[v].state = "Disconnected"
          => ~Answers(sessions[v].device)]_poolVars

\* After a pass the pool has heard from every van it calls connected within the
\* keepalive interval, whatever commands were sent to the van meanwhile.
FreshAfterTick ==
  [][Tick => \A v \in Vans :
        sessions'[v].state = "Connected" => answered'[v] < Keepalive]_poolVars

\* A pass reports an outage as failed only after every attempt was made.
FailsOnlyAfterBudget ==
  [][Tick => \A v \in Vans :
        sessions[v].state # "Failed" /\ sessions'[v].state = "Failed"
          => tries[v] = MaxAttempts]_poolVars

\* A van that stays silent does not stay connected, even when commands keep
\* touching its session.
SilenceIsNoticed ==
  \A v \in Vans : (IsConnected(v) /\ ~Answers(sessions[v].device))
                     ~> (~IsConnected(v) \/ Answers(sessions[v].device))

\* A van that answers again while attempts are left gets its session back.
AnsweringVanRecovers ==
  \A v \in Vans :
    (/\ sessions[v].state = "Reconnecting"
     /\ sessions[v].attempts < MaxAttempts
     /\ Answers(sessions[v].device))
      ~> (\/ sessions[v].state \in {"Connected", "Absent"}
          \/ ~Answers(sessions[v].device))

--------------------------------------------------------------------------------
(***************************************************************************)
(* The pool keeps the contract: a record's state, and the attempts it has  *)
(* left, are a link's, and a round is late when the idle check may have    *)
(* come due before the keepalive was sent.                                 *)
(***************************************************************************)
LinkOf(s) == CASE s.state = "Absent" -> "none"
               [] s.state = "Connected" -> "up"
               [] s.state = "Reconnecting" -> "retrying"
               [] OTHER -> "down"

LeftOf(s) == CASE s.state = "Reconnecting" -> MaxAttempts - s.attempts
               [] s.state = "Failed" /\ s.attempts > 0 -> 0
               [] OTHER -> MaxAttempts

Contract == INSTANCE SessionContract
              WITH Budget <- MaxAttempts,
                   link <- [v \in Vans |-> LinkOf(sessions[v])],
                   left <- [v \in Vans |-> LeftOf(sessions[v])],
                   late <- gap > Slack

\* An outage gets all its attempts, however failed keepalives, backoff, commands and
\* new connections are interleaved, unless the pool was not ticked for longer than
\* Slack; then a van that does not answer may be closed at once.
KeepsContract == Contract!Spec
================================================================================
