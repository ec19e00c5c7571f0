---------------------------- MODULE HardwareBridge ----------------------------
(***************************************************************************)
(* The bridge to real devices (src/src/hw): HardwareNode.cpp asks          *)
(* ChipToolDriver.cpp, which runs one chip-tool process for each command   *)
(* through ProcessManager.cpp, waits for it, and has                       *)
(* ChipToolOutputParser.cpp tell from exit code and output what happened.  *)
(* Subscriptions are processes of their own, which tick() polls.           *)
(*                                                                         *)
(* One thread makes all calls.  Between any two of its system calls the    *)
(* children may end, ignore SIGTERM or hang, and a process id whose child  *)
(* has been waited for may be given to a process of somebody else.  Of an  *)
(* output only matters whether the text the parser looks for is in it.     *)
(***************************************************************************)
EXTENDS Integers, FiniteSets

CONSTANTS
  Pids,     \* process ids
  MaxSubs,  \* bound: subscriptions ever started
  Timeout   \* command_timeout of the driver

ASSUME BridgeAssumption == MaxSubs \in Nat /\ Timeout \in Nat

\* The ProcessManager of commands, and one in each SubscriptionHandle.
Command == 0
Managers == 0 .. MaxSubs
NoPid == -1
ASSUME PidAssumption == NoPid \notin Pids

\* The operations; those of a HardwareNode that ask for a commissioned device.
NodeKinds == {"case", "read", "write", "invoke"}
Kinds == NodeKinds \cup {"pair", "unpair", "fabrics", "remove", "version", "help"}

VARIABLES
  table,         \* the kernel's processes: [is, killed, exit]
  mgr,           \* each ProcessManager: [pid, running, age], age since start_time_
  subs,          \* subscriptions_: the handles
  nextSub,       \* next_sub_id_
  commissioned,  \* commissioned_ of the HardwareNode
  thread,        \* the call in progress: [at, why, who, left, ended]
  kind,          \* what the last command is or was for
  reply          \* its result: the driver's success, what HardwareNode tells its
                 \* caller, and whether the device did it: [ok, told, done]

bridgeVars == <<table, mgr, subs, nextSub, commissioned, thread, kind, reply>>

\* How a process ended: its exit code, -1 for a signal; whether the text is in
\* its output; and whether the device did what was asked.  chip-tool exits with
\* 0 only then.
Exits == {e \in [code : {-1, 0, 1}, says : BOOLEAN, done : BOOLEAN] : e.code = 0 => e.done}
Alive == [code |-> -1, says |-> FALSE, done |-> FALSE]

Process(is) == [is |-> is, killed |-> FALSE, exit |-> Alive]
Idle == [at |-> "idle", why |-> "command", who |-> Command, left |-> {}, ended |-> {}]
NoReply == [ok |-> FALSE, told |-> FALSE, done |-> FALSE]
Unused == [pid |-> NoPid, running |-> FALSE, age |-> 0]
Limit(m) == IF m = Command THEN Timeout ELSE 0

\* The process with the pid of thread.who.
Mine == mgr[thread.who].pid
Child(p) == p # NoPid /\ table[p].is \in {"child", "zombie"}

BridgeInit ==
  /\ table = [p \in Pids |-> Process("free")]
  /\ mgr = [m \in Managers |-> Unused]
  /\ subs = {} /\ nextSub = 1
  /\ commissioned = FALSE
  /\ thread = Idle
  /\ kind = "help" /\ reply = NoReply

--------------------------------------------------------------------------------
(* The processes.                                                            *)

\* A child ends, by itself or because of a signal.
ChildEnds(p) ==
  /\ table[p].is = "child"
  /\ \E e \in Exits : /\ table[p].killed => e.code = -1
                      /\ table' = [table EXCEPT ![p].is = "zombie", ![p].exit = e]
  /\ UNCHANGED <<mgr, subs, nextSub, commissioned, thread, kind, reply>>

\* Another program gets, or gives back, a process id.
Others(p) ==
  /\ table[p].is \in {"free", "other"}
  /\ table' = [table EXCEPT ![p] = Process(IF table[p].is = "free" THEN "other" ELSE "free")]
  /\ UNCHANGED <<mgr, subs, nextSub, commissioned, thread, kind, reply>>

\* Time passes for the processes that run; past its limit it is as good as at it.
Elapse ==
  /\ \E m \in Managers : mgr[m].running /\ mgr[m].age <= Limit(m)
  /\ mgr' = [m \in Managers |->
               IF mgr[m].running /\ mgr[m].age <= Limit(m) THEN [mgr[m] EXCEPT !.age = @ + 1] ELSE mgr[m]]
  /\ UNCHANGED <<table, subs, nextSub, commissioned, thread, kind, reply>>

--------------------------------------------------------------------------------
(* ProcessManager.                                                           *)

\* start() and spawnProcess(): refused while running_; pipe() or fork() may fail.
Spawn(m, p) ==
  /\ ~mgr[m].running /\ table[p].is = "free"
  /\ table' = [table EXCEPT ![p] = Process("child")]
  /\ mgr' = [mgr EXCEPT ![m] = [pid |-> p, running |-> TRUE, age |-> 0]]

\* The table after a waitpid() that found process p ended.
Reaped(p) == [table EXCEPT ![p] = Process("free")]

\* The table after a signal that cannot be caught; it kills whoever has the id.
Signalled(p) ==
  CASE table[p].is = "child" -> [table EXCEPT ![p].killed = TRUE]
    [] table[p].is = "other" -> [table EXCEPT ![p] = Process("free")]
    [] OTHER                 -> table

\* What the parser, or the driver where it asks for the exit code alone, makes
\* of an output.  The list of fabrics is handed on as it is printed.
Confirmed(e) == e.code = 0 /\ e.says
Success(k, e) ==
  CASE k \in {"pair", "read", "write", "invoke"} -> Confirmed(e)
    [] k \in {"case", "unpair", "remove"} -> e.code = 0
    [] OTHER -> TRUE

\* HardwareNode makes an error of a failure, except invokeCommand(), which passes
\* status_code on, 0 by default, and never looks at success.
Told(k, e) == k = "invoke" \/ Success(k, e)

\* The caller gets the result of a command: a pairing that succeeded commissions
\* the node.  A version that says nothing is asked for with --help.
Answer(e) ==
  /\ reply' = [ok |-> Success(kind, e), told |-> Told(kind, e), done |-> e.done]
  /\ commissioned' = (commissioned \/ (kind = "pair" /\ Success(kind, e)))
  /\ IF kind = "version" /\ e.code # 0 /\ ~e.says
     THEN thread' = [Idle EXCEPT !.at = "again"]
     ELSE thread' = Idle

\* poll() has an output for manager thread.who: a command is answered, tick()
\* notes the handle of a subscription and goes on.
Ended(e) ==
  IF thread.why = "command" THEN Answer(e)
  ELSE /\ thread' = [thread EXCEPT !.at = "tick", !.ended = @ \cup {thread.who}]
       /\ UNCHANGED <<reply, commissioned>>

\* A timeout reports what was printed so far under exit code -1.
\* (Mutant: under the code that a status nobody set stands for.)
TimedOutAsExited(says) == [code |-> 0, says |-> says, done |-> FALSE]
TimedOut(says) == [code |-> -1, says |-> says, done |-> FALSE]

\* poll(), first waitpid(): the child ended, ...
PollEnded ==
  /\ thread.at = "poll" /\ table[Mine].is = "zombie"
  /\ table' = Reaped(Mine)
  /\ mgr' = [mgr EXCEPT ![thread.who] = Unused]
  /\ Ended(table[Mine].exit)
  /\ UNCHANGED <<subs, nextSub, kind>>

\* ... it runs and may, so that wait() polls again 10 ms later, ...
PollRunning ==
  /\ thread.at = "poll" /\ thread.why = "tick"
  /\ table[Mine].is = "child" /\ mgr[thread.who].age <= Limit(thread.who)
  /\ thread' = [thread EXCEPT !.at = "tick"]
  /\ UNCHANGED <<table, mgr, subs, nextSub, commissioned, kind, reply>>

\* ... or it has run for longer than it may and gets SIGTERM.
PollTimeout ==
  /\ thread.at = "poll" /\ table[Mine].is = "child"
  /\ mgr[thread.who].age > Limit(thread.who)
  /\ thread' = [thread EXCEPT !.at = "grace"]
  /\ UNCHANGED <<table, mgr, subs, nextSub, commissioned, kind, reply>>

\* The waitpid() after 100 ms.  kill() is done when it finds the child ended;
\* poll() goes on to SIGKILL whatever it finds.
\* (Mutant: so does kill().)
GraceEndsBlind ==
  /\ thread.at = "grace"
  /\ table' = IF table[Mine].is = "zombie" THEN Reaped(Mine) ELSE table
  /\ thread' = [thread EXCEPT !.at = "sigkill"]
  /\ UNCHANGED <<mgr, subs, nextSub, commissioned, kind, reply>>

GraceEnds ==
  /\ thread.at = "grace"
  /\ table' = IF table[Mine].is = "zombie" THEN Reaped(Mine) ELSE table
  /\ thread' = [thread EXCEPT !.at =
                  IF thread.why = "cancel" /\ table[Mine].is = "zombie" THEN "erase" ELSE "sigkill"]
  /\ UNCHANGED <<mgr, subs, nextSub, commissioned, kind, reply>>

\* (Mutant: SIGTERM was enough.)
KillSpared ==
  /\ thread.at = "sigkill"
  /\ UNCHANGED table
  /\ thread' = [thread EXCEPT !.at = "last"]
  /\ UNCHANGED <<mgr, subs, nextSub, commissioned, kind, reply>>

Kill ==
  /\ thread.at = "sigkill"
  /\ table' = Signalled(Mine)
  /\ thread' = [thread EXCEPT !.at = "last"]
  /\ UNCHANGED <<mgr, subs, nextSub, commissioned, kind, reply>>

\* The last waitpid() blocks for a child that has not ended yet, and fails at
\* once when there is no such child any more.  poll() keeps the id.
\* (Mutant: it does not wait.)
LastWaitOnce ==
  /\ thread.at = "last"
  /\ table' = IF table[Mine].is = "zombie" THEN Reaped(Mine) ELSE table
  /\ IF thread.why = "cancel"
     THEN /\ thread' = [thread EXCEPT !.at = "erase"]
          /\ UNCHANGED <<mgr, reply, commissioned>>
     ELSE /\ mgr' = [mgr EXCEPT ![thread.who] = [Unused EXCEPT !.pid = Mine]]
          /\ \E says \in BOOLEAN : Ended(TimedOut(says))
  /\ UNCHANGED <<subs, nextSub, kind>>

LastWait ==
  /\ thread.at = "last" /\ table[Mine].is # "child"
  /\ table' = IF table[Mine].is = "zombie" THEN Reaped(Mine) ELSE table
  /\ IF thread.why = "cancel"
     THEN /\ thread' = [thread EXCEPT !.at = "erase"]
          /\ UNCHANGED <<mgr, reply, commissioned>>
     ELSE /\ mgr' = [mgr EXCEPT ![thread.who] = [Unused EXCEPT !.pid = Mine]]
          /\ \E says \in BOOLEAN : Ended(TimedOut(says))
  /\ UNCHANGED <<subs, nextSub, kind>>

--------------------------------------------------------------------------------
(* ChipToolDriver, as HardwareNode, the relay and the fleet call it.         *)

\* A command of kind k: refused by a node that is not commissioned, failed by
\* start(), or run.
Begin(k) ==
  /\ \/ thread.at = "idle" /\ k # "help"
     \/ thread.at = "again" /\ k = "help"
  /\ kind' = k
  /\ \/ k \in NodeKinds /\ commissioned /\ \E p \in Pids : Spawn(Command, p)
     \/ k \notin NodeKinds /\ \E p \in Pids : Spawn(Command, p)
     \/ UNCHANGED <<table, mgr>>
  /\ thread' = IF mgr' = mgr THEN Idle ELSE [Idle EXCEPT !.at = "poll"]
  /\ reply' = NoReply
  /\ UNCHANGED <<subs, nextSub, commissioned>>

\* A HardwareNode subscribes when it is commissioned.
MaySubscribe == thread.at = "idle" /\ commissioned

\* subscribe(): the id is used up by a process that does not start, too.
Subscribe ==
  /\ MaySubscribe /\ nextSub <= MaxSubs
  /\ nextSub' = nextSub + 1
  /\ \/ (\E p \in Pids : Spawn(nextSub, p)) /\ subs' = subs \cup {nextSub}
     \/ UNCHANGED <<table, mgr, subs>>
  /\ UNCHANGED <<commissioned, thread, kind, reply>>

\* cancelSubscription(), and the driver's destructor: kill() sends SIGTERM to a
\* process that runs_, then the handle is erased.
Cancel(s) ==
  /\ thread.at = "idle" /\ s \in subs
  /\ thread' = [Idle EXCEPT !.why = "cancel", !.who = s,
                            !.at = IF mgr[s].running THEN "grace" ELSE "erase"]
  /\ UNCHANGED <<table, mgr, subs, nextSub, commissioned, kind, reply>>

\* tick(): poll() for each handle in order, then those that ended are erased.
Tick ==
  /\ thread.at = "idle" /\ subs # {}
  /\ thread' = [Idle EXCEPT !.why = "tick", !.at = "tick", !.left = subs]
  /\ UNCHANGED <<table, mgr, subs, nextSub, commissioned, kind, reply>>

TickNext ==
  /\ thread.at = "tick" /\ thread.left # {}
  /\ LET s == CHOOSE x \in thread.left : \A y \in thread.left : x <= y
     IN thread' = [thread EXCEPT !.at = IF mgr[s].running THEN "poll" ELSE "tick",
                                 !.who = s, !.left = @ \ {s}]
  /\ UNCHANGED <<table, mgr, subs, nextSub, commissioned, kind, reply>>

Erase ==
  /\ \/ thread.at = "erase"
     \/ thread.at = "tick" /\ thread.left = {}
  /\ LET gone == IF thread.at = "erase" THEN {thread.who} ELSE thread.ended
     IN /\ subs' = subs \ gone
        /\ mgr' = [m \in Managers |-> IF m \in gone THEN Unused ELSE mgr[m]]
  /\ thread' = Idle
  /\ UNCHANGED <<table, nextSub, commissioned, kind, reply>>

--------------------------------------------------------------------------------
Works == PollEnded \/ PollRunning \/ PollTimeout \/ GraceEnds \/ Kill \/ LastWait
           \/ TickNext \/ Erase \/ Begin("help")

BridgeNext ==
  \/ \E p \in Pids : ChildEnds(p) \/ Others(p)
  \/ Elapse
  \/ Works
  \/ \E k \in Kinds \ {"help"} : Begin(k)
  \/ Subscribe \/ Tick \/ \E s \in 1 .. MaxSubs : Cancel(s)

BridgeSpec == BridgeInit /\ [][BridgeNext]_bridgeVars

\* The thread goes on with its call, time passes, and a process dies of SIGKILL.
\* A child need not end, neither by itself nor because of SIGTERM.
BridgeFairness ==
  /\ WF_bridgeVars(Works) /\ WF_bridgeVars(Elapse)
  /\ \A p \in Pids : WF_bridgeVars(table[p].killed /\ ChildEnds(p))

FairBridgeSpec == BridgeSpec /\ BridgeFairness

--------------------------------------------------------------------------------
(***************************************************************************)
(* Properties.                                                             *)
(***************************************************************************)
\* Between calls no child is forgotten: each, ended or not, is the process of
\* a handle, and no command's is left; poll() and kill() wait for what they
\* stop, and handles are only erased after that.
NoneLeftBehind ==
  thread.at = "idle" =>
    \A p \in Pids : Child(p) => \E s \in subs : mgr[s].running /\ mgr[s].pid = p

\* Where the driver tells success from failure, success means that the device
\* did it: no output of a command that failed, was killed or ran out of time
\* passes for one.  The same holds of what a HardwareNode says, but not of its
\* invokeCommand(), whose caller cannot tell.
SuccessIsReal ==
  thread.at = "idle" /\ kind \notin {"version", "help", "fabrics"} =>
    /\ reply.ok => reply.done
    /\ reply.told /\ kind # "invoke" => reply.done

\* Every call returns, whatever chip-tool does: also if it hangs, blocks on a
\* pipe that nobody reads before it ends, or ignores SIGTERM.
EveryCallReturns == thread.at # "idle" ~> thread.at = "idle"

\* kill() of a subscription sends SIGKILL only to a process it has not waited
\* for yet, so never to one that has been given the id since.
CancelHitsItsChild ==
  thread.at = "sigkill" /\ thread.why = "cancel" => Child(Mine)
================================================================================
