----------------------------- MODULE PowerManager -----------------------------
(***************************************************************************)
(* The van's power lifecycle, src/src/thread/PowerManager.cpp: when the    *)
(* engine stops, nodes shut down group by group while the battery lasts;   *)
(* when it starts again they boot in the opposite order.                   *)
(*                                                                         *)
(* Times are kept as distances to the present that stop at zero.  A node's *)
(* `due' is shutdown_at while the system shuts down and boot_at while it   *)
(* boots.  A pass of tick() runs each node's transition to its end, so the *)
(* per-node states ShuttingDown and Booting are never seen between calls.  *)
(* shutdown_clean, the statistics and the event history are written and    *)
(* never read by the code; they are left out.                              *)
(***************************************************************************)
EXTENDS Integers, FiniteSets

CONSTANTS
  Nodes,     \* node ids that may be registered
  Priority,  \* ShutdownPriority: sensors 0, relays 1, border routers 2
  Lives,     \* the values of battery_life given to initiateShutdown
  BootStep,  \* boot_per_node_ (3 s)
  LongestLag     \* bound: the most time one PowerElapse lets pass

ASSUME PowerAssumption ==
  /\ Priority \in [Nodes -> 0 .. 2]
  /\ Lives \subseteq Nat
  /\ BootStep \in Nat
  /\ LongestLag \in Nat \ {0}

VARIABLES
  system,   \* state_
  on,       \* the registered nodes whose state is On
  off,      \* the registered nodes whose state is Off
  due,      \* time until the node's scheduled change
  battery,  \* battery_life_ less the time since shutdown_initiated_
  \* history:
  joined,   \* the nodes registered since this shutdown or boot was scheduled
  share,    \* the spacing of this shutdown's schedule
  unseen    \* time since tick() last looked at this shutdown

powerVars == <<system, on, off, due, battery, joined, share, unseen>>

registered == on \cup off

\* The distinct priorities in use, and those below and above a node's.
Groups == {Priority[n] : n \in registered}
Below(n) == {p \in Groups : p < Priority[n]}
Above(n) == {p \in Groups : p > Priority[n]}

Less(a, d) == IF a > d THEN a - d ELSE 0

--------------------------------------------------------------------------------
PowerInit ==
  /\ system = "EngineOn"
  /\ on = {} /\ off = {}
  /\ due = [n \in Nodes |-> 0]
  /\ battery = 0
  /\ joined = {} /\ share = 0 /\ unseen = 0

\* registerNode(): a node registered while the van is not running is off, with
\* times in the past.
Joined(n) ==
  /\ due' = [due EXCEPT ![n] = 0]
  /\ joined' = IF system \in {"ShuttingDown", "Booting"} THEN joined \cup {n} ELSE joined
  /\ UNCHANGED <<system, battery, share, unseen>>

Register(n) ==
  /\ n \notin registered
  /\ IF system = "EngineOn"
     THEN on' = on \cup {n} /\ UNCHANGED off
     ELSE off' = off \cup {n} /\ UNCHANGED on
  /\ Joined(n)

\* scheduleShutdownSequence(): the battery's life is divided evenly, one share
\* per group and one left over.
\* (Mutants: groups in the order of a boot; the last share used up as well.)
Spacing(life) == life \div (Cardinality(Groups) + 1)

ShutdownAtReversed(n, life) == Spacing(life) * (Cardinality(Above(n)) + 1)
ShutdownAtLast(n, life) == Spacing(life) * (Cardinality(Below(n)) + 2)

ShutdownAt(n, life) == Spacing(life) * (Cardinality(Below(n)) + 1)

InitiateShutdown(life) ==
  /\ system = "EngineOn"
  /\ system' = "ShuttingDown"
  /\ battery' = life
  /\ due' = [n \in Nodes |-> IF n \in registered THEN ShutdownAt(n, life) ELSE due[n]]
  /\ joined' = {} /\ share' = Spacing(life) /\ unseen' = 0
  /\ UNCHANGED <<on, off>>

\* hardCutoff(): every node that is not off yet is lost.
\* (Mutant: the nodes are cut, the system's state is left to the next pass.)
PowerLostHalf ==
  /\ on' = {} /\ off' = registered
  /\ UNCHANGED system

PowerLost ==
  /\ system' = "Off"
  /\ on' = {} /\ off' = registered

HardCutoff ==
  /\ system # "Off"
  /\ PowerLost
  /\ UNCHANGED <<due, battery, joined, share, unseen>>

\* scheduleBootSequence(): one step per group, highest priority first.
BootAt(n) == BootStep * (Cardinality(Above(n)) + 1)

InitiateBoot ==
  /\ system = "Off"
  /\ system' = "Booting"
  /\ due' = [n \in Nodes |-> IF n \in registered THEN BootAt(n) ELSE due[n]]
  /\ joined' = {}
  /\ UNCHANGED <<on, off, battery, share, unseen>>

--------------------------------------------------------------------------------
\* tick() while shutting down.  An empty battery comes before any schedule.
TickBatteryOut ==
  /\ system = "ShuttingDown" /\ battery = 0
  /\ PowerLost
  /\ unseen' = 0
  /\ UNCHANGED <<due, battery, joined, share>>

\* The nodes whose time has come go down, whatever their callbacks return; the
\* system is off with the last of them.
TickShutdown ==
  LET down == {n \in on : due[n] = 0}
  IN /\ system = "ShuttingDown" /\ battery > 0
     /\ on' = on \ down
     /\ off' = off \cup down
     /\ system' = IF on \subseteq down THEN "Off" ELSE system
     /\ unseen' = 0
     /\ UNCHANGED <<due, battery, joined, share>>

\* tick() while booting; a boot callback's result is not looked at.
\* (Mutant: the system is on with the first node.)
TickBootEager ==
  LET up == {n \in off : due[n] = 0}
  IN /\ system = "Booting"
     /\ on' = on \cup up
     /\ off' = off \ up
     /\ system' = IF up # {} \/ off = {} THEN "EngineOn" ELSE system
     /\ UNCHANGED <<due, battery, joined, share, unseen>>

TickBoot ==
  LET up == {n \in off : due[n] = 0}
  IN /\ system = "Booting"
     /\ on' = on \cup up
     /\ off' = off \ up
     /\ system' = IF off \subseteq up THEN "EngineOn" ELSE system
     /\ UNCHANGED <<due, battery, joined, share, unseen>>

PowerTick == TickBatteryOut \/ TickShutdown \/ TickBoot

\* Time passes; while the system is on or off nothing reads the distances.
PowerElapse(d) ==
  /\ system \in {"ShuttingDown", "Booting"}
  /\ due' = [n \in Nodes |-> Less(due[n], d)]
  /\ battery' = Less(battery, d)
  /\ unseen' = IF system = "ShuttingDown" /\ battery > 0 THEN unseen + d ELSE unseen
  /\ UNCHANGED <<system, on, off, joined, share>>

PowerNext ==
  \/ \E n \in Nodes : Register(n)
  \/ \E life \in Lives : InitiateShutdown(life)
  \/ HardCutoff
  \/ InitiateBoot
  \/ PowerTick
  \/ \E d \in 1 .. LongestLag : PowerElapse(d)

PowerSpec == PowerInit /\ [][PowerNext]_powerVars

\* The owner calls tick() for as long as it runs, and time passes.
PowerFairness == WF_powerVars(PowerTick) /\ WF_powerVars(\E d \in 1 .. LongestLag : PowerElapse(d))

FairPowerSpec == PowerSpec /\ PowerFairness

--------------------------------------------------------------------------------
(***************************************************************************)
(* Properties.                                                             *)
(***************************************************************************)
\* Every variable has its type, and no node is both on and off: registerNode()
\* keeps one entry per node whatever the system's state.
PowerTypeOK ==
  /\ system \in {"EngineOn", "ShuttingDown", "Off", "Booting"}
  /\ on \subseteq Nodes /\ off \subseteq Nodes /\ on \cap off = {}
  /\ due \in [Nodes -> Nat]
  /\ battery \in Nat
  /\ joined \subseteq Nodes
  /\ share \in Nat /\ unseen \in Nat

\* state_ and the nodes' states agree, at whatever moment nodes are registered
\* and power is lost: running means that every node runs, off that none does.
SystemMatchesNodes ==
  /\ system = "EngineOn" => off = {}
  /\ system = "Off" => on = {}

\* Sensors before relays before border routers, however irregular the passes of
\* tick(): while the van shuts down, no node of those the shutdown began with is
\* off before a node of a lower priority.
ShutdownInOrder ==
  system = "ShuttingDown" =>
    \A n \in off \ joined, m \in on : Priority[n] <= Priority[m]

\* Border routers before relays before sensors, for the nodes known when the
\* boot was scheduled.
ScheduledBootInOrder ==
  system = "Booting" =>
    \A n \in on \ joined, m \in off \ joined : Priority[m] <= Priority[n]

\* Whoever calls tick() often enough loses no node to the battery: a cutoff by
\* an empty battery that finds a node running means that a whole share of its
\* life, the one the schedule leaves over, went by without a pass.
BatteryIsEnough ==
  [][TickBatteryOut /\ on # {} => unseen >= share]_powerVars

\* A shutdown ends with everything off, on time or by the battery, and a boot
\* ends unless the power is lost again, whichever nodes register meanwhile.
TransitionsEnd ==
  /\ system = "ShuttingDown" ~> system = "Off"
  /\ system = "Booting" ~> system \in {"EngineOn", "Off"}

================================================================================
