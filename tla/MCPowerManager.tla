---------------------------- MODULE MCPowerManager ----------------------------
(***************************************************************************)
(* The instance for TLC of two parts that meet in no handler: the power of *)
(* a van, with one border router, one relay and two sensors, and a battery *)
(* that is empty at once, one too small for a share per group, and one     *)
(* with two units per share; and the fleet's subscriptions, as in module   *)
(* MCFleetSubscriptions.  No handler's step changes both, so each is       *)
(* explored with the other at its start.                                   *)
(***************************************************************************)
EXTENDS PowerManager, MCFleetSubscriptions

CONSTANTS br, relay, s1, s2

VanNodes == {br, relay, s1, s2}

VanPriority == [n \in VanNodes |-> IF n = br THEN 2 ELSE IF n = relay THEN 1 ELSE 0]

BatteryLives == {0, 3, 8}

BothVars == <<powerVars, subsVars>>

PowerWorks == SubsInit /\ PowerNext /\ UNCHANGED subsVars

SubsWorks == PowerInit /\ SubsNext /\ UNCHANGED powerVars

FleetInit == PowerInit /\ SubsInit

FleetSpec ==
  /\ FleetInit
  /\ [][PowerWorks \/ SubsWorks]_BothVars
  /\ PowerFairness /\ SubsFairness
================================================================================
