------------------------------ MODULE MCMatterNode ------------------------------
(***************************************************************************)
(* The instance for TLC of two parts that meet in no handler: the Matter   *)
(* stack of a node, with one session, subscription and exchange, which     *)
(* share nothing but the tick, limits that differ from each other and lags *)
(* that jump over the smallest of them; and the tables of the border       *)
(* router, with two devices, two addresses at different routers, two       *)
(* controllers and a proxy table of one entry, which any of them fills.    *)
(* The limits keep their order: renewal, time to live, idle time, lease.   *)
(* No handler's step changes both, so each is explored with the other at   *)
(* its start.                                                              *)
(***************************************************************************)
EXTENDS MatterNode, BorderRouter

TwoRouters == [a \in 1 .. 2 |-> a]

BothVars == <<matterVars, vars>>

MatterWorks ==
  BorderInit /\ (\A d \in Devices : client[d].rloc = 1) /\ MatterNext /\ UNCHANGED vars

BorderWorks == MatterInit /\ BorderNext /\ UNCHANGED matterVars

NodeInit == MatterInit /\ BorderInit

NodeSpec ==
  /\ NodeInit
  /\ [][MatterWorks \/ BorderWorks]_BothVars
  /\ MatterFairness
================================================================================
