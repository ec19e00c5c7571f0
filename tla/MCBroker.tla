------------------------------- MODULE MCBroker -------------------------------
(***************************************************************************)
(* Instances of Broker for TLC: three nodes, 0 the border router, 1 the    *)
(* relay and 2 the sensor, or the first two of them for the longer stories *)
(* of crashes and restarts.                                                *)
(***************************************************************************)
EXTENDS Broker
================================================================================
