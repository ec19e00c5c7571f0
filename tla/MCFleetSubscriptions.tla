-------------------------- MODULE MCFleetSubscriptions -------------------------
(***************************************************************************)
(* Instances of FleetSubscriptions for TLC: two rules with intervals of    *)
(* zero and one unit, a fallback of one, and a loss after two misses.      *)
(***************************************************************************)
EXTENDS FleetSubscriptions

CONSTANT v1

VansOne == {v1}

Intervals == <<0, 1>>
================================================================================
