---------------------------- MODULE MCHardwareBridge ---------------------------
(***************************************************************************)
(* The instance of HardwareBridge for TLC: two process ids, which commands,*)
(* two subscriptions and foreign processes contend for, and a timeout of   *)
(* one unit for a command (a subscription has none: its limit is zero).    *)
(***************************************************************************)
EXTENDS HardwareBridge
================================================================================
