------------------------------- MODULE MCGateway -------------------------------
(***************************************************************************)
(* The instance of the server for TLC: the process of module Gateway, with *)
(* two vans, two tenants of which each may have one van, and two clients,  *)
(* so that one is served while the other waits; and the buffer of module   *)
(* OfflineBuffer, with a limit of two events a van and of three in all, so *)
(* that either limit may be the one hit.  No handler's step changes both,  *)
(* so each is explored with the other at its start.                        *)
(***************************************************************************)
EXTENDS Gateway, OfflineBuffer

CONSTANTS v1, v2, c1, c2

VansTwo == {v1, v2}
ClientsTwo == {c1, c2}

ServerVars == <<vars, bufferVars>>

GatewayAtStart == GatewayInit /\ serving = c1

GatewayWorks == BufferInit /\ GatewayNext /\ UNCHANGED bufferVars

BufferWorks == GatewayAtStart /\ BufferNext /\ UNCHANGED vars

ServerInit == GatewayAtStart /\ BufferInit

ServerSpec ==
  /\ ServerInit
  /\ [][GatewayWorks \/ BufferWorks]_ServerVars
  /\ GatewayFairness
================================================================================
