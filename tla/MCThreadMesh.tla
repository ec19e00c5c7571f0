----------------------------- MODULE MCThreadMesh -----------------------------
(***************************************************************************)
(* The instance of ThreadMesh for TLC: three routers that could all be in  *)
(* range of each other and are in a chain at first, so that one cut leaves *)
(* a router alone and a new link shortens a route or makes a detour.       *)
(***************************************************************************)
EXTENDS ThreadMesh

AllInRange == {{0, 1}, {1, 2}, {0, 2}}
Chain == {{0, 1}, {1, 2}}
===============================================================================
