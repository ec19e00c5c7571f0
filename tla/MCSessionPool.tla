----------------------------- MODULE MCSessionPool -----------------------------
(***************************************************************************)
(* Instances of SessionPool for TLC.  Scaled times: a keepalive every 2    *)
(* units, a timeout after 3, a backoff of 1 that doubles up to 3.          *)
(***************************************************************************)
EXTENDS SessionPool

CONSTANTS v1, v2, d1, d2

VansOne == {v1}
VansTwo == {v1, v2}
DevicesTwo == {d1, d2}
================================================================================
