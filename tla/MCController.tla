------------------------------ MODULE MCController -----------------------------
(***************************************************************************)
(* The instance of Controller for TLC: two nodes and their broker over     *)
(* four process ids, so that one id at a time is somebody else's or waits  *)
(* for the next fork(), and up to two lines in the buffer; the four nodes  *)
(* and all 4096 sets of links of the simulator for the routes.             *)
(***************************************************************************)
EXTENDS Controller
================================================================================
