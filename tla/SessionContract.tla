---------------------------- MODULE SessionContract ----------------------------
(***************************************************************************)
(* What the CASE session pool promises of a van's link, without clocks,    *)
(* keepalives or backoff.  A link that is lost gets a fixed number of      *)
(* tries; each one either brings the link back or is used up, and the pool *)
(* gives the link up when none is left.  There is one exception: a round   *)
(* that comes too late may close a link it finds silent, with all tries    *)
(* unused.  A pool that is served in time never does that.                 *)
(***************************************************************************)
EXTENDS Integers

CONSTANTS Vans, Budget

VARIABLES
  link,  \* none: no session, up: in use, retrying: in an outage, down: given up
  left,  \* the tries left for the outage
  late   \* the pool has waited too long for its next round

linkVars == <<link, left, late>>

Init ==
  /\ link = [v \in Vans |-> "none"]
  /\ left = [v \in Vans |-> Budget]
  /\ late = FALSE

\* What a user of the pool may do: open or reopen a link, or drop it.
Open(v) ==
  /\ \E to \in {"up", "down"} : link' = [link EXCEPT ![v] = to]
  /\ left' = [left EXCEPT ![v] = Budget]
  /\ UNCHANGED late

Close(v) ==
  /\ link[v] # "none"
  /\ link' = [link EXCEPT ![v] = "none"]
  /\ left' = [left EXCEPT ![v] = Budget]
  /\ UNCHANGED late

\* The round is put off for too long.
Delay == late' = TRUE /\ UNCHANGED <<link, left>>

\* What a round of the pool may do to one link.
Keep(v) == link'[v] = link[v] /\ left'[v] = left[v]
Lose(v) == link[v] = "up" /\ link'[v] = "retrying" /\ left'[v] = Budget
Abandon(v) == late /\ link[v] = "up" /\ link'[v] = "down" /\ left'[v] = Budget
Restore(v) ==
  /\ link[v] = "retrying" /\ left[v] > 0
  /\ link'[v] = "up" /\ left'[v] = Budget
UseTry(v) ==
  /\ link[v] = "retrying" /\ left[v] > 0
  /\ link'[v] = "retrying" /\ left'[v] = left[v] - 1
GiveUp(v) ==
  /\ link[v] = "retrying" /\ left[v] = 0
  /\ link'[v] = "down" /\ left'[v] = 0

\* A round serves every link.
Round ==
  /\ link' \in [Vans -> {"none", "up", "retrying", "down"}]
  /\ left' \in [Vans -> 0 .. Budget]
  /\ \A v \in Vans : \/ Keep(v)
                     \/ Lose(v)
                     \/ Abandon(v)
                     \/ Restore(v)
                     \/ UseTry(v)
                     \/ GiveUp(v)
  /\ late' = FALSE

Next == \/ \E v \in Vans : Open(v) \/ Close(v)
        \/ Delay
        \/ Round

Spec == Init /\ [][Next]_linkVars
================================================================================
