-------------------------- MODULE PowerManager_proofs --------------------------
(***************************************************************************)
(* What PowerManager promises for every set of nodes, every battery and    *)
(* every timing of the passes.                                             *)
(***************************************************************************)
EXTENDS PowerManager, FiniteSetTheorems, TLAPS

\* While the van shuts down, nodes that registered in the meantime are off, and
\* the rest are due in the order of their priorities.
ShutdownSchedule ==
  system = "ShuttingDown" =>
    /\ on \cap joined = {}
    /\ \A n, m \in registered \ joined : Priority[n] <= Priority[m] => due[n] <= due[m]

\* While it boots, the nodes the boot was scheduled for are due in the opposite
\* order.
BootSchedule ==
  system = "Booting" =>
    \A n, m \in registered \ joined : Priority[n] <= Priority[m] => due[m] <= due[n]

\* A share of the battery is left after the last node is due; the time since the
\* last pass makes up for what has been used of it.
ShareIsKept ==
  system = "ShuttingDown" /\ on # {} =>
    /\ share <= battery + unseen
    /\ \A n \in on : due[n] > 0 => due[n] + share <= battery

PowerInv ==
  /\ PowerTypeOK
  /\ SystemMatchesNodes
  /\ ShutdownInOrder
  /\ ScheduledBootInOrder
  /\ ShutdownSchedule
  /\ BootSchedule
  /\ ShareIsKept

--------------------------------------------------------------------------------
(* The number of groups below and above a node.                              *)

LEMMA GroupCounts ==
  ASSUME PowerTypeOK
  PROVE  /\ Cardinality(Groups) \in 0 .. 3
         /\ \A n \in registered : /\ Cardinality(Below(n)) \in 0 .. Cardinality(Groups) - 1
                                  /\ Cardinality(Above(n)) \in 0 .. Cardinality(Groups) - 1
<1>1. registered \subseteq Nodes
  BY DEF PowerTypeOK, registered
<1>2. Groups \subseteq 0 .. 2
  BY <1>1, PowerAssumption DEF Groups
<1>3. Groups \in SUBSET Nat /\ (\A p \in Groups : p <= 2)
  BY <1>2
<1>4. IsFiniteSet(Groups) /\ Cardinality(Groups) <= 3
  <2>1. IsFiniteSet(Groups) /\ Cardinality(Groups) <= 2 + 1
    BY <1>3, FS_BoundedSetOfNaturals
  <2> QED
    BY <2>1
<1>5. Cardinality(Groups) \in 0 .. 3
  BY <1>4, FS_CardinalityType
<1>6. ASSUME NEW n \in registered, NEW S, S \subseteq Groups, Priority[n] \notin S
      PROVE  Cardinality(S) \in 0 .. Cardinality(Groups) - 1
  <2>1. S # Groups
    BY <1>6 DEF Groups
  <2>2. /\ IsFiniteSet(S)
        /\ Cardinality(S) <= Cardinality(Groups)
        /\ Cardinality(Groups) # Cardinality(S)
    BY <1>4, <1>6, <2>1, FS_Subset
  <2>3. Cardinality(S) \in Nat
    BY <2>2, FS_CardinalityType
  <2> QED
    BY <1>5, <2>2, <2>3
<1>7. ASSUME NEW n \in registered
      PROVE  /\ Below(n) \subseteq Groups /\ Priority[n] \notin Below(n)
             /\ Above(n) \subseteq Groups /\ Priority[n] \notin Above(n)
  <2>1. Priority[n] \in 0 .. 2
    BY <1>1, PowerAssumption
  <2> QED
    BY <2>1 DEF Below, Above
<1> QED
  BY <1>5, <1>6, <1>7

LEMMA GroupOrder ==
  ASSUME PowerTypeOK, NEW n \in registered, NEW m \in registered,
         Priority[n] <= Priority[m]
  PROVE  /\ Cardinality(Below(n)) <= Cardinality(Below(m))
         /\ Cardinality(Above(m)) <= Cardinality(Above(n))
<1>1. registered \subseteq Nodes
  BY DEF PowerTypeOK, registered
<1>2. Groups \in SUBSET Nat /\ (\A p \in Groups : p <= 2)
  <2>1. Groups \subseteq 0 .. 2
    BY <1>1, PowerAssumption DEF Groups
  <2> QED
    BY <2>1
<1>3. Priority[n] \in Nat /\ Priority[m] \in Nat
  BY <1>1, PowerAssumption
<1>4. \A p \in Groups : /\ p < Priority[n] => p < Priority[m]
                        /\ p > Priority[m] => p > Priority[n]
  BY <1>2, <1>3
<1>5. Below(n) \subseteq Below(m) /\ Above(m) \subseteq Above(n)
  BY <1>4 DEF Below, Above
<1>6. Below(m) \subseteq Groups /\ Above(n) \subseteq Groups /\ IsFiniteSet(Groups)
  BY <1>2, FS_BoundedSetOfNaturals DEF Below, Above
<1>7. IsFiniteSet(Below(m)) /\ IsFiniteSet(Above(n))
  BY <1>6, FS_Subset
<1> QED
  BY <1>5, <1>7, FS_Subset

\* The shutdown schedule follows the priorities and leaves one share of the
\* battery over.
LEMMA ShutdownTimes ==
  ASSUME PowerTypeOK, NEW life \in Nat
  PROVE  /\ Spacing(life) \in Nat
         /\ Spacing(life) <= life
         /\ \A n \in registered :
              /\ ShutdownAt(n, life) \in Nat
              /\ ShutdownAt(n, life) + Spacing(life) <= life
         /\ \A n, m \in registered :
              Priority[n] <= Priority[m] => ShutdownAt(n, life) <= ShutdownAt(m, life)
<1> DEFINE g == Cardinality(Groups)
           s == Spacing(life)
<1>1. g \in 0 .. 3
  BY GroupCounts
<1>2. s \in Nat /\ s * (g + 1) <= life /\ s <= life
  <2>1. s = life \div (g + 1)
    BY DEF Spacing
  <2> HIDE DEF g, s
  <2>2. CASE g = 0
    BY <2>1, <2>2
  <2>3. CASE g = 1
    BY <2>1, <2>3
  <2>4. CASE g = 2
    BY <2>1, <2>4
  <2>5. CASE g = 3
    BY <2>1, <2>5
  <2> QED
    BY <1>1, <2>2, <2>3, <2>4, <2>5
<1>3. ASSUME NEW a \in Nat, NEW b \in Nat, a <= b, b <= 4
      PROVE  s * a \in Nat /\ s * a <= s * b
  <2>1. s \in Nat
    BY <1>2
  <2>2. a \in {0, 1, 2, 3, 4} /\ b \in {0, 1, 2, 3, 4}
    BY <1>3
  <2> HIDE DEF s
  <2> QED
    BY <1>3, <2>1, <2>2
<1>4. ASSUME NEW n \in registered
      PROVE  ShutdownAt(n, life) \in Nat /\ ShutdownAt(n, life) + s <= life
  <2> DEFINE b == Cardinality(Below(n))
  <2>1. b \in 0 .. g - 1
    BY GroupCounts
  <2>2. ShutdownAt(n, life) = s * (b + 1)
    BY DEF ShutdownAt
  <2> HIDE DEF b, g, s
  <2>3. s * (b + 1) \in Nat /\ s * (b + 2) <= s * (g + 1)
    BY <1>1, <1>3, <2>1
  <2>4. b \in {0, 1, 2}
    BY <1>1, <2>1
  <2>5. s * (b + 2) = s * (b + 1) + s
    BY <1>2, <2>4
  <2>6. s * (g + 1) \in Nat
    BY <1>1, <1>3
  <2> QED
    BY <1>2, <2>2, <2>3, <2>5, <2>6
<1>5. ASSUME NEW n \in registered, NEW m \in registered, Priority[n] <= Priority[m]
      PROVE  ShutdownAt(n, life) <= ShutdownAt(m, life)
  <2> DEFINE b == Cardinality(Below(n))
             c == Cardinality(Below(m))
  <2>1. b \in 0 .. g - 1 /\ c \in 0 .. g - 1
    BY GroupCounts
  <2>2. b <= c
    BY <1>5, GroupOrder
  <2>3. ShutdownAt(n, life) = s * (b + 1) /\ ShutdownAt(m, life) = s * (c + 1)
    BY DEF ShutdownAt
  <2> HIDE DEF b, c, g, s
  <2> QED
    BY <1>1, <1>3, <2>1, <2>2, <2>3
<1> QED
  BY <1>2, <1>4, <1>5

\* The boot schedule follows the priorities the other way round.
LEMMA BootTimes ==
  ASSUME PowerTypeOK
  PROVE  /\ \A n \in registered : BootAt(n) \in Nat
         /\ \A n, m \in registered : Priority[n] <= Priority[m] => BootAt(m) <= BootAt(n)
<1> DEFINE g == Cardinality(Groups)
<1>1. g \in 0 .. 3 /\ BootStep \in Nat
  BY GroupCounts, PowerAssumption
<1>2. ASSUME NEW a \in Nat, NEW b \in Nat, a <= b, b <= 4
      PROVE  BootStep * a \in Nat /\ BootStep * a <= BootStep * b
  <2>1. a \in {0, 1, 2, 3, 4} /\ b \in {0, 1, 2, 3, 4}
    BY <1>2
  <2> QED
    BY <1>1, <1>2, <2>1
<1>3. ASSUME NEW n \in registered
      PROVE  BootAt(n) \in Nat
  <2> DEFINE a == Cardinality(Above(n))
  <2>1. a \in 0 .. g - 1
    BY GroupCounts
  <2>2. BootAt(n) = BootStep * (a + 1)
    BY DEF BootAt
  <2> HIDE DEF a, g
  <2> QED
    BY <1>1, <1>2, <2>1, <2>2
<1>4. ASSUME NEW n \in registered, NEW m \in registered, Priority[n] <= Priority[m]
      PROVE  BootAt(m) <= BootAt(n)
  <2> DEFINE a == Cardinality(Above(m))
             b == Cardinality(Above(n))
  <2>1. a \in 0 .. g - 1 /\ b \in 0 .. g - 1
    BY GroupCounts
  <2>2. a <= b
    BY <1>4, GroupOrder
  <2>3. BootAt(m) = BootStep * (a + 1) /\ BootAt(n) = BootStep * (b + 1)
    BY DEF BootAt
  <2> HIDE DEF a, b, g
  <2> QED
    BY <1>1, <1>2, <2>1, <2>2, <2>3
<1> QED
  BY <1>3, <1>4

--------------------------------------------------------------------------------
(* The inductive invariant.                                                  *)

LEMMA InitPowerInv == PowerInit => PowerInv
  BY DEF PowerInit, PowerInv, PowerTypeOK, SystemMatchesNodes, ShutdownInOrder,
         ScheduledBootInOrder, ShutdownSchedule, BootSchedule, ShareIsKept

LEMMA RegisterKeepsInv ==
  ASSUME PowerInv, NEW n \in Nodes, Register(n)
  PROVE  PowerInv'
<1> USE DEF PowerInv, Register, Joined, registered
<1>1. PowerTypeOK'
  BY DEF PowerTypeOK
<1>2. SystemMatchesNodes'
  BY DEF SystemMatchesNodes, PowerTypeOK
<1>3. system = "ShuttingDown" \/ system = "Booting" =>
        /\ on' = on /\ off' \ joined' \subseteq off \ joined
        /\ on' \ joined' \subseteq on \ joined
        /\ \A k \in on : due'[k] = due[k]
        /\ \A k \in (on \cup off) \ joined : due'[k] = due[k]
  BY DEF PowerTypeOK
<1>4. ShutdownInOrder'
  BY <1>3 DEF ShutdownInOrder
<1>5. ScheduledBootInOrder'
  BY <1>3 DEF ScheduledBootInOrder
<1>6. ShutdownSchedule'
  BY <1>3 DEF ShutdownSchedule, PowerTypeOK
<1>7. BootSchedule'
  BY <1>3 DEF BootSchedule
<1>8. ShareIsKept'
  BY <1>3 DEF ShareIsKept
<1> QED
  BY <1>1, <1>2, <1>4, <1>5, <1>6, <1>7, <1>8

LEMMA InitiateShutdownKeepsInv ==
  ASSUME PowerInv, NEW life \in Lives, InitiateShutdown(life)
  PROVE  PowerInv'
<1> USE DEF PowerInv
<1>1. life \in Nat
  BY PowerAssumption
<1>2. /\ Spacing(life) \in Nat /\ Spacing(life) <= life
      /\ \A n \in registered : /\ ShutdownAt(n, life) \in Nat
                               /\ ShutdownAt(n, life) + Spacing(life) <= life
      /\ \A n, m \in registered :
           Priority[n] <= Priority[m] => ShutdownAt(n, life) <= ShutdownAt(m, life)
  BY <1>1, ShutdownTimes
<1>3. \A n \in registered : n \in Nodes /\ due'[n] = ShutdownAt(n, life)
  BY DEF InitiateShutdown, PowerTypeOK, registered
<1>4. off = {} /\ registered' = registered /\ registered = on
  BY DEF InitiateShutdown, SystemMatchesNodes, registered
<1>5. PowerTypeOK'
  BY <1>1, <1>2 DEF InitiateShutdown, PowerTypeOK
<1>6. SystemMatchesNodes' /\ ScheduledBootInOrder' /\ BootSchedule'
  BY DEF InitiateShutdown, SystemMatchesNodes, ScheduledBootInOrder, BootSchedule
<1>7. ShutdownInOrder'
  BY <1>4 DEF InitiateShutdown, ShutdownInOrder
<1>8. ShutdownSchedule'
  BY <1>2, <1>3, <1>4 DEF InitiateShutdown, ShutdownSchedule
<1>9. ShareIsKept'
  BY <1>1, <1>2, <1>3, <1>4 DEF InitiateShutdown, ShareIsKept
<1> QED
  BY <1>5, <1>6, <1>7, <1>8, <1>9

LEMMA PowerLostKeepsInv ==
  ASSUME PowerInv, PowerLost, unseen' \in Nat, UNCHANGED <<due, battery, joined, share>>
  PROVE  PowerInv'
  BY DEF PowerInv, PowerLost, PowerTypeOK, SystemMatchesNodes, ShutdownInOrder,
         ScheduledBootInOrder, ShutdownSchedule, BootSchedule, ShareIsKept, registered

LEMMA InitiateBootKeepsInv ==
  ASSUME PowerInv, InitiateBoot
  PROVE  PowerInv'
<1> USE DEF PowerInv
<1>1. /\ \A n \in registered : BootAt(n) \in Nat
      /\ \A n, m \in registered : Priority[n] <= Priority[m] => BootAt(m) <= BootAt(n)
  BY BootTimes
<1>2. \A n \in registered : n \in Nodes /\ due'[n] = BootAt(n)
  BY DEF InitiateBoot, PowerTypeOK, registered
<1>3. on = {} /\ registered' = registered
  BY DEF InitiateBoot, SystemMatchesNodes, registered
<1>4. PowerTypeOK'
  BY <1>1 DEF InitiateBoot, PowerTypeOK
<1>5. SystemMatchesNodes' /\ ShutdownInOrder' /\ ShutdownSchedule' /\ ShareIsKept'
  BY DEF InitiateBoot, SystemMatchesNodes, ShutdownInOrder, ShutdownSchedule, ShareIsKept
<1>6. ScheduledBootInOrder'
  BY <1>3 DEF InitiateBoot, ScheduledBootInOrder
<1>7. BootSchedule'
  BY <1>1, <1>2, <1>3 DEF InitiateBoot, BootSchedule
<1> QED
  BY <1>4, <1>5, <1>6, <1>7

\* Who goes down in a pass is due, so whoever stays is not of a lower priority
\* and still has its share of the battery ahead.
LEMMA TickShutdownKeepsInv ==
  ASSUME PowerInv, TickShutdown
  PROVE  PowerInv'
<1> USE DEF PowerInv
<1> DEFINE down == {n \in on : due[n] = 0}
<1>1. /\ system = "ShuttingDown" /\ on' = on \ down /\ off' = off \cup down
      /\ system' = IF on \subseteq down THEN "Off" ELSE system
      /\ unseen' = 0
      /\ UNCHANGED <<due, battery, joined, share>>
  BY DEF TickShutdown
<1>2. \A n \in on' : n \in on /\ n \in Nodes /\ due[n] \in Nat /\ due[n] > 0
  BY <1>1 DEF PowerTypeOK
<1>3. system' \in {"ShuttingDown", "Off"} /\ registered' = registered
  BY <1>1 DEF registered
<1>4. PowerTypeOK'
  BY <1>1 DEF PowerTypeOK
<1>5. SystemMatchesNodes'
  BY <1>1 DEF SystemMatchesNodes
<1>6. ScheduledBootInOrder' /\ BootSchedule'
  BY <1>3 DEF ScheduledBootInOrder, BootSchedule
<1>7. ShutdownInOrder'
  <2> SUFFICES ASSUME NEW n \in off' \ joined', NEW m \in on'
               PROVE  Priority[n] <= Priority[m]
    BY DEF ShutdownInOrder
  <2>1. CASE n \in off
    BY <1>1, <1>2, <2>1 DEF ShutdownInOrder
  <2>2. CASE n \notin off
    <3>1. n \in on /\ due[n] = 0 /\ n \in registered \ joined
      BY <1>1, <2>2 DEF registered
    <3>2. m \in registered \ joined
      BY <1>1, <1>2 DEF ShutdownSchedule, registered
    <3>3. Priority[n] \in Nat /\ Priority[m] \in Nat
      BY <1>2, <3>1, PowerAssumption DEF PowerTypeOK
    <3>4. Priority[m] <= Priority[n] => due[m] <= due[n]
      BY <1>1, <3>1, <3>2 DEF ShutdownSchedule
    <3> QED
      BY <1>2, <3>1, <3>3, <3>4
  <2> QED
    BY <2>1, <2>2
<1>8. ShutdownSchedule'
  BY <1>1, <1>3 DEF ShutdownSchedule
<1>9. ShareIsKept'
  <2> SUFFICES ASSUME system' = "ShuttingDown", NEW k \in on'
               PROVE  /\ share' <= battery' + unseen'
                      /\ \A n \in on' : due'[n] > 0 => due'[n] + share' <= battery'
    BY DEF ShareIsKept
  <2>1. \A n \in on : due[n] > 0 => due[n] + share <= battery
    BY <1>1, <1>2 DEF ShareIsKept
  <2>2. due[k] + share <= battery /\ due[k] \in Nat /\ share \in Nat /\ battery \in Nat
    BY <1>2, <2>1 DEF PowerTypeOK
  <2> QED
    BY <1>1, <1>2, <2>1, <2>2
<1> QED
  BY <1>4, <1>5, <1>6, <1>7, <1>8, <1>9

LEMMA TickBootKeepsInv ==
  ASSUME PowerInv, TickBoot
  PROVE  PowerInv'
<1> USE DEF PowerInv
<1> DEFINE up == {n \in off : due[n] = 0}
<1>1. /\ system = "Booting" /\ on' = on \cup up /\ off' = off \ up
      /\ system' = IF off \subseteq up THEN "EngineOn" ELSE system
      /\ UNCHANGED <<due, battery, joined, share, unseen>>
  BY DEF TickBoot
<1>2. \A n \in off' : n \in off /\ n \in Nodes /\ due[n] \in Nat /\ due[n] > 0
  BY <1>1 DEF PowerTypeOK
<1>3. system' \in {"Booting", "EngineOn"} /\ registered' = registered
  BY <1>1 DEF registered
<1>4. PowerTypeOK'
  BY <1>1 DEF PowerTypeOK
<1>5. SystemMatchesNodes'
  BY <1>1 DEF SystemMatchesNodes
<1>6. ShutdownInOrder' /\ ShutdownSchedule' /\ ShareIsKept'
  BY <1>3 DEF ShutdownInOrder, ShutdownSchedule, ShareIsKept
<1>7. ScheduledBootInOrder'
  <2> SUFFICES ASSUME NEW n \in on' \ joined', NEW m \in off' \ joined'
               PROVE  Priority[m] <= Priority[n]
    BY DEF ScheduledBootInOrder
  <2>1. CASE n \in on
    BY <1>1, <1>2, <2>1 DEF ScheduledBootInOrder
  <2>2. CASE n \notin on
    <3>1. n \in off /\ due[n] = 0 /\ n \in registered \ joined
      BY <1>1, <2>2 DEF registered
    <3>2. m \in registered \ joined
      BY <1>1, <1>2 DEF registered
    <3>3. Priority[n] \in Nat /\ Priority[m] \in Nat
      BY <1>2, <3>1, PowerAssumption DEF PowerTypeOK
    <3>4. Priority[n] <= Priority[m] => due[m] <= due[n]
      BY <1>1, <3>1, <3>2 DEF BootSchedule
    <3> QED
      BY <1>2, <3>1, <3>3, <3>4
  <2> QED
    BY <2>1, <2>2
<1>8. BootSchedule'
  BY <1>1, <1>3 DEF BootSchedule
<1> QED
  BY <1>4, <1>5, <1>6, <1>7, <1>8

\* Time takes as much from the battery as from the schedule.
LEMMA ElapseKeepsInv ==
  ASSUME PowerInv, NEW d \in 1 .. LongestLag, PowerElapse(d)
  PROVE  PowerInv'
<1> USE DEF PowerInv
<1>1. d \in Nat /\ d > 0
  BY PowerAssumption
<1>2. \A a \in Nat : /\ Less(a, d) \in Nat
                     /\ (Less(a, d) > 0 => Less(a, d) = a - d)
                     /\ a <= Less(a, d) + d
                     /\ \A b \in Nat : a <= b => Less(a, d) <= Less(b, d)
  BY <1>1 DEF Less
<1>3. /\ battery \in Nat /\ share \in Nat /\ unseen \in Nat
      /\ \A n \in registered : n \in Nodes /\ due[n] \in Nat /\ due'[n] = Less(due[n], d)
  BY DEF PowerElapse, PowerTypeOK, registered
<1>4. registered' = registered /\ UNCHANGED <<system, on, off, joined, share>>
  BY DEF PowerElapse, registered
<1>5. PowerTypeOK'
  BY <1>1, <1>2 DEF PowerElapse, PowerTypeOK
<1>6. SystemMatchesNodes' /\ ShutdownInOrder' /\ ScheduledBootInOrder'
  BY <1>4 DEF SystemMatchesNodes, ShutdownInOrder, ScheduledBootInOrder
<1>7. ShutdownSchedule' /\ BootSchedule'
  BY <1>2, <1>3, <1>4 DEF ShutdownSchedule, BootSchedule
<1>8. ShareIsKept'
  <2> SUFFICES ASSUME system = "ShuttingDown", on # {}
               PROVE  /\ share <= battery' + unseen'
                      /\ \A n \in on : due'[n] > 0 => due'[n] + share <= battery'
    BY <1>4 DEF ShareIsKept
  <2>1. /\ share <= battery + unseen
        /\ \A n \in on : due[n] > 0 => due[n] + share <= battery
    BY DEF ShareIsKept
  <2>2. battery' = Less(battery, d) /\ battery' \in Nat
    BY <1>2, <1>3 DEF PowerElapse
  <2>3. share <= battery' + unseen'
    <3>1. CASE battery = 0
      <4>1. unseen' = unseen
        BY <3>1 DEF PowerElapse
      <4> QED
        BY <1>3, <2>1, <2>2, <3>1, <4>1
    <3>2. CASE battery > 0
      <4>1. unseen' = unseen + d
        BY <3>2 DEF PowerElapse
      <4>2. battery <= battery' + d
        BY <1>2, <1>3, <2>2
      <4> QED
        BY <1>1, <1>3, <2>1, <2>2, <4>1, <4>2
    <3> QED
      BY <1>3, <3>1, <3>2
  <2>4. ASSUME NEW n \in on, due'[n] > 0
        PROVE  due'[n] + share <= battery'
    <3>1. due[n] \in Nat /\ due'[n] = Less(due[n], d)
      BY <1>3 DEF registered
    <3>2. due'[n] = due[n] - d /\ due[n] > 0
      BY <1>1, <1>2, <2>4, <3>1
    <3>3. due[n] + share <= battery
      BY <2>1, <3>2
    <3>4. battery' = battery - d
      BY <1>1, <1>3, <2>2, <2>4, <3>1, <3>2, <3>3 DEF Less
    <3> QED
      BY <1>1, <1>3, <3>1, <3>2, <3>3, <3>4
  <2> QED
    BY <2>3, <2>4
<1> QED
  BY <1>5, <1>6, <1>7, <1>8

LEMMA StepPowerInv == PowerInv /\ [PowerNext]_powerVars => PowerInv'
<1> SUFFICES ASSUME PowerInv, [PowerNext]_powerVars
             PROVE  PowerInv'
  OBVIOUS
<1>1. CASE UNCHANGED powerVars
  BY <1>1 DEF powerVars, PowerInv, PowerTypeOK, SystemMatchesNodes, ShutdownInOrder,
              ScheduledBootInOrder, ShutdownSchedule, BootSchedule, ShareIsKept, registered
<1>2. ASSUME NEW n \in Nodes, Register(n) PROVE PowerInv'
  BY <1>2, RegisterKeepsInv
<1>3. ASSUME NEW life \in Lives, InitiateShutdown(life) PROVE PowerInv'
  BY <1>3, InitiateShutdownKeepsInv
<1>4. CASE HardCutoff
  BY <1>4, PowerLostKeepsInv DEF HardCutoff, PowerInv, PowerTypeOK
<1>5. CASE InitiateBoot
  BY <1>5, InitiateBootKeepsInv
<1>6. CASE TickBatteryOut
  BY <1>6, PowerLostKeepsInv DEF TickBatteryOut
<1>7. CASE TickShutdown
  BY <1>7, TickShutdownKeepsInv
<1>8. CASE TickBoot
  BY <1>8, TickBootKeepsInv
<1>9. ASSUME NEW d \in 1 .. LongestLag, PowerElapse(d) PROVE PowerInv'
  BY <1>9, ElapseKeepsInv
<1> QED
  BY <1>1, <1>2, <1>3, <1>4, <1>5, <1>6, <1>7, <1>8, <1>9 DEF PowerNext, PowerTick

\* The inductive invariant: beside the order of the groups it keeps the schedules of
\* both sequences and the share of the battery, which the theorems below need.
THEOREM PowerInvariant == PowerSpec => []PowerInv
  BY InitPowerInv, StepPowerInv, PTL DEF PowerSpec

--------------------------------------------------------------------------------
\* No node is ever registered twice, or both on and off.
THEOREM PowerTypeCorrect == PowerSpec => []PowerTypeOK
<1>1. PowerInv => PowerTypeOK
  BY DEF PowerInv
<1> QED
  BY <1>1, PowerInvariant, PTL

\* A running van runs every node, a van that is off runs none.
THEOREM SystemAgreesWithNodes == PowerSpec => []SystemMatchesNodes
<1>1. PowerInv => SystemMatchesNodes
  BY DEF PowerInv
<1> QED
  BY <1>1, PowerInvariant, PTL

\* Whatever the timing of the passes, groups go down in the order of their
\* priorities.
THEOREM ShutdownIsOrdered == PowerSpec => []ShutdownInOrder
<1>1. PowerInv => ShutdownInOrder
  BY DEF PowerInv
<1> QED
  BY <1>1, PowerInvariant, PTL

\* ... and the groups that a boot was scheduled for come up in the opposite order.
THEOREM BootIsOrdered == PowerSpec => []ScheduledBootInOrder
<1>1. PowerInv => ScheduledBootInOrder
  BY DEF PowerInv
<1> QED
  BY <1>1, PowerInvariant, PTL

\* For every battery life and number of nodes, a pass per share of the battery
\* is enough to take every node down by its schedule.
THEOREM BatterySuffices == PowerSpec => BatteryIsEnough
<1>1. PowerInv => [TickBatteryOut /\ on # {} => unseen >= share]_powerVars
  <2> SUFFICES ASSUME PowerInv, TickBatteryOut, on # {}
               PROVE  unseen >= share
    OBVIOUS
  <2>1. share <= battery + unseen /\ battery = 0
    BY DEF PowerInv, ShareIsKept, TickBatteryOut
  <2> QED
    BY <2>1 DEF PowerInv, PowerTypeOK
<1> QED
  BY <1>1, PowerInvariant, PTL DEF BatteryIsEnough
================================================================================
