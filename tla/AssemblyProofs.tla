---------------------------- MODULE AssemblyProofs ----------------------------
(***************************************************************************)
(* What assembly, swaps and closing guarantee about organ instances, for    *)
(* every number of hosts and of swaps.                                      *)
(***************************************************************************)
EXTENDS Assembly, TLAPS

(* Before there is an agent no host does anything, and nothing is wired.    *)
NoAgentYet == npc # "agent" =>
    /\ ~closed /\ wireMu = Free /\ wired = Unwired /\ asked = 0
    /\ accepted = {} /\ refused = {}
    /\ \A h \in Hosts : hpc[h] = "idle" /\ swap[h] = NoSwap
    /\ \A i \in Instances \ Ports : boots[i] = 0
    /\ closerRuns = IF npc = "aborted" THEN 1 ELSE 0

(* The organs that are up are the bootable ones in front of next.           *)
BootOrder ==
    /\ npc \notin {"validate", "rejected"} => \A p \in Ports : Complete(quality[p])
    /\ npc \in {"validate", "rejected"} => next = 1
    /\ npc = "agent" => next = 7
    /\ \A p \in Ports : boots[p] = IF p < next /\ quality[p] = "bootable" THEN 1 ELSE 0

(* What a host has in hand: an organ of its own that its slot accepted, not *)
(* up yet before Boot and up behind it.                                     *)
InHand(h) ==
    /\ swap[h].slot \in Slots /\ swap[h].organ \in Instances \ Ports
    /\ swap[h].organ <= Len(PortOrder) + asked
    /\ Complete(quality[swap[h].organ])
    /\ swap[h].organ \notin accepted \cup refused
    /\ IF hpc[h] = "boot"
       THEN quality[swap[h].organ] = "bootable" /\ boots[swap[h].organ] = 0
       ELSE quality[swap[h].organ] = "bootable" => boots[swap[h].organ] = 1

Swapping ==
    /\ \A h \in Hosts : IF hpc[h] \in {"boot", "commit", "store"} THEN InHand(h)
                                                                ELSE swap[h] = NoSwap
    /\ \A g, h \in Hosts : g # h /\ swap[g].organ = swap[h].organ => swap[g].organ = 0

(* An instance nobody brought yet is nowhere. *)
Fresh == \A i \in Instances : i > Len(PortOrder) + asked =>
    boots[i] = 0 /\ i \notin accepted \cup refused

(* Who is about to store holds the lock and knows what is wired now.        *)
Locked == \A h \in Hosts :
    /\ hpc[h] = "store" => wireMu = h /\ swap[h].old = wired[swap[h].slot]
    /\ wireMu = h => hpc[h] = "store"

(* Every slot of an agent holds an accepted, usable organ of its own.       *)
Wiring ==
    /\ npc = "agent" => \A s \in Slots : wired[s] \in accepted
    /\ \A s, t \in Slots : s # t /\ wired[s] = wired[t] => wired[s] = 0
    /\ \A i \in Instances : i \notin accepted => returned[i] = 0

(* What was wired was complete, and up if it has a Boot. *)
Ready == \A i \in accepted :
    Complete(quality[i]) /\ (quality[i] = "bootable" => boots[i] = 1)

(* One host at most is about to run the Closer, the one that closed.        *)
Closing ==
    /\ \A g, h \in Hosts : hpc[g] = "closer" /\ hpc[h] = "closer" => g = h
    /\ \A h \in Hosts : hpc[h] = "closer" => closed

(* The inductive invariant. *)
IInv ==
    /\ TypeOK /\ NoAgentYet /\ BootOrder /\ Swapping /\ Fresh /\ Locked
    /\ Wiring /\ Ready /\ Closing
    /\ IncomingEarned /\ ReleasedOnce /\ NoOrganLost

-----------------------------------------------------------------------------
(* The numbering of the ports. *)
LEMMA PortNumbers ==
    /\ Len(PortOrder) = 6 /\ Ports = 1 .. 6 /\ Ports \subseteq Instances
    /\ Instances = 1 .. 6 + MaxSwaps /\ 0 \notin Instances
BY AssemblyAssumption DEF PortOrder, Ports, Instances

LEMMA SlotNumbers ==
    /\ PortOf("act") = 1 /\ PortOf("hooks") = 3 /\ PortOf("sandbox") = 4
    /\ PortOf("budget") = 5 /\ PortOf("mem") = 6
BY PortNumbers DEF PortOrder, PortOf

LEMMA SlotsDiffer ==
    /\ \A s \in Slots : PortOf(s) \in Ports
    /\ \A s, t \in Slots : s # t => PortOf(s) # PortOf(t)
BY PortNumbers, SlotNumbers DEF Slots

LEMMA NoSwapIsOne == NoSwap \in SwapRecords
BY DEF NoSwap, SwapRecords

LEMMA Initially == Init => IInv
<1> SUFFICES ASSUME Init PROVE IInv
  OBVIOUS
<1>a. swap \in [Hosts -> SwapRecords] /\ hpc \in [Hosts -> {"idle", "boot", "commit", "store", "closer"}]
  BY NoSwapIsOne DEF Init
<1>b. boots \in [Instances -> 0 .. 1] /\ returned \in [Instances -> Nat]
  BY DEF Init
<1>c. wired \in [Slots -> {0} \cup Instances]
  BY DEF Init, Unwired
<1>d. asked \in 0 .. MaxSwaps /\ next \in 1 .. Len(PortOrder) + 1 /\ closerRuns \in Nat
  BY PortNumbers, AssemblyAssumption DEF Init
<1>e. /\ identified \in BOOLEAN /\ closed \in BOOLEAN /\ wireMu \in Hosts \cup {Free}
      /\ quality \in [Instances -> {"missing", "partial", "plain", "bootable"}]
      /\ npc \in {"validate", "rejected", "boot", "cleanup", "aborted", "agent"}
      /\ accepted \subseteq Instances /\ refused \subseteq Instances
  BY DEF Init
<1>1. TypeOK
  BY <1>a, <1>b, <1>c, <1>d, <1>e DEF TypeOK
<1>2. NoAgentYet
  BY PortNumbers DEF Init, NoAgentYet
<1>3. BootOrder
  BY PortNumbers DEF Init, BootOrder
<1>4. Swapping /\ Fresh /\ Locked
  BY AssemblyAssumption DEF Init, Swapping, Fresh, Locked, NoSwap
<1>5. Wiring /\ Ready /\ Closing
  BY DEF Init, Wiring, Ready, Closing, Unwired
<1>6. IncomingEarned /\ ReleasedOnce /\ NoOrganLost
  BY DEF Init, IncomingEarned, ReleasedOnce, NoOrganLost
<1> QED BY <1>1, <1>2, <1>3, <1>4, <1>5, <1>6 DEF IInv

LEMMA ValidateKeeps == ASSUME IInv, Validate PROVE IInv'
<1> USE PortNumbers, AssemblyAssumption DEF IInv, Validate, newVars, hostVars, histVars
<1>1. TypeOK' BY DEF TypeOK, NoAgentYet
<1>2. NoAgentYet' BY DEF NoAgentYet, TypeOK
<1>3. BootOrder' BY DEF BootOrder, TypeOK, NoAgentYet
<1>4. Swapping' BY DEF Swapping, TypeOK, NoAgentYet
<1>5. Fresh' BY DEF Fresh, TypeOK, NoAgentYet
<1>6. Locked' BY DEF Locked, TypeOK, NoAgentYet
<1>7. Wiring' BY DEF Wiring, TypeOK, NoAgentYet
<1>8. Ready' BY DEF Ready, TypeOK, NoAgentYet
<1>9. Closing' BY DEF Closing, TypeOK, NoAgentYet
<1>10. IncomingEarned' BY DEF IncomingEarned, TypeOK, NoAgentYet
<1>11. ReleasedOnce' BY DEF ReleasedOnce, TypeOK, NoAgentYet
<1>12. NoOrganLost' BY DEF NoOrganLost, TypeOK, NoAgentYet
<1> QED BY <1>1, <1>2, <1>3, <1>4, <1>5, <1>6, <1>7, <1>8, <1>9, <1>10, <1>11, <1>12

LEMMA BootNextKeeps == ASSUME IInv, BootNext PROVE IInv'
<1> USE PortNumbers, AssemblyAssumption DEF IInv, BootNext, newVars, hostVars, histVars
<1>1. TypeOK'
  <2>1. boots[next] = 0 /\ next \in Instances
    BY DEF BootOrder, TypeOK
  <2>2. boots' \in [Instances -> 0 .. 1]
    BY <2>1 DEF TypeOK
  <2>3. next' \in 1 .. 7
    BY DEF TypeOK
  <2>4. npc' \in {"validate", "rejected", "boot", "cleanup", "aborted", "agent"}
    BY DEF TypeOK
  <2> QED BY <2>2, <2>3, <2>4 DEF TypeOK
<1>2. NoAgentYet' BY DEF NoAgentYet, TypeOK
<1>3. BootOrder'
  <2>1. ASSUME NEW p \in Ports
        PROVE boots'[p] = IF p < next' /\ quality[p] = "bootable" THEN 1 ELSE 0
    <3>1. boots[p] = IF p < next /\ quality[p] = "bootable" THEN 1 ELSE 0
      BY DEF BootOrder
    <3>2. next \in 1 .. 6 /\ p \in 1 .. 6 /\ p \in Instances /\ next \in Instances
      OBVIOUS
    <3>3. CASE next' = next /\ boots' = boots
      BY <3>1, <3>3
    <3>4. CASE next' = next + 1 /\ boots' = boots /\ quality[next] = "plain"
      BY <3>1, <3>2, <3>4
    <3>5. CASE next' = next + 1 /\ boots' = [boots EXCEPT ![next] = @ + 1] /\ quality[next] = "bootable"
      <4>1. CASE p = next
        BY <3>1, <3>2, <3>5, <4>1 DEF TypeOK
      <4>2. CASE p # next
        BY <3>1, <3>2, <3>5, <4>2 DEF TypeOK
      <4> QED BY <4>1, <4>2
    <3> QED BY <3>3, <3>4, <3>5
  <2>2. \A p \in Ports : Complete(quality[p])
    BY DEF BootOrder
  <2>3. npc' \in {"boot", "cleanup"}
    OBVIOUS
  <2> QED BY <2>1, <2>2, <2>3 DEF BootOrder
<1>4. Swapping' BY DEF Swapping, TypeOK, NoAgentYet
<1>5. Fresh' BY DEF Fresh, TypeOK, NoAgentYet
<1>6. Locked' BY DEF Locked, TypeOK, NoAgentYet
<1>7. Wiring' BY DEF Wiring, TypeOK, NoAgentYet
<1>8. Ready' BY DEF Ready, TypeOK, NoAgentYet
<1>9. Closing' BY DEF Closing, TypeOK, NoAgentYet
<1>10. IncomingEarned' BY DEF IncomingEarned, TypeOK, NoAgentYet
<1>11. ReleasedOnce' BY DEF ReleasedOnce, TypeOK, NoAgentYet
<1>12. NoOrganLost' BY DEF NoOrganLost, TypeOK, NoAgentYet
<1> QED BY <1>1, <1>2, <1>3, <1>4, <1>5, <1>6, <1>7, <1>8, <1>9, <1>10, <1>11, <1>12

LEMMA CleanupAfterBootKeeps == ASSUME IInv, CleanupAfterBoot PROVE IInv'
<1> USE PortNumbers, AssemblyAssumption DEF IInv, CleanupAfterBoot, newVars, hostVars, histVars
<1>1. TypeOK' BY DEF TypeOK, NoAgentYet
<1>2. NoAgentYet' BY DEF NoAgentYet, TypeOK
<1>3. BootOrder' BY DEF BootOrder, TypeOK, NoAgentYet
<1>4. Swapping' BY DEF Swapping, TypeOK, NoAgentYet
<1>5. Fresh' BY DEF Fresh, TypeOK, NoAgentYet
<1>6. Locked' BY DEF Locked, TypeOK, NoAgentYet
<1>7. Wiring' BY DEF Wiring, TypeOK, NoAgentYet
<1>8. Ready' BY DEF Ready, TypeOK, NoAgentYet
<1>9. Closing' BY DEF Closing, TypeOK, NoAgentYet
<1>10. IncomingEarned' BY DEF IncomingEarned, TypeOK, NoAgentYet
<1>11. ReleasedOnce' BY DEF ReleasedOnce, TypeOK, NoAgentYet
<1>12. NoOrganLost' BY DEF NoOrganLost, TypeOK, NoAgentYet
<1> QED BY <1>1, <1>2, <1>3, <1>4, <1>5, <1>6, <1>7, <1>8, <1>9, <1>10, <1>11, <1>12

LEMMA AssembleKeeps == ASSUME IInv, Assemble PROVE IInv'
<1>0. /\ npc = "boot" /\ next = 7 /\ npc' = "agent" /\ npc # "agent"
      /\ UNCHANGED <<identified, quality, next, closed, wireMu, hpc, swap, asked,
                     boots, closerRuns, returned, refused>>
  BY PortNumbers DEF IInv, TypeOK, Assemble, hostVars
<1>a. /\ wired' \in [Slots -> Ports] /\ \A s \in Slots : wired'[s] = PortOf(s)
      /\ accepted' \subseteq Ports /\ \A s \in Slots : PortOf(s) \in accepted'
      /\ \A i \in accepted' : \E s \in Slots : i = PortOf(s)
  BY SlotsDiffer DEF Assemble
<1>b. /\ ~closed /\ wireMu = Free /\ asked = 0 /\ accepted = {} /\ refused = {}
      /\ \A h \in Hosts : hpc[h] = "idle" /\ swap[h] = NoSwap
      /\ \A i \in Instances \ Ports : boots[i] = 0
      /\ closerRuns = 0
  BY <1>0 DEF IInv, NoAgentYet
<1>1. TypeOK'
  <2>1. wired' \in [Slots -> {0} \cup Instances] /\ accepted' \subseteq Instances
    BY <1>a, PortNumbers
  <2> QED BY <1>0, <2>1 DEF IInv, TypeOK
<1>2. NoAgentYet'
  BY <1>0 DEF NoAgentYet
<1>3. BootOrder'
  BY <1>0 DEF IInv, BootOrder
<1>4. Swapping'
  BY <1>0, <1>b DEF Swapping, NoSwap
<1>5. Fresh'
  BY <1>0, <1>a, <1>b, PortNumbers DEF Fresh
<1>6. Locked'
  BY <1>0, <1>b, AssemblyAssumption DEF Locked
<1>7. Wiring'
  <2>1. \A i \in Instances : returned[i] = 0
    BY <1>b DEF IInv, Wiring
  <2> QED BY <1>0, <1>a, <2>1, SlotsDiffer DEF Wiring
<1>8. Ready'
  <2>1. \A i \in Ports : Complete(quality[i]) /\ (quality[i] = "bootable" => boots[i] = 1)
    BY <1>0, PortNumbers DEF IInv, BootOrder
  <2> QED BY <1>0, <1>a, <2>1 DEF Ready
<1>9. Closing'
  BY <1>0, <1>b DEF Closing
<1>10. IncomingEarned'
  BY <1>0, <1>b DEF IncomingEarned
<1>11. ReleasedOnce'
  BY <1>0, <1>b DEF ReleasedOnce
<1>12. NoOrganLost'
  <2>1. \A i \in accepted' : returned[i] = 0 /\ \E s \in Slots : wired'[s] = i
    BY <1>a, <1>b, PortNumbers DEF IInv, Wiring
  <2> QED BY <1>0, <2>1 DEF NoOrganLost
<1> QED BY <1>1, <1>2, <1>3, <1>4, <1>5, <1>6, <1>7, <1>8, <1>9, <1>10, <1>11, <1>12 DEF IInv

LEMMA ReplaceKeeps == ASSUME NEW h \in Hosts, IInv, Replace(h) PROVE IInv'
<1> USE PortNumbers, AssemblyAssumption DEF IInv, Replace, newVars, hostVars, histVars, HostGoto, Incoming, CheckSwap, Qualities
<1>p. PICK slot \in Offered : \E q \in Qualities(slot) :
        /\ quality' = [quality EXCEPT ![Incoming] = q]
        /\ IF CheckSwap(slot, q)
           THEN /\ swap' = [swap EXCEPT ![h] = [slot |-> slot, organ |-> Incoming, old |-> 0]]
                /\ hpc' = [hpc EXCEPT ![h] = IF q = "bootable" THEN "boot" ELSE "commit"]
           ELSE UNCHANGED <<swap, hpc>>
  OBVIOUS
<1>a. PICK q \in Qualities(slot) :
        /\ quality' = [quality EXCEPT ![Incoming] = q]
        /\ IF CheckSwap(slot, q)
           THEN /\ swap' = [swap EXCEPT ![h] = [slot |-> slot, organ |-> Incoming, old |-> 0]]
                /\ hpc' = [hpc EXCEPT ![h] = IF q = "bootable" THEN "boot" ELSE "commit"]
           ELSE UNCHANGED <<swap, hpc>>
  BY <1>p
<1>b. /\ Incoming = 7 + asked /\ Incoming \in Instances \ Ports
      /\ Incoming \notin accepted \cup refused /\ boots[Incoming] = 0
      /\ asked \in Nat /\ asked' = asked + 1
      /\ swap[h] = NoSwap /\ hpc[h] = "idle"
      /\ UNCHANGED <<boots, accepted, refused>>
  BY DEF TypeOK, Swapping, Fresh
<1>c. \A g \in Hosts : swap[g].organ \in Int /\ swap[g].organ < Incoming
  BY <1>b DEF Swapping, InHand, NoSwap
<1>1. TypeOK'
  <2>1. swap' \in [Hosts -> SwapRecords] /\ hpc' \in [Hosts -> {"idle", "boot", "commit", "store", "closer"}]
    <3>1. CASE CheckSwap(slot, q)
      <4>1. [slot |-> slot, organ |-> Incoming, old |-> 0] \in SwapRecords
        BY <1>b, <3>1 DEF SwapRecords, CheckSwap
      <4>2. swap' \in [Hosts -> SwapRecords]
        BY <1>a, <3>1, <4>1 DEF TypeOK
      <4>3. hpc' \in [Hosts -> {"idle", "boot", "commit", "store", "closer"}]
        <5>1. hpc' = [hpc EXCEPT ![h] = "boot"] \/ hpc' = [hpc EXCEPT ![h] = "commit"]
          BY <1>a, <3>1
        <5> QED BY <5>1 DEF TypeOK
      <4> QED BY <4>2, <4>3
    <3>2. CASE ~CheckSwap(slot, q)
      BY <1>a, <3>2 DEF TypeOK
    <3> QED BY <3>1, <3>2
  <2>2. quality' \in [Instances -> {"missing", "partial", "plain", "bootable"}]
    BY <1>a, <1>b DEF TypeOK
  <2>3. asked' \in 0 .. MaxSwaps
    BY <1>b DEF TypeOK
  <2> QED BY <2>1, <2>2, <2>3 DEF TypeOK
<1>2. NoAgentYet' BY DEF NoAgentYet, TypeOK
<1>3. BootOrder' BY DEF BootOrder, TypeOK, NoAgentYet
<1>4. Swapping'
  <2>1. ASSUME NEW g \in Hosts, swap'[g] = swap[g], hpc'[g] = hpc[g]
        PROVE IF hpc'[g] \in {"boot", "commit", "store"} THEN InHand(g)' ELSE swap'[g] = NoSwap
    <3>1. CASE hpc[g] \in {"boot", "commit", "store"}
      <4>1. InHand(g)
        BY <3>1 DEF Swapping
      <4>2. quality'[swap[g].organ] = quality[swap[g].organ]
        BY <1>a, <1>c, <4>1 DEF InHand, TypeOK
      <4> QED BY <1>b, <2>1, <3>1, <4>1, <4>2 DEF InHand
    <3>2. CASE hpc[g] \notin {"boot", "commit", "store"}
      BY <2>1, <3>2 DEF Swapping
    <3> QED BY <3>1, <3>2
  <2>2. CASE CheckSwap(slot, q)
    <3>1. /\ swap'[h] = [slot |-> slot, organ |-> Incoming, old |-> 0]
          /\ hpc'[h] = IF q = "bootable" THEN "boot" ELSE "commit"
          /\ \A g \in Hosts : g # h => swap'[g] = swap[g] /\ hpc'[g] = hpc[g]
          /\ quality'[Incoming] = q
      BY <1>a, <1>b, <2>2 DEF TypeOK
    <3>2. InHand(h)'
      BY <1>b, <2>2, <3>1 DEF InHand, CheckSwap, Complete
    <3>3. \A f, g \in Hosts : f # g /\ swap'[f].organ = swap'[g].organ => swap'[f].organ = 0
      BY <1>c, <3>1 DEF Swapping
    <3> QED BY <2>1, <3>1, <3>2, <3>3 DEF Swapping
  <2>3. CASE ~CheckSwap(slot, q)
    BY <1>a, <2>1, <2>3 DEF Swapping
  <2> QED BY <2>2, <2>3
<1>5. Fresh' BY DEF Fresh, TypeOK, NoAgentYet
<1>6. Locked' BY DEF Locked, TypeOK, NoAgentYet
<1>7. Wiring' BY DEF Wiring, TypeOK, NoAgentYet
<1>8. Ready' BY DEF Ready, Fresh, TypeOK
<1>9. Closing' BY DEF Closing, TypeOK, NoAgentYet
<1>10. IncomingEarned'
  <2> SUFFICES ASSUME NEW i \in Instances \ Ports, boots[i] = 1, i \notin accepted \cup refused
               PROVE \E g \in Hosts : swap'[g].organ = i /\ CheckSwap(swap'[g].slot, quality'[i])
    BY <1>b DEF IncomingEarned
  <2>1. PICK g \in Hosts : swap[g].organ = i /\ CheckSwap(swap[g].slot, quality[i])
    BY DEF IncomingEarned
  <2>2. g # h /\ i # Incoming
    BY <1>b, <2>1 DEF NoSwap
  <2>3. swap'[g] = swap[g] /\ quality'[i] = quality[i]
    BY <1>a, <2>2 DEF TypeOK
  <2> QED BY <2>1, <2>3
<1>11. ReleasedOnce' BY DEF ReleasedOnce, TypeOK, NoAgentYet
<1>12. NoOrganLost' BY DEF NoOrganLost, TypeOK, NoAgentYet
<1> QED BY <1>1, <1>2, <1>3, <1>4, <1>5, <1>6, <1>7, <1>8, <1>9, <1>10, <1>11, <1>12

LEMMA BootKeeps == ASSUME NEW h \in Hosts, IInv, Boot(h) PROVE IInv'
<1> USE PortNumbers, AssemblyAssumption DEF IInv, Boot, newVars, hostVars, histVars, HostGoto
<1>a. /\ InHand(h) /\ hpc[h] = "boot" /\ swap[h].organ \in Instances \ Ports
      /\ boots[swap[h].organ] = 0 /\ swap[h] # NoSwap
      /\ UNCHANGED <<quality, asked, accepted, refused>>
  BY DEF Swapping, InHand, NoSwap
<1>b. \/ /\ boots' = [boots EXCEPT ![swap[h].organ] = 1]
         /\ hpc' = [hpc EXCEPT ![h] = "commit"] /\ swap' = swap
      \/ /\ boots' = boots
         /\ hpc' = [hpc EXCEPT ![h] = "idle"] /\ swap' = [swap EXCEPT ![h] = NoSwap]
  BY <1>a DEF TypeOK
<1>c. \A g \in Hosts : g # h => /\ swap'[g] = swap[g] /\ hpc'[g] = hpc[g]
                               /\ swap[g].organ # swap[h].organ
  BY <1>a, <1>b DEF Swapping, TypeOK
<1>t. /\ hpc \in [Hosts -> {"idle", "boot", "commit", "store", "closer"}]
      /\ swap \in [Hosts -> SwapRecords]
      /\ boots \in [Instances -> 0 .. 1]
  BY DEF TypeOK
<1>1. TypeOK'
  <2>1. boots' \in [Instances -> 0 .. 1]
    <3> HIDE DEF IInv, Boot
    <3>1. boots' = [boots EXCEPT ![swap[h].organ] = 1] \/ boots' = boots
      BY <1>b
    <3> QED BY <1>t, <3>1
  <2>2. swap' \in [Hosts -> SwapRecords]
    BY <1>b, NoSwapIsOne DEF TypeOK
  <2>3. hpc' \in [Hosts -> {"idle", "boot", "commit", "store", "closer"}]
    <3> HIDE DEF IInv, Boot
    <3>1. hpc' = [hpc EXCEPT ![h] = "commit"] \/ hpc' = [hpc EXCEPT ![h] = "idle"]
      BY <1>b
    <3> QED BY <3>1, <1>t
  <2> QED BY <2>1, <2>2, <2>3 DEF TypeOK
<1>2. NoAgentYet' BY DEF NoAgentYet, TypeOK
<1>3. BootOrder'
  <2>1. \A p \in Ports : boots'[p] = boots[p]
    BY <1>a, <1>b DEF TypeOK
  <2> QED BY <2>1, <1>a DEF BootOrder
<1>4. Swapping'
  <2>1. ASSUME NEW g \in Hosts, g # h
        PROVE IF hpc'[g] \in {"boot", "commit", "store"} THEN InHand(g)' ELSE swap'[g] = NoSwap
    <3>1. CASE hpc[g] \in {"boot", "commit", "store"}
      <4>1. InHand(g)
        BY <3>1 DEF Swapping
      <4>2. boots'[swap[g].organ] = boots[swap[g].organ]
        <5>1. swap[g].organ \in Instances /\ swap[g].organ # swap[h].organ
          BY <1>c, <2>1, <4>1 DEF InHand
        <5> HIDE DEF IInv, Boot
        <5> QED BY <1>b, <1>t, <5>1
      <4> QED BY <1>a, <1>c, <2>1, <3>1, <4>1, <4>2 DEF InHand
    <3>2. CASE hpc[g] \notin {"boot", "commit", "store"}
      BY <1>c, <2>1, <3>2 DEF Swapping
    <3> QED BY <3>1, <3>2
  <2>2. IF hpc'[h] \in {"boot", "commit", "store"} THEN InHand(h)' ELSE swap'[h] = NoSwap
    <3> HIDE DEF IInv, Boot
    <3>1. CASE hpc' = [hpc EXCEPT ![h] = "idle"]
      BY <1>b, <1>t, <3>1
    <3>2. CASE hpc' = [hpc EXCEPT ![h] = "commit"]
      <4>1. hpc'[h] = "commit" /\ swap' = swap /\ boots'[swap[h].organ] = 1
        BY <1>a, <1>b, <1>t, <3>2
      <4> QED BY <1>a, <4>1 DEF InHand
    <3> QED BY <1>b, <3>1, <3>2
  <2>3. \A f, g \in Hosts : f # g /\ swap'[f].organ = swap'[g].organ => swap'[f].organ = 0
    BY <1>b DEF Swapping, TypeOK, NoSwap
  <2> QED BY <2>1, <2>2, <2>3 DEF Swapping
<1>5. Fresh' BY DEF Fresh, Swapping, InHand, TypeOK
<1>6. Locked' BY DEF Locked, TypeOK, NoAgentYet
<1>7. Wiring' BY DEF Wiring, TypeOK, NoAgentYet
<1>8. Ready' BY DEF Ready, Swapping, InHand, TypeOK
<1>9. Closing' BY DEF Closing, TypeOK, NoAgentYet
<1>10. IncomingEarned'
  <2> SUFFICES ASSUME NEW i \in Instances \ Ports, boots'[i] = 1, i \notin accepted \cup refused
               PROVE \E g \in Hosts : swap'[g].organ = i /\ CheckSwap(swap'[g].slot, quality[i])
    BY <1>a DEF IncomingEarned
  <2>1. CASE i = swap[h].organ
    <3>1. swap' = swap
      BY <1>a, <1>b, <2>1
    <3> QED BY <1>a, <2>1, <3>1 DEF InHand, CheckSwap
  <2>2. CASE i # swap[h].organ
    <3>1. boots[i] = 1
      BY <1>b, <2>2 DEF TypeOK
    <3>2. PICK g \in Hosts : swap[g].organ = i /\ CheckSwap(swap[g].slot, quality[i])
      BY <3>1 DEF IncomingEarned
    <3> QED BY <1>c, <2>2, <3>2
  <2> QED BY <2>1, <2>2
<1>11. ReleasedOnce' BY DEF ReleasedOnce, TypeOK, NoAgentYet
<1>12. NoOrganLost' BY DEF NoOrganLost, TypeOK, NoAgentYet
<1> QED BY <1>1, <1>2, <1>3, <1>4, <1>5, <1>6, <1>7, <1>8, <1>9, <1>10, <1>11, <1>12

LEMMA ReplaceLoadKeeps == ASSUME NEW h \in Hosts, IInv, ReplaceLoad(h) PROVE IInv'
<1> USE PortNumbers, AssemblyAssumption DEF IInv, ReplaceLoad, newVars, hostVars, histVars, HostGoto, Load
<1>a. /\ InHand(h) /\ hpc[h] = "commit" /\ wireMu = Free
      /\ CheckSwap(swap[h].slot, quality[swap[h].organ])
      /\ UNCHANGED <<quality, wired, asked, boots, accepted>>
  BY DEF Swapping, InHand, CheckSwap
<1>b. \/ /\ closed /\ hpc' = [hpc EXCEPT ![h] = "idle"] /\ swap' = [swap EXCEPT ![h] = NoSwap]
         /\ refused' = refused \cup {swap[h].organ} /\ wireMu' = wireMu
      \/ /\ ~closed /\ hpc' = [hpc EXCEPT ![h] = "store"] /\ wireMu' = h
         /\ swap' = [swap EXCEPT ![h].old = wired[swap[h].slot]] /\ refused' = refused
  BY <1>a
<1>t. /\ hpc \in [Hosts -> {"idle", "boot", "commit", "store", "closer"}]
      /\ swap \in [Hosts -> SwapRecords]
  BY DEF TypeOK
<1>c. ASSUME NEW g \in Hosts, g # h
      PROVE swap'[g] = swap[g] /\ hpc'[g] = hpc[g]
  <2> HIDE DEF IInv, ReplaceLoad, Load
  <2> QED BY <1>b, <1>c, <1>t
<1>d. swap'[h].organ \in {0, swap[h].organ}
  <2>1. swap[h] \in SwapRecords
    BY <1>t
  <2> HIDE DEF IInv, ReplaceLoad, Load
  <2> QED BY <1>b, <1>t, <2>1 DEF SwapRecords, NoSwap
<1>e. ASSUME NEW g \in Hosts, g # h, hpc[g] \in {"boot", "commit", "store"}
      PROVE swap[g].organ # swap[h].organ
  BY <1>a, <1>e DEF Swapping, InHand
<1>1. TypeOK'
  <2>1. wired[swap[h].slot] \in {0} \cup Instances
    BY <1>a DEF TypeOK, InHand
  <2>2. swap[h] \in SwapRecords
    BY DEF TypeOK
  <2>3. [swap[h] EXCEPT !.old = wired[swap[h].slot]] \in SwapRecords
    BY <2>1, <2>2 DEF SwapRecords
  <2>4. swap' \in [Hosts -> SwapRecords]
    BY <1>b, <2>3, NoSwapIsOne DEF TypeOK
  <2>5. hpc' \in [Hosts -> {"idle", "boot", "commit", "store", "closer"}]
    BY <1>b DEF TypeOK
  <2>6. refused' \subseteq Instances /\ wireMu' \in Hosts \cup {Free}
    BY <1>a, <1>b DEF TypeOK, InHand
  <2> QED BY <2>4, <2>5, <2>6 DEF TypeOK
<1>2. NoAgentYet' BY DEF NoAgentYet, TypeOK
<1>3. BootOrder' BY DEF BootOrder, TypeOK, NoAgentYet
<1>4. Swapping'
  <2> HIDE DEF IInv, ReplaceLoad, Load
  <2>1. ASSUME NEW g \in Hosts, g # h
        PROVE IF hpc'[g] \in {"boot", "commit", "store"} THEN InHand(g)' ELSE swap'[g] = NoSwap
    <3>1. CASE hpc[g] \in {"boot", "commit", "store"}
      <4>1. InHand(g)
        BY <3>1 DEF IInv, Swapping
      <4>2. swap[g].organ \notin refused'
        BY <1>b, <1>e, <2>1, <3>1, <4>1 DEF InHand
      <4> QED BY <1>a, <1>c, <2>1, <3>1, <4>1, <4>2 DEF InHand
    <3>2. CASE hpc[g] \notin {"boot", "commit", "store"}
      BY <1>c, <2>1, <3>2 DEF IInv, Swapping
    <3> QED BY <3>1, <3>2
  <2>2. IF hpc'[h] \in {"boot", "commit", "store"} THEN InHand(h)' ELSE swap'[h] = NoSwap
    <3>1. CASE closed
      BY <1>b, <1>t, <3>1
    <3>2. CASE ~closed
      <4>1. hpc'[h] = "store" /\ refused' = refused /\ swap'[h].slot = swap[h].slot
            /\ swap'[h].organ = swap[h].organ
        BY <1>b, <1>t, <3>2 DEF SwapRecords
      <4> QED BY <1>a, <4>1 DEF InHand
    <3> QED BY <3>1, <3>2
  <2>3. \A g \in Hosts : swap'[g].organ = swap[g].organ \/ swap'[g].organ = 0
    BY <1>c, <1>d
  <2>4. \A f, g \in Hosts : f # g /\ swap'[f].organ = swap'[g].organ => swap'[f].organ = 0
    BY <2>3 DEF IInv, Swapping
  <2> QED BY <2>1, <2>2, <2>4 DEF Swapping
<1>5. Fresh' BY DEF Fresh, Swapping, InHand, TypeOK
<1>6. Locked'
  <2> HIDE DEF IInv, ReplaceLoad, Load
  <2>1. ASSUME NEW g \in Hosts, g # h
        PROVE hpc'[g] # "store" /\ wireMu' # g
    BY <1>a, <1>b, <1>c, <2>1, AssemblyAssumption DEF IInv, Locked
  <2>2. CASE closed
    BY <1>a, <1>b, <1>t, <2>1, <2>2 DEF Locked
  <2>3. CASE ~closed
    <3>1. hpc'[h] = "store" /\ wireMu' = h /\ swap'[h].old = wired[swap[h].slot]
          /\ swap'[h].slot = swap[h].slot
      BY <1>b, <1>t, <2>3 DEF SwapRecords
    <3> QED BY <1>a, <2>1, <3>1 DEF Locked
  <2> QED BY <2>2, <2>3
<1>7. Wiring' BY DEF Wiring, TypeOK, NoAgentYet
<1>8. Ready' BY DEF Ready, TypeOK, NoAgentYet
<1>9. Closing' BY DEF Closing, TypeOK, NoAgentYet
<1>10. IncomingEarned'
  <2> SUFFICES ASSUME NEW i \in Instances \ Ports, boots[i] = 1, i \notin accepted \cup refused'
               PROVE \E g \in Hosts : swap'[g].organ = i /\ CheckSwap(swap'[g].slot, quality[i])
    BY <1>a DEF IncomingEarned
  <2>1. PICK g \in Hosts : swap[g].organ = i /\ CheckSwap(swap[g].slot, quality[i])
    BY <1>b DEF IncomingEarned
  <2>2. swap'[g].organ = i /\ swap'[g].slot = swap[g].slot
    <3>1. CASE g # h
      BY <1>c, <2>1, <3>1
    <3>2. CASE g = h
      BY <1>b, <2>1, <3>2 DEF TypeOK, SwapRecords
    <3> QED BY <3>1, <3>2
  <2> QED BY <2>1, <2>2
<1>11. ReleasedOnce' BY DEF ReleasedOnce, TypeOK, NoAgentYet
<1>12. NoOrganLost' BY DEF NoOrganLost, TypeOK, NoAgentYet
<1> QED BY <1>1, <1>2, <1>3, <1>4, <1>5, <1>6, <1>7, <1>8, <1>9, <1>10, <1>11, <1>12

LEMMA ReplaceStoreKeeps == ASSUME NEW h \in Hosts, IInv, ReplaceStore(h) PROVE IInv'
<1> USE PortNumbers, AssemblyAssumption DEF IInv, ReplaceStore, newVars, hostVars, histVars, HostGoto
<1>a. /\ InHand(h) /\ hpc[h] = "store" /\ wireMu = h /\ npc = "agent"
      /\ swap[h].slot \in Slots /\ swap[h].organ \in Instances \ Ports
      /\ swap[h].organ \notin accepted /\ swap[h].old = wired[swap[h].slot]
      /\ swap[h].old \in accepted /\ swap[h].old \in Instances
  BY DEF Swapping, InHand, Locked, Wiring, NoAgentYet, TypeOK
<1>b. /\ hpc' = [hpc EXCEPT ![h] = "idle"] /\ wireMu' = Free
      /\ wired' = [wired EXCEPT ![swap[h].slot] = swap[h].organ]
      /\ accepted' = accepted \cup {swap[h].organ}
      /\ returned' = [returned EXCEPT ![swap[h].old] = @ + 1]
      /\ swap' = [swap EXCEPT ![h] = NoSwap]
      /\ UNCHANGED <<quality, asked, boots, refused>>
  OBVIOUS
<1>t. /\ hpc \in [Hosts -> {"idle", "boot", "commit", "store", "closer"}]
      /\ swap \in [Hosts -> SwapRecords] /\ wired \in [Slots -> {0} \cup Instances]
      /\ returned \in [Instances -> Nat]
  BY DEF TypeOK
<1>1. TypeOK'
  <2>1. /\ swap' \in [Hosts -> SwapRecords]
        /\ hpc' \in [Hosts -> {"idle", "boot", "commit", "store", "closer"}]
    <3> HIDE DEF IInv, ReplaceStore
    <3> QED BY <1>b, <1>t, NoSwapIsOne
  <2>2. wired' \in [Slots -> {0} \cup Instances] /\ returned' \in [Instances -> Nat]
    <3> HIDE DEF IInv, ReplaceStore
    <3>1. wired' \in [Slots -> {0} \cup Instances]
      BY <1>a, <1>b, <1>t
    <3>2. returned' \in [Instances -> Nat]
      BY <1>a, <1>b, <1>t
    <3> QED BY <3>1, <3>2
  <2>3. accepted' \subseteq Instances /\ wireMu' \in Hosts \cup {Free}
    BY <1>a, <1>b DEF TypeOK
  <2> QED BY <2>1, <2>2, <2>3 DEF TypeOK
<1>2. NoAgentYet' BY DEF NoAgentYet, TypeOK
<1>3. BootOrder' BY DEF BootOrder, TypeOK, NoAgentYet
<1>4. Swapping'
  <2> HIDE DEF IInv, ReplaceStore
  <2>1. ASSUME NEW g \in Hosts, g # h
        PROVE IF hpc'[g] \in {"boot", "commit", "store"} THEN InHand(g)' ELSE swap'[g] = NoSwap
    <3>1. swap'[g] = swap[g] /\ hpc'[g] = hpc[g]
      BY <1>b, <1>t, <2>1
    <3>2. CASE hpc[g] \in {"boot", "commit", "store"}
      <4>1. InHand(g)
        BY <3>2 DEF IInv, Swapping
      <4>2. swap[g].organ # swap[h].organ
        BY <1>a, <2>1, <4>1 DEF IInv, Swapping, InHand
      <4> QED BY <1>b, <3>1, <3>2, <4>1, <4>2 DEF InHand
    <3>3. CASE hpc[g] \notin {"boot", "commit", "store"}
      BY <3>1, <3>3 DEF IInv, Swapping
    <3> QED BY <3>2, <3>3
  <2>2. swap'[h] = NoSwap /\ hpc'[h] = "idle"
    BY <1>b, <1>t
  <2>3. \A g \in Hosts : swap'[g].organ \in {0, swap[g].organ}
    BY <1>b, <1>t DEF NoSwap
  <2>4. \A f, g \in Hosts : f # g /\ swap'[f].organ = swap'[g].organ => swap'[f].organ = 0
    BY <2>3 DEF IInv, Swapping
  <2> QED BY <2>1, <2>2, <2>4 DEF Swapping
<1>5. Fresh' BY DEF Fresh, Swapping, InHand, TypeOK
<1>6. Locked' BY DEF Locked, TypeOK, NoAgentYet
<1>7. Wiring' BY DEF Wiring, Swapping, InHand, Locked, TypeOK, NoAgentYet
<1>8. Ready' BY DEF Ready, Swapping, InHand, TypeOK
<1>9. Closing' BY DEF Closing, TypeOK, NoAgentYet
<1>10. IncomingEarned' BY DEF IncomingEarned, TypeOK, NoAgentYet
<1>11. ReleasedOnce' BY DEF ReleasedOnce, TypeOK, NoAgentYet
<1>12. NoOrganLost'
  <2> HIDE DEF IInv, ReplaceStore
  <2>1. \A s \in Slots : wired'[s] = IF s = swap[h].slot THEN swap[h].organ ELSE wired[s]
    BY <1>b, <1>t
  <2>2. \A s, t \in Slots : s # t => wired[s] # wired[t]
    BY <1>a, PortNumbers DEF IInv, Wiring, TypeOK
  <2> SUFFICES ASSUME NEW i \in accepted'
               PROVE returned'[i] = IF \E s \in Slots : wired'[s] = i THEN 0 ELSE 1
    BY DEF NoOrganLost
  <2>3. CASE i = swap[h].organ
    <3>1. i \in Instances /\ i \notin accepted /\ i # swap[h].old
      BY <1>a, <2>3
    <3>2. returned'[i] = 0
      BY <1>b, <1>t, <3>1 DEF IInv, Wiring
    <3> QED BY <1>a, <2>1, <2>3, <3>2
  <2>4. CASE i = swap[h].old
    <3>1. i \in Instances /\ i \in accepted /\ i # swap[h].organ /\ wired[swap[h].slot] = i
      BY <1>a, <2>4
    <3>2. returned[i] = 0
      BY <1>a, <3>1 DEF IInv, NoOrganLost
    <3>3. returned'[i] = 1
      BY <1>b, <1>t, <2>4, <3>1, <3>2
    <3>4. ~ \E s \in Slots : wired'[s] = i
      BY <1>a, <2>1, <2>2, <3>1
    <3> QED BY <3>3, <3>4
  <2>5. CASE i # swap[h].organ /\ i # swap[h].old
    <3>1. i \in accepted /\ i \in Instances
      BY <1>b, <2>5 DEF IInv, TypeOK
    <3>2. returned'[i] = returned[i]
      BY <1>b, <1>t, <2>5, <3>1
    <3>3. (\E s \in Slots : wired'[s] = i) <=> (\E s \in Slots : wired[s] = i)
      BY <1>a, <2>1, <2>5
    <3> QED BY <3>1, <3>2, <3>3 DEF IInv, NoOrganLost
  <2> QED BY <2>3, <2>4, <2>5
<1> QED BY <1>1, <1>2, <1>3, <1>4, <1>5, <1>6, <1>7, <1>8, <1>9, <1>10, <1>11, <1>12

LEMMA CloseKeeps == ASSUME NEW h \in Hosts, IInv, Close(h) PROVE IInv'
<1> USE PortNumbers, AssemblyAssumption DEF IInv, Close, newVars, hostVars, histVars, HostGoto
<1>1. TypeOK' BY DEF TypeOK, NoAgentYet
<1>2. NoAgentYet' BY DEF NoAgentYet, TypeOK
<1>3. BootOrder' BY DEF BootOrder, TypeOK, NoAgentYet
<1>4. Swapping' BY DEF Swapping, InHand, TypeOK, NoAgentYet, Fresh, NoSwap, CheckSwap
<1>5. Fresh' BY DEF Fresh, TypeOK, NoAgentYet
<1>6. Locked' BY DEF Locked, TypeOK, NoAgentYet
<1>7. Wiring' BY DEF Wiring, TypeOK, NoAgentYet
<1>8. Ready' BY DEF Ready, TypeOK, NoAgentYet
<1>9. Closing' BY DEF Closing, TypeOK, NoAgentYet
<1>10. IncomingEarned' BY DEF IncomingEarned, TypeOK, NoAgentYet
<1>11. ReleasedOnce' BY DEF ReleasedOnce, TypeOK, NoAgentYet
<1>12. NoOrganLost' BY DEF NoOrganLost, TypeOK, NoAgentYet
<1> QED BY <1>1, <1>2, <1>3, <1>4, <1>5, <1>6, <1>7, <1>8, <1>9, <1>10, <1>11, <1>12

LEMMA RunCloserKeeps == ASSUME NEW h \in Hosts, IInv, RunCloser(h) PROVE IInv'
<1> USE PortNumbers, AssemblyAssumption DEF IInv, RunCloser, newVars, hostVars, histVars, HostGoto
<1>1. TypeOK' BY DEF TypeOK, NoAgentYet
<1>2. NoAgentYet' BY DEF NoAgentYet, TypeOK
<1>3. BootOrder' BY DEF BootOrder, TypeOK, NoAgentYet
<1>4. Swapping' BY DEF Swapping, InHand, TypeOK, NoAgentYet, Fresh, NoSwap, CheckSwap
<1>5. Fresh' BY DEF Fresh, TypeOK, NoAgentYet
<1>6. Locked' BY DEF Locked, TypeOK, NoAgentYet
<1>7. Wiring' BY DEF Wiring, TypeOK, NoAgentYet
<1>8. Ready' BY DEF Ready, TypeOK, NoAgentYet
<1>9. Closing' BY DEF Closing, TypeOK, NoAgentYet
<1>10. IncomingEarned' BY DEF IncomingEarned, TypeOK, NoAgentYet
<1>11. ReleasedOnce' BY DEF ReleasedOnce, Closing, TypeOK, NoAgentYet
<1>12. NoOrganLost' BY DEF NoOrganLost, TypeOK, NoAgentYet
<1> QED BY <1>1, <1>2, <1>3, <1>4, <1>5, <1>6, <1>7, <1>8, <1>9, <1>10, <1>11, <1>12

(* A stuttering step keeps the invariant. *)
LEMMA StutterKeeps == IInv /\ UNCHANGED vars => IInv'
<1> SUFFICES ASSUME IInv, UNCHANGED vars PROVE IInv'
  OBVIOUS
<1> USE DEF IInv, vars, newVars, hostVars, histVars
<1>1. TypeOK' /\ NoAgentYet' /\ BootOrder' /\ Fresh' /\ Locked' /\ Wiring'
  BY DEF TypeOK, NoAgentYet, BootOrder, Fresh, Locked, Wiring
<1>2. Swapping' /\ Ready' /\ Closing'
  BY DEF Swapping, InHand, Ready, Closing
<1>3. IncomingEarned' /\ ReleasedOnce' /\ NoOrganLost'
  BY DEF IncomingEarned, ReleasedOnce, NoOrganLost
<1> QED BY <1>1, <1>2, <1>3

LEMMA NextKeeps == IInv /\ [Next]_vars => IInv'
BY ValidateKeeps, BootNextKeeps, CleanupAfterBootKeeps, AssembleKeeps,
  ReplaceKeeps, BootKeeps, ReplaceLoadKeeps, ReplaceStoreKeeps, CloseKeeps,
  RunCloserKeeps, StutterKeeps DEF Next, HostStep

-----------------------------------------------------------------------------
(* The account of organ instances is inductive.                             *)
THEOREM AssemblyInvariant == Spec => []IInv
BY Initially, NextKeeps, PTL DEF Spec

(* Type correctness, and with it that no instance is brought up twice.      *)
THEOREM AssemblyTypeCorrect == Spec => []TypeOK
<1>1. IInv => TypeOK
  BY DEF IInv
<1> QED BY <1>1, AssemblyInvariant, PTL

(* No organ is lost between swaps, for every number of hosts and swaps.     *)
THEOREM OrgansKept == Spec => []NoOrganLost
<1>1. IInv => NoOrganLost
  BY DEF IInv
<1> QED BY <1>1, AssemblyInvariant, PTL

(* The Closer runs once, for every number of hosts that close.              *)
THEOREM ClosedOnce == Spec => []ReleasedOnce
<1>1. IInv => ReleasedOnce
  BY DEF IInv
<1> QED BY <1>1, AssemblyInvariant, PTL

(* Every wired organ is complete and up, whatever failed and whoever swaps. *)
THEOREM WiredOrgansAreUp == Spec => []WiredIsReady
<1>1. IInv => WiredIsReady
  <2> SUFFICES ASSUME IInv, NEW s \in Slots, wired[s] # 0
               PROVE /\ Complete(quality[wired[s]])
                     /\ quality[wired[s]] = "bootable" => boots[wired[s]] = 1
    BY DEF WiredIsReady
  <2>1. npc = "agent"
    BY DEF IInv, NoAgentYet, Unwired
  <2>2. wired[s] \in accepted
    BY <2>1 DEF IInv, Wiring
  <2> QED BY <2>2 DEF IInv, Ready
<1> QED BY <1>1, AssemblyInvariant, PTL

(* No organ is booted in vain: none of a rejected blueprint, none out of    *)
(* order, none that its slot would not take.                                *)
THEOREM StartupsAreEarned == Spec => []BootsAreEarned
<1>1. IInv => BootsAreEarned
  <2> SUFFICES ASSUME IInv PROVE BootsAreEarned
    OBVIOUS
  <2>1. npc = "rejected" => \A i \in Instances : boots[i] = 0
    <3> SUFFICES ASSUME npc = "rejected", NEW i \in Instances PROVE boots[i] = 0
      OBVIOUS
    <3>1. CASE i \in Ports
      BY <3>1, PortNumbers DEF IInv, BootOrder
    <3>2. CASE i \notin Ports
      BY <3>2 DEF IInv, NoAgentYet
    <3> QED BY <3>1, <3>2
  <2>2. ASSUME NEW i \in Ports, NEW j \in Ports, i < j, boots[j] = 1, quality[i] = "bootable"
        PROVE boots[i] = 1
    <3>1. j < next
      BY <2>2 DEF IInv, BootOrder
    <3>2. i < next
      BY <2>2, <3>1, PortNumbers DEF IInv, TypeOK
    <3> QED BY <2>2, <3>2 DEF IInv, BootOrder
  <2> QED BY <2>1, <2>2 DEF IInv, BootsAreEarned
<1> QED BY <1>1, AssemblyInvariant, PTL
=============================================================================
