------------------------------- MODULE Assembly -------------------------------
(***************************************************************************)
(* From a blueprint to an agent and to its end: New validates the organs a  *)
(* host hands in and boots them in port order; hosts then swap organs and   *)
(* close the agent concurrently.  What is tracked is which organ instances  *)
(* were brought up, which are wired, which were handed back, and how often  *)
(* the host's Closer ran.                                                   *)
(*                                                                         *)
(* An instance is a number: the assembled organs are numbered by their port *)
(* in PortOrder, the organ of the n-th swap comes n behind them.  A swap    *)
(* brings an instance of its own, as the Bootable contract asks.            *)
(***************************************************************************)
EXTENDS Integers, Sequences

CONSTANTS
    Hosts,      \* goroutines that swap and close
    Offered,    \* the slot names they try
    MaxSwaps,   \* bound: swaps asked for
    Free        \* nobody holds the wire lock

ASSUME AssemblyAssumption == MaxSwaps \in Nat /\ Free \notin Hosts

PortOrder == <<"act", "closer", "hooks", "sandbox", "budget", "mem">>
Ports     == DOMAIN PortOrder
Instances == 1 .. Len(PortOrder) + MaxSwaps

(* The Closer and the brain have no slot. *)
Slots == {"act", "sandbox", "budget", "mem", "hooks"}
PortOf(slot) == CHOOSE p \in Ports : PortOrder[p] = slot

(* An organ is missing (nil or of a wrong type), lacks a part, is plain, or *)
(* declares Boot.  Hooks and budget are structs of the framework: they have *)
(* parts and no Boot.                                                       *)
Qualities(port) ==
    IF port \in {"hooks", "budget"} THEN {"missing", "partial", "plain"}
                                    ELSE {"missing", "plain", "bootable"}
Complete(quality) == quality \in {"plain", "bootable"}

VARIABLES
    identified, \* Organs.ID and the brain's parameters are in order
    quality,    \* of every instance
    npc, next,  \* New: what it does next, and the port to boot
    closed,     \* Cell.closed
    wireMu,     \* the holder of the wire lock, or Free
    wired,      \* slot to instance
    hpc, swap,  \* what each host does next, and with what
    asked       \* swaps asked for

(* History. *)
VARIABLES
    boots,      \* per instance, how often its Boot succeeded
    closerRuns, \* how often the host's Closer ran
    accepted,   \* instances that were ever wired
    returned,   \* per instance, how often a Replace handed it back
    refused     \* instances whose swap was refused as the agent is closed

newVars  == <<npc, next>>
hostVars == <<hpc, swap, asked>>
histVars == <<boots, closerRuns, accepted, returned, refused>>
vars == <<identified, quality, newVars, closed, wireMu, wired, hostVars, histVars>>

SwapRecords ==
    [slot : Slots \cup {"none"}, organ : {0} \cup Instances, old : {0} \cup Instances]
NoSwap == [slot |-> "none", organ |-> 0, old |-> 0]
Unwired == [s \in Slots |-> 0]

Init ==
    /\ identified \in BOOLEAN
    /\ quality \in [Instances -> {"missing", "partial", "plain", "bootable"}]
    /\ \A i \in Instances : IF i \in Ports THEN quality[i] \in Qualities(PortOrder[i])
                                           ELSE quality[i] = "missing"
    /\ npc = "validate" /\ next = 1 /\ closed = FALSE /\ wireMu = Free
    /\ wired = Unwired /\ asked = 0
    /\ hpc = [h \in Hosts |-> "idle"] /\ swap = [h \in Hosts |-> NoSwap]
    /\ boots = [i \in Instances |-> 0] /\ closerRuns = 0 /\ accepted = {}
    /\ returned = [i \in Instances |-> 0] /\ refused = {}

-----------------------------------------------------------------------------
(* New *)

(* Every port and hook wired, the budget complete, the agent named and its  *)
(* brain parameterised; anything less aborts before any organ is touched.   *)
Validate ==
    /\ npc = "validate"
    /\ npc' = IF identified /\ \A p \in Ports : Complete(quality[p])
              THEN "boot" ELSE "rejected"
    /\ UNCHANGED <<identified, quality, next, closed, wireMu, wired, hostVars, histVars>>

(* Mutant: a failed boot does not stop the others. *)
BootNextUnchecked ==
    /\ npc = "boot" /\ next \in Ports /\ next' = next + 1 /\ UNCHANGED npc
    /\ IF quality[next] = "bootable"
       THEN boots' \in {boots, [boots EXCEPT ![next] = @ + 1]}
       ELSE UNCHANGED boots
    /\ UNCHANGED <<identified, quality, closed, wireMu, wired, hostVars,
          closerRuns, accepted, returned, refused>>

(* Mutant: after a failed boot the order is tried again from its start. *)
BootNextRestarts ==
    /\ npc = "boot" /\ next \in Ports /\ UNCHANGED npc
    /\ \/ /\ quality[next] = "bootable"
          /\ \/ boots' = [boots EXCEPT ![next] = @ + 1] /\ next' = next + 1
             \/ next' = 1 /\ UNCHANGED boots
       \/ /\ quality[next] = "plain" /\ next' = next + 1 /\ UNCHANGED boots
    /\ UNCHANGED <<identified, quality, closed, wireMu, wired, hostVars,
          closerRuns, accepted, returned, refused>>

(* The next organ that declares Boot is brought up, or fails to come up.    *)
BootNext ==
    /\ npc = "boot" /\ next \in Ports
    /\ \/ /\ quality[next] = "bootable"
          /\ \/ boots' = [boots EXCEPT ![next] = @ + 1] /\ next' = next + 1 /\ UNCHANGED npc
             \/ npc' = "cleanup" /\ UNCHANGED <<boots, next>>
       \/ /\ quality[next] = "plain" /\ next' = next + 1 /\ UNCHANGED <<npc, boots>>
    /\ UNCHANGED <<identified, quality, closed, wireMu, wired, hostVars,
          closerRuns, accepted, returned, refused>>

(* What the attempt opened is released by the Closer, also when the Closer  *)
(* itself did not come up; it may fail, which is joined to the boot error.  *)
CleanupAfterBoot ==
    /\ npc = "cleanup" /\ npc' = "aborted" /\ closerRuns' = closerRuns + 1
    /\ UNCHANGED <<identified, quality, next, closed, wireMu, wired, hostVars,
          boots, accepted, returned, refused>>

Assemble ==
    /\ npc = "boot" /\ next \notin Ports /\ npc' = "agent"
    /\ wired' = [s \in Slots |-> PortOf(s)]
    /\ accepted' = {PortOf(s) : s \in Slots}
    /\ UNCHANGED <<identified, quality, next, closed, wireMu, hostVars,
          boots, closerRuns, returned, refused>>

-----------------------------------------------------------------------------
(* Agent.Replace *)
HostGoto(h, at) == hpc' = [hpc EXCEPT ![h] = at]
Incoming == Len(PortOrder) + asked + 1

(* What Cell.CheckSwap says of a slot name and a port. *)
CheckSwap(slot, q) == slot \in Slots /\ Complete(q)

(* Mutant: the organ is brought up before the slot is asked. *)
ReplaceBootsFirst(h) ==
    /\ npc = "agent" /\ hpc[h] = "idle" /\ ~closed /\ asked < MaxSwaps
    /\ asked' = asked + 1
    /\ \E slot \in Offered : \E q \in Qualities(slot) :
          /\ quality' = [quality EXCEPT ![Incoming] = q]
          /\ IF CheckSwap(slot, q) \/ q = "bootable"
             THEN /\ swap' = [swap EXCEPT ![h] = [slot |-> slot, organ |-> Incoming, old |-> 0]]
                  /\ HostGoto(h, IF q = "bootable" THEN "boot" ELSE "commit")
             ELSE UNCHANGED <<swap, hpc>>
    /\ UNCHANGED <<identified, newVars, closed, wireMu, wired, histVars>>

(* The agent is open, and the slot would take the port; else nothing        *)
(* happens to either.                                                       *)
Replace(h) ==
    /\ npc = "agent" /\ hpc[h] = "idle" /\ ~closed /\ asked < MaxSwaps
    /\ asked' = asked + 1
    /\ \E slot \in Offered : \E q \in Qualities(slot) :
          /\ quality' = [quality EXCEPT ![Incoming] = q]
          /\ IF CheckSwap(slot, q)
             THEN /\ swap' = [swap EXCEPT ![h] = [slot |-> slot, organ |-> Incoming, old |-> 0]]
                  /\ HostGoto(h, IF q = "bootable" THEN "boot" ELSE "commit")
             ELSE UNCHANGED <<swap, hpc>>
    /\ UNCHANGED <<identified, newVars, closed, wireMu, wired, histVars>>

Boot(h) ==
    /\ hpc[h] = "boot"
    /\ \/ boots' = [boots EXCEPT ![swap[h].organ] = @ + 1] /\ HostGoto(h, "commit")
          /\ UNCHANGED swap
       \/ HostGoto(h, "idle") /\ swap' = [swap EXCEPT ![h] = NoSwap] /\ UNCHANGED boots
    /\ UNCHANGED <<identified, quality, newVars, closed, wireMu, wired, asked,
          closerRuns, accepted, returned, refused>>

Load(h) ==
    /\ hpc[h] = "commit"
    /\ IF closed \/ ~CheckSwap(swap[h].slot, quality[swap[h].organ])
       THEN /\ HostGoto(h, "idle") /\ swap' = [swap EXCEPT ![h] = NoSwap]
            /\ refused' = (IF closed THEN refused \cup {swap[h].organ} ELSE refused)
            /\ UNCHANGED wireMu
       ELSE /\ HostGoto(h, "store") /\ wireMu' = h /\ UNCHANGED refused
            /\ swap' = [swap EXCEPT ![h].old = wired[swap[h].slot]]
    /\ UNCHANGED <<identified, quality, newVars, closed, wired, asked, boots,
          closerRuns, accepted, returned>>

(* Mutant: the old port is read without the lock. *)
ReplaceLoadUnlocked(h) == Load(h)

(* Cell.Replace asks the slot again, takes the lock, reads closed again and *)
(* loads the old port; Close does not take the lock.                        *)
ReplaceLoad(h) == wireMu = Free /\ Load(h)

ReplaceStore(h) ==
    /\ hpc[h] = "store" /\ HostGoto(h, "idle") /\ wireMu' = Free
    /\ wired' = [wired EXCEPT ![swap[h].slot] = swap[h].organ]
    /\ accepted' = accepted \cup {swap[h].organ}
    /\ returned' = [returned EXCEPT ![swap[h].old] = @ + 1]
    /\ swap' = [swap EXCEPT ![h] = NoSwap]
    /\ UNCHANGED <<identified, quality, newVars, closed, asked, boots,
          closerRuns, refused>>

-----------------------------------------------------------------------------
(* Agent.Close *)

(* Mutant: closed is read and written in two steps. *)
CloseUnguarded(h) ==
    /\ npc = "agent" /\ hpc[h] = "idle" /\ closed' = TRUE /\ HostGoto(h, "closer")
    /\ UNCHANGED <<identified, quality, newVars, wireMu, wired, swap, asked, histVars>>

(* The call whose compare-and-swap succeeded goes on to run the Closer.     *)
Close(h) ==
    /\ npc = "agent" /\ hpc[h] = "idle" /\ ~closed
    /\ closed' = TRUE /\ HostGoto(h, "closer")
    /\ UNCHANGED <<identified, quality, newVars, wireMu, wired, swap, asked, histVars>>

RunCloser(h) ==
    /\ hpc[h] = "closer" /\ HostGoto(h, "idle") /\ closerRuns' = closerRuns + 1
    /\ UNCHANGED <<identified, quality, newVars, closed, wireMu, wired, swap,
          asked, boots, accepted, returned, refused>>

HostStep(h) ==
    \/ Replace(h) \/ Boot(h) \/ ReplaceLoad(h) \/ ReplaceStore(h)
    \/ Close(h) \/ RunCloser(h)

Next ==
    \/ Validate \/ BootNext \/ CleanupAfterBoot \/ Assemble
    \/ \E h \in Hosts : HostStep(h)

Spec == Init /\ [][Next]_vars

-----------------------------------------------------------------------------
(* Types; an instance is brought up and handed back at most once.           *)
TypeOK ==
    /\ identified \in BOOLEAN /\ closed \in BOOLEAN
    /\ quality \in [Instances -> {"missing", "partial", "plain", "bootable"}]
    /\ npc \in {"validate", "rejected", "boot", "cleanup", "aborted", "agent"}
    /\ next \in 1 .. Len(PortOrder) + 1 /\ wireMu \in Hosts \cup {Free}
    /\ wired \in [Slots -> {0} \cup Instances]
    /\ hpc \in [Hosts -> {"idle", "boot", "commit", "store", "closer"}]
    /\ swap \in [Hosts -> SwapRecords]
    /\ asked \in 0 .. MaxSwaps /\ boots \in [Instances -> 0 .. 1]
    /\ closerRuns \in Nat /\ accepted \subseteq Instances
    /\ returned \in [Instances -> Nat] /\ refused \subseteq Instances

(* What the loop is given can be used: a wired organ is complete, and up if *)
(* it has a Boot, whatever failed on the way and whoever swaps meanwhile.   *)
WiredIsReady ==
    \A s \in Slots : wired[s] # 0 =>
        /\ Complete(quality[wired[s]])
        /\ quality[wired[s]] = "bootable" => boots[wired[s]] = 1

(* An incoming organ is up only if its slot had accepted it. *)
IncomingEarned ==
    \A i \in Instances \ Ports : boots[i] = 1 =>
        \/ i \in accepted \cup refused
        \/ \E h \in Hosts : swap[h].organ = i /\ CheckSwap(swap[h].slot, quality[i])

(* An organ's one startup is not spent in vain: a rejected blueprint boots  *)
(* nothing, an organ is up only if every bootable organ before it in port   *)
(* order is, and an incoming organ only if its slot had accepted it.        *)
BootsAreEarned ==
    /\ npc = "rejected" => \A i \in Instances : boots[i] = 0
    /\ \A i, j \in Ports :
          i < j /\ boots[j] = 1 /\ quality[i] = "bootable" => boots[i] = 1
    /\ IncomingEarned

(* Resources are released once: after a failed boot, by the one Close that  *)
(* made the transition, and never for a rejected blueprint.                 *)
ReleasedOnce ==
    closerRuns = CASE npc = "aborted" -> 1
                   [] npc # "aborted" /\ ~closed -> 0
                   [] OTHER -> IF \E h \in Hosts : hpc[h] = "closer" THEN 0 ELSE 1

(* Concurrent swaps lose no organ: what was ever wired is either still      *)
(* wired or was handed back to exactly one caller.                          *)
NoOrganLost ==
    \A i \in accepted :
        returned[i] = IF \E s \in Slots : wired[s] = i THEN 0 ELSE 1

(* "after Close it refuses the swap and leaves the incoming port untouched" *)
RefusedIsUntouched == \A i \in refused : boots[i] = 0
=============================================================================
