--------------------------- MODULE CellProperties ---------------------------
(* What the cell promises about audits, snapshots and event numbers. *)
EXTENDS Cell

Tracks == {"replace", "config"}
Pending(track) == IF track = "replace" THEN pendingReplace ELSE pendingConfig
InFlight(r, track) ==
    IF yielding[r].kind = track THEN <<yielding[r].audit>> ELSE << >>
Active == {r \in Runs : rpc[r] # "idle"}

ReplaceAudits == [slot : Slots, old : 0 .. MaxSwaps, new : Swaps]
ConfigAudits  == [old : 0 .. MaxSwaps, new : Swaps]

(* Every variable has its type, and a tally never exceeds what was drained. *)
TypeOK ==
    /\ closed \in BOOLEAN /\ wireMu \in Hosts \cup {Free}
    /\ ports \in [Slots -> 0 .. MaxSwaps] /\ config \in 0 .. MaxSwaps
    /\ pendingReplace \in Seq(ReplaceAudits) /\ pendingConfig \in Seq(ConfigAudits)
    /\ seq \in Nat /\ seen \subseteq 1 .. seq
    /\ rpc \in [Runs -> {"idle", "refused", "open", "prelude", "audits", "loop", "requeue"}]
    /\ \A r \in Runs :
          /\ lc[r].ports \in [Slots -> 0 .. MaxSwaps] /\ lc[r].config \in 0 .. MaxSwaps
          /\ lc[r].audits.replace \in Seq(ReplaceAudits)
          /\ lc[r].audits.config \in Seq(ConfigAudits)
          /\ \A track \in Tracks : tally[r][track] \in 0 .. Len(lc[r].audits[track])
          /\ left[r] \in 0 .. MaxEvents
    /\ hpc \in [Hosts -> {"idle", "boot", "replace", "store", "config"}]

-----------------------------------------------------------------------------
(* Where an audit is: queued, drained and not yet delivered, on its way to  *)
(* a consumer, or received.                                                 *)
At(s, audit) == {i \in DOMAIN s : s[i] = audit}
Copies(track, audit) ==
    {<<"log", i>> : i \in At(log[track], audit)}
    \cup {<<"queue", i>> : i \in At(Pending(track), audit)}
    \cup (UNION {{<<"drained", r, i>> : i \in At(Undelivered(r, track), audit)} : r \in Runs})
    \cup (UNION {{<<"yielded", r, i>> : i \in At(InFlight(r, track), audit)} : r \in Runs})

(* No swap goes untold and none is told twice, whichever invocations drain  *)
(* and hand back, die in their prelude, or lose their consumer in the       *)
(* middle of the list: snapshot, auditTally and requeueUndelivered together *)
(* keep exactly one copy of every committed audit.                          *)
AuditsConserved ==
    \A track \in Tracks : \A i \in DOMAIN commits[track] :
        Cardinality(Copies(track, commits[track][i])) = 1

(* As long as invocations follow one another, what consumers received, then *)
(* what the current invocation has left, then the queue, is the history of  *)
(* the swaps in their order.                                                *)
AuditsInSwapOrder ==
    ~overlapped =>
        \A track \in Tracks :
            LET outstanding ==
                    IF Active = {} THEN << >>
                    ELSE LET r == CHOOSE q \in Active : TRUE
                         IN  InFlight(r, track) \o Undelivered(r, track)
            IN  commits[track] = log[track] \o outstanding \o Pending(track)

(* What the received audits add up to. *)
ToldConfig == IF log.config = << >> THEN 0 ELSE log.config[Len(log.config)].new
ToldPort(s) ==
    LET about == {i \in DOMAIN log.replace : log.replace[i].slot = s}
    IN  IF about = {} THEN 0
        ELSE log.replace[CHOOSE i \in about : \A j \in about : j <= i].new

(* A decision loop that has begun works with nothing untold: its            *)
(* configuration and every port are the ones the agent was assembled with,  *)
(* or a consumer has received the audit of the swap.  One exception, and    *)
(* the code has it: two invocations overlap, one drains the audits, and     *)
(* before it delivers them another takes its snapshot of the swapped wiring *)
(* with no audit to tell; blind names the swaps a snapshot met so.  As long *)
(* as invocations follow one another there is no exception, and a loop      *)
(* works with exactly what the received audits add up to: a swap committed  *)
(* meanwhile touches neither.                                               *)
NoSwap == 0
ToldSwaps(track) == {log[track][i].new : i \in DOMAIN log[track]}

EffectIsTold ==
    \A r \in Runs : rpc[r] = "loop" =>
        /\ lc[r].config \in {NoSwap} \cup ToldSwaps("config") \cup blind[r]
        /\ \A s \in Slots :
              lc[r].ports[s] \in {NoSwap} \cup ToldSwaps("replace") \cup blind[r]
        /\ ~overlapped => /\ lc[r].config = ToldConfig
                          /\ \A s \in Slots : lc[r].ports[s] = ToldPort(s)

(* An event number names one event, whatever runs at the same time, and the *)
(* numbers of one stream increase (authored).                               *)
NumbersNameEvents ==
    [][\A r \in Runs : yielding[r] # NoEvent /\ yielding'[r] = NoEvent =>
          yielding[r].seq \notin seen /\ yielding[r].seq > lastSeen[r]]_vars

-----------------------------------------------------------------------------
(* What the documents say and the code does not always do. *)

(* "emits them ahead of its own events, in swap order": the queue the next  *)
(* invocation drains is in the order of the swaps.                          *)
QueuedInSwapOrder ==
    \A track \in Tracks : \A i, j \in DOMAIN Pending(track) :
        i < j => Pending(track)[i].new < Pending(track)[j].new
=============================================================================
