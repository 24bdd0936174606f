-------------------------------- MODULE Cell --------------------------------
(***************************************************************************)
(* The cell behind an Agent: invocations that may overlap, each running on *)
(* the ports and the configuration it snapshotted, next to hosts that swap *)
(* ports, swap the configuration and close the agent at any time.          *)
(*                                                                         *)
(* What a swap did is told to the consumer by an audit event at the start  *)
(* of the next invocation.  An invocation drains the queued audits under   *)
(* the wire lock, delivers them one by one and hands back what it did not  *)
(* deliver.  The decision loop behind the audits is only its events here.  *)
(*                                                                         *)
(* A port or a configuration is the number of the swap that stored it, 0   *)
(* being what the agent was assembled with.  A swap its slot refuses, or    *)
(* whose port fails to boot, changes nothing.                              *)
(***************************************************************************)
EXTENDS Integers, Sequences, FiniteSets

CONSTANTS
    Runs,       \* iterators the host may drive at the same time
    Hosts,      \* goroutines that swap and close
    Slots,      \* the swappable slots
    MaxSwaps,   \* bound: swaps stored or being asked for
    MaxStarts,  \* bound: invocations started
    MaxEvents,  \* bound: loop events of one invocation
    Free        \* nobody holds the wire lock

ASSUME CellAssumption ==
    /\ MaxSwaps \in Nat /\ MaxStarts \in Nat /\ MaxEvents \in Nat
    /\ Free \notin Hosts

Swaps == 1 .. MaxSwaps

VARIABLES
    closed,         \* Cell.closed
    wireMu,         \* the holder of the wire lock, or Free
    ports,          \* Cell.Act, Sandbox, Budget, Mem, Hooks
    config,         \* Cell.Config
    pendingReplace, \* Cell.pendingReplace, a sequence of audits
    pendingConfig,  \* Cell.pendingConfig, a sequence of audits
    seq             \* Cell.seq

VARIABLES
    rpc,            \* what each invocation does next
    lc,             \* its LoopContext: ports, config and drained audits
    tally,          \* its auditTally
    yielding,       \* the event it is handing to its consumer
    left            \* loop events it may still yield

VARIABLES
    hpc             \* what each host goroutine does next

(* History. *)
VARIABLES
    starts,         \* invocations started so far
    commits,        \* per track, the audits in the order of their swaps
    log,            \* per track, the audits consumers received
    seen,           \* sequence numbers consumers received
    lastSeen,       \* per invocation, the last of them
    overlapped,     \* two invocations have run at the same time
    blind           \* per invocation, the swaps whose audits others held when it
                    \* took its snapshot

cellVars == <<ports, config, pendingReplace, pendingConfig>>
runVars  == <<rpc, lc, tally, yielding, left>>
logVars  == <<log, seen, lastSeen>>
histVars == <<starts, commits, logVars, overlapped, blind>>
vars == <<closed, wireMu, cellVars, seq, runVars, hpc, histVars>>

NoEvent  == [kind |-> "none", seq |-> 0, audit |-> 0]
NoTally  == [replace |-> 0, config |-> 0]
NoTracks == [replace |-> << >>, config |-> << >>]
Assembled == [s \in Slots |-> 0]
NoContext == [ports |-> Assembled, config |-> 0, audits |-> NoTracks]

Init ==
    /\ closed = FALSE /\ wireMu = Free /\ ports = Assembled /\ config = 0
    /\ pendingReplace = << >> /\ pendingConfig = << >> /\ seq = 0
    /\ rpc = [r \in Runs |-> "idle"] /\ lc = [r \in Runs |-> NoContext]
    /\ tally = [r \in Runs |-> NoTally] /\ yielding = [r \in Runs |-> NoEvent]
    /\ left = [r \in Runs |-> 0]
    /\ hpc = [h \in Hosts |-> "idle"] /\ starts = 0 /\ commits = NoTracks
    /\ log = NoTracks /\ seen = {} /\ lastSeen = [r \in Runs |-> 0]
    /\ overlapped = FALSE /\ blind = [r \in Runs |-> {}]

Goto(r, next) == rpc' = [rpc EXCEPT ![r] = next]

-----------------------------------------------------------------------------
(* The boundary every event passes: counted, numbered, handed over.        *)

(* Mutant: the number is read and not taken. *)
AuthoredShared(r, kind, audit) ==
    /\ seq' = seq + (IF kind = "loop" THEN 0 ELSE 1)
    /\ yielding' = [yielding EXCEPT ![r] = [kind |-> kind, seq |-> seq + 1, audit |-> audit]]

(* An event gets its number in one atomic step, and reaches the consumer   *)
(* in another.                                                             *)
Authored(r, kind, audit) ==
    /\ seq' = seq + 1
    /\ yielding' = [yielding EXCEPT ![r] = [kind |-> kind, seq |-> seq', audit |-> audit]]

Running(r) == rpc[r] # "idle" /\ yielding[r] = NoEvent

(* The consumer takes the event and goes on or stops, which returns from   *)
(* the loop.                                                               *)
Deliver(r) ==
    /\ yielding[r] # NoEvent
    /\ yielding' = [yielding EXCEPT ![r] = NoEvent]
    /\ seen' = seen \cup {yielding[r].seq}
    /\ lastSeen' = [lastSeen EXCEPT ![r] = yielding[r].seq]
    /\ log' = IF yielding[r].kind \in {"replace", "config"}
              THEN [log EXCEPT ![yielding[r].kind] = Append(@, yielding[r].audit)]
              ELSE log
    /\ \/ UNCHANGED rpc
       \/ Goto(r, IF rpc[r] = "refused" THEN "refused" ELSE "requeue")
    /\ UNCHANGED <<closed, wireMu, cellVars, seq, lc, tally, left, hpc,
          starts, commits, overlapped, blind>>

-----------------------------------------------------------------------------
(* One invocation, Stimulate or Resume. *)

(* The closed check, before the lock is taken. *)
Start(r) ==
    /\ rpc[r] = "idle" /\ starts < MaxStarts
    /\ starts' = starts + 1
    /\ overlapped' = (overlapped \/ \E q \in Runs : rpc[q] # "idle")
    /\ IF closed THEN Goto(r, "refused") /\ Authored(r, "error", 0)
                 ELSE Goto(r, "open") /\ UNCHANGED <<seq, yielding>>
    /\ UNCHANGED <<closed, wireMu, cellVars, lc, tally, left, hpc, commits,
          logVars, blind>>

(* A closed cell has nothing to hand back. *)
Refused(r) ==
    /\ rpc[r] = "refused" /\ Running(r) /\ Goto(r, "idle")
    /\ lastSeen' = [lastSeen EXCEPT ![r] = 0]
    /\ UNCHANGED <<closed, wireMu, cellVars, seq, lc, tally, yielding, left,
          hpc, starts, commits, log, seen, overlapped, blind>>

Undelivered(r, track) ==
    SubSeq(lc[r].audits[track], tally[r][track] + 1, Len(lc[r].audits[track]))

(* What an invocation took from the queue and no consumer has received. *)
InHand(r, track) ==
    {a \in {yielding[r].audit} : yielding[r].kind = track}
    \cup {Undelivered(r, track)[i] : i \in DOMAIN Undelivered(r, track)}

HeldByOthers(r) ==
    UNION {{a.new : a \in InHand(q, "replace") \cup InHand(q, "config")} : q \in Runs \ {r}}

(* Ports, configuration and queued audits, all under one hold of the lock. *)
(* Think and Act are always there: the blueprint has no slot for the brain *)
(* and a swap never stores nil.                                            *)
Snapshot(r) ==
    /\ rpc[r] = "open" /\ wireMu = Free /\ Goto(r, "prelude")
    /\ lc' = [lc EXCEPT ![r] =
                 [ports |-> ports, config |-> config,
                  audits |-> [replace |-> pendingReplace, config |-> pendingConfig]]]
    /\ pendingReplace' = << >> /\ pendingConfig' = << >>
    /\ tally' = [tally EXCEPT ![r] = NoTally]
    /\ left' = [left EXCEPT ![r] = MaxEvents]
    /\ blind' = [blind EXCEPT ![r] = HeldByOthers(r)]
    /\ UNCHANGED <<closed, wireMu, ports, config, seq, yielding, hpc,
          starts, commits, logVars, overlapped>>

(* A refused Session, a cancelled context or BeforeStimulate ends the run  *)
(* with an error before any audit.                                         *)
PreludeDies(r) ==
    /\ rpc[r] = "prelude" /\ Goto(r, "requeue") /\ Authored(r, "error", 0)
    /\ UNCHANGED <<closed, wireMu, cellVars, lc, tally, left, hpc,
          histVars>>

PreludePasses(r) ==
    /\ rpc[r] = "prelude" /\ Goto(r, "audits")
    /\ UNCHANGED <<closed, wireMu, cellVars, seq, lc, tally, yielding, left,
          hpc, histVars>>

(* Mutant: an audit is counted where it is wrapped and where it is sent. *)
EmitAuditCountedTwice(r) ==
    /\ rpc[r] = "audits" /\ Running(r)
    /\ \E track \in {"replace", "config"} :
          /\ Undelivered(r, track) # << >>
          /\ track = "config" => Undelivered(r, "replace") = << >>
          /\ tally' = [tally EXCEPT ![r][track] = @ + 2]
          /\ Authored(r, track, Head(Undelivered(r, track)))
    /\ UNCHANGED <<closed, wireMu, cellVars, rpc, lc, left, hpc, histVars>>

(* The audits, port swaps before configuration swaps, each counted on its  *)
(* way to the consumer.                                                    *)
EmitAudit(r) ==
    /\ rpc[r] = "audits" /\ Running(r)
    /\ \E track \in {"replace", "config"} :
          /\ Undelivered(r, track) # << >>
          /\ track = "config" => Undelivered(r, "replace") = << >>
          /\ tally' = [tally EXCEPT ![r][track] = @ + 1]
          /\ Authored(r, track, Head(Undelivered(r, track)))
    /\ UNCHANGED <<closed, wireMu, cellVars, rpc, lc, left, hpc, histVars>>

(* Mutant: the configuration audits are left for later. *)
AuditsOverEarly(r) ==
    /\ rpc[r] = "audits" /\ Running(r) /\ Goto(r, "loop")
    /\ Undelivered(r, "replace") = << >>
    /\ UNCHANGED <<closed, wireMu, cellVars, seq, lc, tally, yielding, left,
          hpc, histVars>>

AuditsOver(r) ==
    /\ rpc[r] = "audits" /\ Running(r) /\ Goto(r, "loop")
    /\ Undelivered(r, "replace") = << >> /\ Undelivered(r, "config") = << >>
    /\ UNCHANGED <<closed, wireMu, cellVars, seq, lc, tally, yielding, left,
          hpc, histVars>>

(* The decision loop itself, for the boundary: some events, then a return. *)
LoopEvent(r) ==
    /\ rpc[r] = "loop" /\ Running(r) /\ left[r] > 0
    /\ left' = [left EXCEPT ![r] = @ - 1]
    /\ Authored(r, "loop", 0)
    /\ UNCHANGED <<closed, wireMu, cellVars, rpc, lc, tally, hpc, histVars>>

LoopReturns(r) ==
    /\ rpc[r] = "loop" /\ Running(r) /\ Goto(r, "requeue")
    /\ UNCHANGED <<closed, wireMu, cellVars, seq, lc, tally, yielding, left,
          hpc, histVars>>

Settled(r) ==
    /\ rpc[r] = "requeue" /\ Running(r) /\ Goto(r, "idle")
    /\ lc' = [lc EXCEPT ![r] = NoContext] /\ tally' = [tally EXCEPT ![r] = NoTally]
    /\ left' = [left EXCEPT ![r] = 0] /\ lastSeen' = [lastSeen EXCEPT ![r] = 0]
    /\ blind' = [blind EXCEPT ![r] = {}]
    /\ UNCHANGED <<closed, wireMu, ports, config, seq, yielding, hpc, starts,
          commits, log, seen, overlapped>>

(* Mutants: everything drained is handed back; it queues at the end. *)
RequeueAll(r) ==
    /\ Settled(r)
    /\ IF Undelivered(r, "replace") = << >> /\ Undelivered(r, "config") = << >>
       THEN UNCHANGED <<pendingReplace, pendingConfig>>
       ELSE /\ wireMu = Free
            /\ pendingReplace' = lc[r].audits.replace \o pendingReplace
            /\ pendingConfig' = lc[r].audits.config \o pendingConfig

RequeueBehind(r) ==
    /\ Settled(r)
    /\ IF Undelivered(r, "replace") = << >> /\ Undelivered(r, "config") = << >>
       THEN UNCHANGED <<pendingReplace, pendingConfig>>
       ELSE /\ wireMu = Free
            /\ pendingReplace' = pendingReplace \o Undelivered(r, "replace")
            /\ pendingConfig' = pendingConfig \o Undelivered(r, "config")

(* What was drained and not delivered goes back in front of what was swapped *)
(* meanwhile; with nothing to hand back the lock is not taken.               *)
RequeueUndelivered(r) ==
    /\ Settled(r)
    /\ IF Undelivered(r, "replace") = << >> /\ Undelivered(r, "config") = << >>
       THEN UNCHANGED <<pendingReplace, pendingConfig>>
       ELSE /\ wireMu = Free
            /\ pendingReplace' = Undelivered(r, "replace") \o pendingReplace
            /\ pendingConfig' = Undelivered(r, "config") \o pendingConfig

-----------------------------------------------------------------------------
(* The hosts. *)
HostGoto(h, next) == hpc' = [hpc EXCEPT ![h] = next]

Stored == Len(commits.replace) + Len(commits.config)

(* Agent.Replace and UpdateConfig read closed before anything else. *)
Ask(h, next) ==
    /\ hpc[h] = "idle" /\ ~closed
    /\ Stored + Cardinality({g \in Hosts : hpc[g] # "idle"}) < MaxSwaps
    /\ HostGoto(h, next)
    /\ UNCHANGED <<closed, wireMu, cellVars, seq, runVars, histVars>>

(* The slot has accepted the port, which is brought up if it is Bootable.  *)
Replace(h) == Ask(h, "boot")

Boot(h) ==
    /\ hpc[h] = "boot" /\ (HostGoto(h, "replace") \/ HostGoto(h, "idle"))
    /\ UNCHANGED <<closed, wireMu, cellVars, seq, runVars, histVars>>

(* Cell.Replace reads closed again, under the lock, which Close does not   *)
(* take.                                                                   *)
ReplaceLock(h) ==
    /\ hpc[h] = "replace" /\ wireMu = Free
    /\ IF closed THEN HostGoto(h, "idle") /\ UNCHANGED wireMu
                 ELSE HostGoto(h, "store") /\ wireMu' = h
    /\ UNCHANGED <<closed, cellVars, seq, runVars, histVars>>

ReplaceStore(h) ==
    /\ hpc[h] = "store" /\ wireMu = h /\ wireMu' = Free /\ HostGoto(h, "idle")
    /\ \E slot \in Slots :
          LET audit == [slot |-> slot, old |-> ports[slot], new |-> Stored + 1]
          IN  /\ ports' = [ports EXCEPT ![slot] = Stored + 1]
              /\ pendingReplace' = Append(pendingReplace, audit)
              /\ commits' = [commits EXCEPT !.replace = Append(@, audit)]
    /\ UNCHANGED <<closed, config, pendingConfig, seq, runVars, starts, logVars,
          overlapped, blind>>

UpdateConfig(h) == Ask(h, "config")

StoreConfig(h) ==
    /\ hpc[h] = "config" /\ wireMu = Free /\ HostGoto(h, "idle")
    /\ config' = Stored + 1
    /\ LET audit == [old |-> config, new |-> Stored + 1]
       IN  /\ pendingConfig' = Append(pendingConfig, audit)
           /\ commits' = [commits EXCEPT !.config = Append(@, audit)]
    /\ UNCHANGED <<closed, wireMu, ports, pendingReplace, seq, runVars, starts,
          logVars, overlapped, blind>>

(* One compare-and-swap; it takes no lock. *)
Close ==
    /\ ~closed /\ closed' = TRUE
    /\ UNCHANGED <<wireMu, cellVars, seq, runVars, hpc, histVars>>

-----------------------------------------------------------------------------
RunStep(r) ==
    \/ Start(r) \/ Refused(r) \/ Snapshot(r) \/ PreludeDies(r)
    \/ PreludePasses(r) \/ EmitAudit(r) \/ AuditsOver(r) \/ LoopEvent(r)
    \/ LoopReturns(r) \/ RequeueUndelivered(r) \/ Deliver(r)
HostStep(h) ==
    \/ Replace(h) \/ Boot(h) \/ ReplaceLock(h) \/ ReplaceStore(h)
    \/ UpdateConfig(h) \/ StoreConfig(h)

Next == (\E r \in Runs : RunStep(r)) \/ (\E h \in Hosts : HostStep(h)) \/ Close

Spec == Init /\ [][Next]_vars
=============================================================================
