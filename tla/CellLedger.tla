----------------------------- MODULE CellLedger -----------------------------
(***************************************************************************)
(* The strengthenings the proofs about the cell rest on.  Of one kind of   *)
(* swap only four things matter: what was committed, what is queued, what  *)
(* each run holds and what was received.  Every audit is in exactly one    *)
(* place; while invocations follow one another the places in a row are the *)
(* history; and what the audits received and held add up to is what the    *)
(* run that holds them works with.  Where invocations overlap, a run works *)
(* with nothing but what was received, what it holds itself and what       *)
(* others held when it took its snapshot.                                  *)
(***************************************************************************)
EXTENDS CellProperties, Functions

AuditType(track) == IF track = "replace" THEN ReplaceAudits ELSE ConfigAudits

(* What a run has in hand of a track, the audit on its way first. *)
Outstanding(r, track) == InFlight(r, track) \o Undelivered(r, track)
Held(track) == [r \in Runs |-> Outstanding(r, track)]

(* One track of audits of this cell. *)
Track(track) == INSTANCE AuditTrack WITH
    Audits <- AuditType(track), committed <- commits[track],
    queue <- Pending(track), held <- Held(track), received <- log[track]

-----------------------------------------------------------------------------
(* The types, TypeOK's with those of the histories and of an event on its *)
(* way.                                                                   *)
Phasing == {"idle", "refused", "open", "prelude", "audits", "loop", "requeue"}

ControlTypes ==
    /\ closed \in BOOLEAN /\ wireMu \in Hosts \cup {Free}
    /\ hpc \in [Hosts -> {"idle", "boot", "replace", "store", "config"}]
    /\ rpc \in [Runs -> Phasing] /\ starts \in Nat /\ overlapped \in BOOLEAN

WiringTypes == ports \in [Slots -> 0 .. MaxSwaps] /\ config \in 0 .. MaxSwaps

QueueTypes == pendingReplace \in Seq(ReplaceAudits) /\ pendingConfig \in Seq(ConfigAudits)

AuditTypes(a) == a \in [replace : Seq(ReplaceAudits), config : Seq(ConfigAudits)]

RunTypes ==
    /\ lc \in [Runs -> [ports : [Slots -> 0 .. MaxSwaps], config : 0 .. MaxSwaps,
                        audits : [replace : Seq(ReplaceAudits),
                                  config : Seq(ConfigAudits)]]]
    /\ tally \in [Runs -> [replace : Nat, config : Nat]]
    /\ left \in [Runs -> 0 .. MaxEvents]
    /\ \A r \in Runs : /\ tally[r].replace <= Len(lc[r].audits.replace)
                       /\ tally[r].config <= Len(lc[r].audits.config)

Events(track) == [kind : {track}, seq : Nat, audit : AuditType(track)]

EventTypes ==
    /\ yielding \in [Runs -> {NoEvent} \cup [kind : {"error", "loop"}, seq : Nat, audit : {0}]
                              \cup Events("replace") \cup Events("config")]
    /\ seq \in Nat /\ seen \subseteq 1 .. seq /\ lastSeen \in [Runs -> Nat]

Types ==
    /\ ControlTypes /\ WiringTypes /\ QueueTypes /\ AuditTypes(commits)
    /\ AuditTypes(log) /\ RunTypes /\ EventTypes

(* A host that has asked for a swap has room reserved for its number. *)
Working == {h \in Hosts : hpc[h] # "idle"}

Hostbook ==
    /\ IsFiniteSet(Working)
    /\ Stored + Cardinality(Working) <= MaxSwaps

(* A number on its way is taken, was given to nobody else and is beyond    *)
(* the ones its own consumer has seen.                                     *)
Numbers ==
    /\ \A r \in Runs : lastSeen[r] <= seq
    /\ \A r \in Runs : yielding[r] # NoEvent =>
          /\ yielding[r].seq \in 1 .. seq /\ yielding[r].seq \notin seen
          /\ yielding[r].seq > lastSeen[r]
    /\ \A r, q \in Runs :
          r # q /\ yielding[r] # NoEvent /\ yielding[q] # NoEvent =>
             yielding[r].seq # yielding[q].seq

(* Where a run may hold audits, and what it may be yielding there. *)
Phases ==
    \A r \in Runs :
        /\ rpc[r] \in {"idle", "open", "prelude"} => yielding[r] = NoEvent
        /\ rpc[r] \in {"idle", "refused", "open"} =>
              lc[r].audits = NoTracks /\ tally[r] = NoTally
        /\ rpc[r] = "prelude" => tally[r] = NoTally
        /\ yielding[r].kind \in Tracks => rpc[r] = "audits"
        /\ rpc[r] = "loop" =>
              \A track \in Tracks : Undelivered(r, track) = << >>

-----------------------------------------------------------------------------
(* A committed audit is received, queued or held, in one place of one of    *)
(* them.                                                                    *)
Apart(s, t) == Range(s) \cap Range(t) = {}

Partition(C, Q, H, R) ==
    /\ IsInjective(R) /\ IsInjective(Q) /\ Apart(R, Q)
    /\ \A r \in Runs : IsInjective(H[r]) /\ Apart(H[r], R) /\ Apart(H[r], Q)
    /\ \A r, q \in Runs : r # q => Apart(H[r], H[q])
    /\ Range(C) = Range(R) \cup Range(Q) \cup UNION {Range(H[r]) : r \in Runs}

Numbered == \A track \in Tracks : \A i \in DOMAIN commits[track] :
    commits[track][i].new <= Stored

Conserved == \A track \in Tracks :
    Partition(commits[track], Pending(track), Held(track), log[track])

(* While invocations follow one another there is one run to hold audits,   *)
(* and the places in a row are the history.                                *)
InARow(C, R, H, Q) == C = (R \o H) \o Q

Row(track) ==
    /\ Active = {} => InARow(commits[track], log[track], << >>, Pending(track))
    /\ \A r \in Active :
          InARow(commits[track], log[track], Held(track)[r], Pending(track))

InOrder ==
    ~overlapped => /\ \A r, q \in Active : r = q
                   /\ \A track \in Tracks : Row(track)

(* The last audit of q, or the last about a slot, left v behind. *)
LastConfig(q, v) ==
    IF q = << >> THEN v = 0 ELSE v = q[Len(q)].new

LastPort(q, s, v) ==
    \/ v = 0 /\ \A i \in DOMAIN q : q[i].slot # s
    \/ \E i \in DOMAIN q :
          /\ q[i].slot = s /\ q[i].new = v
          /\ \A j \in DOMAIN q : q[j].slot = s => j <= i

AddsUp(replaced, configured, p, c) ==
    LastConfig(configured, c) /\ \A s \in Slots : LastPort(replaced, s, p[s])

(* The wiring is what the swaps left, and a run works with what its        *)
(* consumer has been told and is about to be told.                         *)
Wired == AddsUp(commits.replace, commits.config, ports, config)

Told(R, H) == R \o H

TellingRun(r) ==
    AddsUp(Told(log.replace, Held("replace")[r]), Told(log.config, Held("config")[r]),
           lc[r].ports, lc[r].config)

Tell ==
    ~overlapped => \A r \in Runs :
        rpc[r] \in {"prelude", "audits", "loop"} => TellingRun(r)

(* Overlapping or not, a swap a run works with was received, is in the      *)
(* run's own hand, or was in another's when the run took its snapshot.      *)
Carries(q, v) == \E a \in Range(q) : a.new = v

Accounted(r, R, H, v) ==
    v = NoSwap \/ v \in blind[r] \/ Carries(R, v) \/ Carries(H, v)

AccountedRun(r) ==
    /\ Accounted(r, log.config, Held("config")[r], lc[r].config)
    /\ \A s \in Slots : Accounted(r, log.replace, Held("replace")[r], lc[r].ports[s])

Owed ==
    /\ DOMAIN blind = Runs
    /\ \A r \in Runs : rpc[r] \in {"prelude", "audits", "loop"} => AccountedRun(r)

CellLedgers ==
    /\ Types /\ Hostbook /\ Numbers /\ Phases /\ Numbered /\ Conserved
    /\ InOrder /\ Wired /\ Tell /\ Owed
=============================================================================
