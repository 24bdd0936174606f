----------------------------- MODULE CellProofs -----------------------------
(***************************************************************************)
(* Proofs about the cell for any number of invocations, hosts, slots,      *)
(* swaps and events.                                                       *)
(***************************************************************************)
EXTENDS CellLedger, FiniteSetTheorems, SequenceTheorems, TLAPS

-----------------------------------------------------------------------------
(* Types. *)

LEMMA NumberTypes == MaxSwaps \in Nat /\ MaxStarts \in Nat /\ MaxEvents \in Nat
BY CellAssumption

LEMMA NatSum == \A a, b \in Nat : a + b \in Nat
OBVIOUS

LEMMA EmptySequences == \A S : << >> \in Seq(S)
BY EmptySeq

LEMMA TypesInit == Init => Types
<1> SUFFICES ASSUME Init PROVE Types
    OBVIOUS
<1>1. ControlTypes /\ WiringTypes
    <2>1. WiringTypes
        BY NumberTypes DEF Init, Assembled, WiringTypes
    <2>2. ControlTypes
        BY DEF Init, ControlTypes, Phasing
    <2> QED
        BY <2>1, <2>2
<1>2. QueueTypes
    BY EmptySequences DEF Init, QueueTypes
<1>3. AuditTypes(commits) /\ AuditTypes(log)
    BY EmptySequences DEF Init, AuditTypes, NoTracks
<1>4. RunTypes
    <2>1. NoContext \in [ports : [Slots -> 0 .. MaxSwaps], config : 0 .. MaxSwaps,
                         audits : [replace : Seq(ReplaceAudits),
                                   config : Seq(ConfigAudits)]]
        BY NumberTypes, EmptySequences DEF NoContext, NoTracks, Assembled
    <2>2. NoTally \in [replace : Nat, config : Nat]
        BY DEF NoTally
    <2>3. 0 \in 0 .. MaxEvents
        BY NumberTypes
    <2> QED
        BY <2>1, <2>2, <2>3, EmptySeq DEF Init, RunTypes, NoContext, NoTracks, NoTally
<1>5. EventTypes
    BY DEF Init, EventTypes
<1> QED
    BY <1>1, <1>2, <1>3, <1>4, <1>5 DEF Types

LEMMA TypesGiveTypeOK == Types => TypeOK
<1> SUFFICES ASSUME Types PROVE TypeOK
    OBVIOUS
<1>1. ASSUME NEW r \in Runs, NEW track \in Tracks
      PROVE  tally[r][track] \in 0 .. Len(lc[r].audits[track])
    <2>1. CASE track = "replace"
        <3>1. lc[r].audits.replace \in Seq(ReplaceAudits)
            BY DEF Types, RunTypes
        <3>2. Len(lc[r].audits.replace) \in Nat
            BY <3>1, LenProperties
        <3> QED
            BY <2>1, <3>2 DEF Types, RunTypes
    <2>2. CASE track = "config"
        <3>1. lc[r].audits.config \in Seq(ConfigAudits)
            BY DEF Types, RunTypes
        <3>2. Len(lc[r].audits.config) \in Nat
            BY <3>1, LenProperties
        <3> QED
            BY <2>2, <3>2 DEF Types, RunTypes
    <2> QED
        BY <2>1, <2>2 DEF Tracks
<1>2. ASSUME NEW r \in Runs
      PROVE  /\ lc[r].ports \in [Slots -> 0 .. MaxSwaps] /\ lc[r].config \in 0 .. MaxSwaps
             /\ lc[r].audits.replace \in Seq(ReplaceAudits)
             /\ lc[r].audits.config \in Seq(ConfigAudits)
             /\ left[r] \in 0 .. MaxEvents
    BY DEF Types, RunTypes
<1>3. /\ closed \in BOOLEAN /\ wireMu \in Hosts \cup {Free}
      /\ hpc \in [Hosts -> {"idle", "boot", "replace", "store", "config"}]
      /\ rpc \in [Runs -> {"idle", "refused", "open", "prelude", "audits", "loop", "requeue"}]
    BY DEF Types, ControlTypes, Phasing
<1>4. /\ ports \in [Slots -> 0 .. MaxSwaps] /\ config \in 0 .. MaxSwaps
      /\ pendingReplace \in Seq(ReplaceAudits) /\ pendingConfig \in Seq(ConfigAudits)
      /\ seq \in Nat /\ seen \subseteq 1 .. seq
    BY DEF Types, WiringTypes, QueueTypes, EventTypes
<1> QED
    BY <1>1, <1>2, <1>3, <1>4 DEF TypeOK

-----------------------------------------------------------------------------
(* Which steps change what. *)

LEMMA Frame ==
    ASSUME [Next]_vars
    PROVE  /\ \/ UNCHANGED <<ports, config, commits>>
              \/ \E h \in Hosts : ReplaceStore(h) \/ StoreConfig(h)
           /\ \/ UNCHANGED <<pendingReplace, pendingConfig>>
              \/ \E h \in Hosts : ReplaceStore(h) \/ StoreConfig(h)
              \/ \E r \in Runs : Snapshot(r) \/ RequeueUndelivered(r)
           /\ \/ UNCHANGED <<lc, tally, left>>
              \/ \E r \in Runs : \/ Snapshot(r) \/ EmitAudit(r) \/ LoopEvent(r)
                                  \/ RequeueUndelivered(r)
           /\ \/ UNCHANGED <<yielding, seq, seen, lastSeen>>
              \/ \E r \in Runs : \/ Start(r) \/ Refused(r) \/ PreludeDies(r)
                                  \/ EmitAudit(r) \/ LoopEvent(r) \/ Deliver(r)
                                  \/ RequeueUndelivered(r)
           /\ UNCHANGED log \/ \E r \in Runs : Deliver(r)
           /\ \/ UNCHANGED <<hpc, commits>>
              \/ \E h \in Hosts : HostStep(h)
<1>1. CASE UNCHANGED vars
    BY <1>1 DEF vars, cellVars, runVars, logVars, histVars
<1>2. ASSUME NEW r \in Runs, RunStep(r)
      PROVE  /\ UNCHANGED <<ports, config, commits, hpc>>
             /\ UNCHANGED log \/ Deliver(r)
             /\ \/ UNCHANGED <<pendingReplace, pendingConfig>>
                \/ Snapshot(r) \/ RequeueUndelivered(r)
             /\ \/ UNCHANGED <<lc, tally, left>>
                \/ Snapshot(r) \/ EmitAudit(r) \/ LoopEvent(r) \/ RequeueUndelivered(r)
             /\ \/ UNCHANGED <<yielding, seq, seen, lastSeen>>
                \/ Start(r) \/ Refused(r) \/ PreludeDies(r) \/ EmitAudit(r)
                \/ LoopEvent(r) \/ Deliver(r) \/ RequeueUndelivered(r)
    BY <1>2 DEF RunStep, Start, Refused, Snapshot, PreludeDies, PreludePasses,
        EmitAudit, AuditsOver, LoopEvent, LoopReturns, RequeueUndelivered, Settled,
        Deliver, Authored, cellVars, runVars, logVars, histVars
<1>3. ASSUME NEW h \in Hosts, HostStep(h)
      PROVE  /\ UNCHANGED <<lc, tally, left, yielding, seq, seen, lastSeen, log>>
             /\ \/ UNCHANGED <<ports, config, commits, pendingReplace, pendingConfig>>
                \/ ReplaceStore(h) \/ StoreConfig(h)
    BY <1>3 DEF HostStep, Replace, UpdateConfig, Ask, Boot, ReplaceLock, ReplaceStore,
        StoreConfig, cellVars, runVars, logVars, histVars
<1>4. CASE Close
    BY <1>4 DEF Close, cellVars, runVars, logVars, histVars
<1> QED
    BY <1>1, <1>2, <1>3, <1>4 DEF Next

LEMMA ControlTypesNext ==
    ASSUME ControlTypes, [Next]_vars
    PROVE  ControlTypes'
<1>1. CASE UNCHANGED vars
    BY <1>1 DEF ControlTypes, vars, cellVars, runVars, logVars, histVars
<1>2. ASSUME NEW r \in Runs, RunStep(r)
      PROVE  ControlTypes'
    <2>1. CASE Refused(r) \/ Snapshot(r) \/ PreludeDies(r)
        BY <2>1 DEF ControlTypes, Phasing, Goto, Refused, Snapshot, PreludeDies,
            cellVars, runVars, logVars, histVars
    <2>5. CASE Start(r)
        <3>1. starts' \in Nat
            BY <2>5 DEF ControlTypes, Start
        <3>2. overlapped' \in BOOLEAN
            BY <2>5 DEF ControlTypes, Start
        <3>3. rpc' \in [Runs -> Phasing]
            BY <2>5 DEF ControlTypes, Phasing, Goto, Start
        <3> QED
            BY <2>5, <3>1, <3>2, <3>3 DEF ControlTypes, Start
    <2>2. CASE PreludePasses(r) \/ EmitAudit(r) \/ AuditsOver(r) \/ LoopEvent(r)
        BY <2>2 DEF ControlTypes, Phasing, Goto, PreludePasses, EmitAudit, AuditsOver,
            LoopEvent, cellVars, runVars, logVars, histVars
    <2>3. CASE LoopReturns(r) \/ RequeueUndelivered(r)
        BY <2>3 DEF ControlTypes, Phasing, Goto, LoopReturns, RequeueUndelivered, Settled,
            cellVars, runVars, logVars, histVars
    <2>4. CASE Deliver(r)
        BY <2>4 DEF ControlTypes, Phasing, Goto, Deliver, cellVars, runVars, logVars, histVars
    <2> QED
        BY <1>2, <2>1, <2>2, <2>3, <2>4, <2>5 DEF RunStep
<1>3. ASSUME NEW h \in Hosts, HostStep(h)
      PROVE  ControlTypes'
    BY <1>3 DEF ControlTypes, HostGoto, HostStep, Replace, UpdateConfig, Ask, Boot,
        ReplaceLock, ReplaceStore, StoreConfig, cellVars, runVars, logVars, histVars
<1>4. CASE Close
    BY <1>4 DEF ControlTypes, Close, cellVars, runVars, logVars, histVars
<1> QED
    BY <1>1, <1>2, <1>3, <1>4 DEF Next

-----------------------------------------------------------------------------
(* The numbers of swaps stay within the room that was asked for. *)

LEMMA StoredTypes ==
    ASSUME AuditTypes(commits)
    PROVE  /\ Stored \in Nat
           /\ Len(commits.replace) \in Nat /\ Len(commits.config) \in Nat
<1>1. commits.replace \in Seq(ReplaceAudits) /\ commits.config \in Seq(ConfigAudits)
    BY DEF AuditTypes
<1>2. Len(commits.replace) \in Nat /\ Len(commits.config) \in Nat
    BY <1>1, LenProperties
<1> QED
    BY <1>2, NatSum DEF Stored

LEMMA RoomToStore ==
    ASSUME ControlTypes, AuditTypes(commits), Hostbook,
           NEW h \in Hosts, hpc[h] # "idle"
    PROVE  Stored + 1 \in Swaps
<1>1. Cardinality(Working) \in Nat /\ Cardinality(Working) # 0
    <2>1. Working # {}
        BY DEF Working
    <2> QED
        BY <2>1, FS_CardinalityType, FS_EmptySet DEF Hostbook
<1>2. Stored \in Nat
    BY StoredTypes
<1> QED
    BY <1>1, <1>2, NumberTypes DEF Hostbook, Swaps

LEMMA ReplaceStored ==
    ASSUME ControlTypes, WiringTypes, QueueTypes, AuditTypes(commits), Hostbook,
           NEW h \in Hosts, ReplaceStore(h)
    PROVE  /\ \E audit \in ReplaceAudits :
                 /\ audit.new = Stored + 1
                 /\ ports' = [ports EXCEPT ![audit.slot] = audit.new]
                 /\ pendingReplace' = Append(pendingReplace, audit)
                 /\ commits'.replace = Append(commits.replace, audit)
           /\ commits'.config = commits.config /\ UNCHANGED <<config, pendingConfig>>
           /\ Stored' = Stored + 1
           /\ WiringTypes' /\ QueueTypes' /\ AuditTypes(commits)'
<1>1. PICK slot \in Slots :
         LET audit == [slot |-> slot, old |-> ports[slot], new |-> Stored + 1]
         IN  /\ ports' = [ports EXCEPT ![slot] = Stored + 1]
             /\ pendingReplace' = Append(pendingReplace, audit)
             /\ commits' = [commits EXCEPT !.replace = Append(@, audit)]
    BY DEF ReplaceStore
<1> DEFINE a == [slot |-> slot, old |-> ports[slot], new |-> Stored + 1]
<1>2. Stored + 1 \in Swaps /\ Stored \in Nat
    BY RoomToStore, StoredTypes DEF ReplaceStore
<1>3. a \in ReplaceAudits
    BY <1>2 DEF WiringTypes, ReplaceAudits
<1>4. a.new = Stored + 1 /\ a.slot = slot
    OBVIOUS
<1>5. /\ commits'.replace = Append(commits.replace, a)
      /\ commits'.config = commits.config
      /\ commits.replace \in Seq(ReplaceAudits) /\ commits.config \in Seq(ConfigAudits)
    BY <1>1 DEF AuditTypes
<1>6. /\ Append(commits.replace, a) \in Seq(ReplaceAudits)
      /\ Len(Append(commits.replace, a)) = Len(commits.replace) + 1
      /\ Append(pendingReplace, a) \in Seq(ReplaceAudits)
    BY <1>3, <1>5, AppendProperties DEF QueueTypes
<1>7. AuditTypes(commits)'
    BY <1>1, <1>5, <1>6 DEF AuditTypes
<1>8. Stored' = Stored + 1
    <2>1. \A m, n \in Nat : (m + 1) + n = (m + n) + 1
        OBVIOUS
    <2>2. Len(commits'.replace) = Len(commits.replace) + 1 /\ Len(commits'.config) = Len(commits.config)
        BY <1>5, <1>6
    <2>3. Len(commits.replace) \in Nat /\ Len(commits.config) \in Nat
        BY StoredTypes
    <2>4. Len(commits'.replace) + Len(commits'.config)
             = (Len(commits.replace) + Len(commits.config)) + 1
        BY <2>1, <2>2, <2>3
    <2> QED
        BY <2>4 DEF Stored
<1>9. UNCHANGED <<config, pendingConfig>>
    BY DEF ReplaceStore
<1>10. WiringTypes' /\ QueueTypes'
    <2>1. Stored + 1 \in 0 .. MaxSwaps
        BY <1>2, NumberTypes DEF Swaps
    <2>2. ports' \in [Slots -> 0 .. MaxSwaps]
        BY <1>1, <2>1 DEF WiringTypes
    <2> QED
        BY <1>1, <1>6, <1>9, <2>2 DEF WiringTypes, QueueTypes
<1> HIDE DEF a
<1>11. ports' = [ports EXCEPT ![a.slot] = a.new]
    BY <1>1, <1>4
<1>12. pendingReplace' = Append(pendingReplace, a)
    BY <1>1 DEF a
<1> QED
    BY <1>3, <1>4, <1>5, <1>7, <1>8, <1>9, <1>10, <1>11, <1>12

LEMMA ConfigStored ==
    ASSUME ControlTypes, WiringTypes, QueueTypes, AuditTypes(commits), Hostbook,
           NEW h \in Hosts, StoreConfig(h)
    PROVE  /\ \E audit \in ConfigAudits :
                 /\ audit.new = Stored + 1 /\ config' = audit.new
                 /\ pendingConfig' = Append(pendingConfig, audit)
                 /\ commits'.config = Append(commits.config, audit)
           /\ commits'.replace = commits.replace /\ UNCHANGED <<ports, pendingReplace>>
           /\ Stored' = Stored + 1
           /\ WiringTypes' /\ QueueTypes' /\ AuditTypes(commits)'
<1> DEFINE a == [old |-> config, new |-> Stored + 1]
<1>1. /\ config' = Stored + 1 /\ pendingConfig' = Append(pendingConfig, a)
      /\ commits' = [commits EXCEPT !.config = Append(@, a)]
    BY DEF StoreConfig
<1>2. Stored + 1 \in Swaps /\ Stored \in Nat
    BY RoomToStore, StoredTypes DEF StoreConfig
<1>3. a \in ConfigAudits
    BY <1>2 DEF WiringTypes, ConfigAudits
<1>4. a.new = Stored + 1
    OBVIOUS
<1>5. /\ commits'.config = Append(commits.config, a)
      /\ commits'.replace = commits.replace
      /\ commits.replace \in Seq(ReplaceAudits) /\ commits.config \in Seq(ConfigAudits)
    BY <1>1 DEF AuditTypes
<1>6. /\ Append(commits.config, a) \in Seq(ConfigAudits)
      /\ Len(Append(commits.config, a)) = Len(commits.config) + 1
      /\ Append(pendingConfig, a) \in Seq(ConfigAudits)
    BY <1>3, <1>5, AppendProperties DEF QueueTypes
<1>7. AuditTypes(commits)'
    BY <1>1, <1>5, <1>6 DEF AuditTypes
<1>8. Stored' = Stored + 1
    <2>1. \A m, n \in Nat : n + (m + 1) = (n + m) + 1
        OBVIOUS
    <2>2. Len(commits'.config) = Len(commits.config) + 1 /\ Len(commits'.replace) = Len(commits.replace)
        BY <1>5, <1>6
    <2>3. Len(commits.replace) \in Nat /\ Len(commits.config) \in Nat
        BY StoredTypes
    <2>4. Len(commits'.replace) + Len(commits'.config)
             = (Len(commits.replace) + Len(commits.config)) + 1
        BY <2>1, <2>2, <2>3
    <2> QED
        BY <2>4 DEF Stored
<1>9. UNCHANGED <<ports, pendingReplace>>
    BY DEF StoreConfig
<1>10. WiringTypes' /\ QueueTypes'
    <2>1. Stored + 1 \in 0 .. MaxSwaps
        BY <1>2, NumberTypes DEF Swaps
    <2> QED
        BY <1>1, <1>6, <1>9, <2>1 DEF WiringTypes, QueueTypes
<1> HIDE DEF a
<1> QED
    BY <1>1, <1>3, <1>4, <1>5, <1>7, <1>8, <1>9, <1>10

LEMMA HostbookInit == Init => Hostbook
<1> SUFFICES ASSUME Init PROVE Hostbook
    OBVIOUS
<1>1. Working = {}
    BY DEF Init, Working
<1>2. Stored = 0
    BY EmptySeq DEF Init, Stored, NoTracks
<1> QED
    BY <1>1, <1>2, FS_EmptySet, NumberTypes DEF Hostbook

LEMMA HostbookNext ==
    ASSUME ControlTypes, WiringTypes, QueueTypes, AuditTypes(commits), Hostbook,
           [Next]_vars
    PROVE  Hostbook'
<1>1. IsFiniteSet(Working) /\ Cardinality(Working) \in Nat
    BY FS_CardinalityType DEF Hostbook
<1>2. Stored \in Nat
    BY StoredTypes
<1>3. CASE UNCHANGED <<hpc, commits>>
    BY <1>3 DEF Hostbook, Working, Stored
<1>4. ASSUME NEW h \in Hosts, HostStep(h)
      PROVE  Hostbook'
    <2>1. ASSUME hpc[h] # "idle", Stored' = Stored \/ Stored' = Stored + 1,
                 Working' = Working \ {h}
          PROVE  Hostbook'
        <3>1. h \in Working
            BY <2>1 DEF Working
        <3>2. /\ IsFiniteSet(Working \ {h})
              /\ Cardinality(Working \ {h}) = Cardinality(Working) - 1
            BY <1>1, <3>1, FS_RemoveElement
        <3> QED
            BY <1>1, <1>2, <2>1, <3>2, NumberTypes DEF Hostbook
    <2>2. ASSUME Stored' = Stored, Working' = Working
          PROVE  Hostbook'
        BY <2>2 DEF Hostbook
    <2>3. ASSUME NEW next \in {"boot", "config"}, Ask(h, next)
          PROVE  Hostbook'
        <3>1. Stored + Cardinality(Working) < MaxSwaps /\ h \notin Working
            BY <2>3 DEF Ask, Working
        <3>2. Working' = Working \cup {h}
            BY <2>3 DEF Ask, HostGoto, Working, ControlTypes
        <3>3. /\ IsFiniteSet(Working \cup {h})
              /\ Cardinality(Working \cup {h}) = Cardinality(Working) + 1
            BY <1>1, <3>1, FS_AddElement
        <3>4. Stored' = Stored
            BY <2>3 DEF Ask, histVars, Stored
        <3> QED
            BY <1>1, <1>2, <3>1, <3>2, <3>3, <3>4, NumberTypes DEF Hostbook
    <2>4. CASE Boot(h) \/ ReplaceLock(h)
        <3>1. hpc[h] # "idle" /\ Stored' = Stored
            BY <2>4 DEF Boot, ReplaceLock, histVars, Stored
        <3>2. Working' = Working \/ Working' = Working \ {h}
            BY <2>4 DEF Boot, ReplaceLock, HostGoto, Working, ControlTypes
        <3> QED
            BY <2>1, <2>2, <3>1, <3>2
    <2>5. CASE ReplaceStore(h) \/ StoreConfig(h)
        <3>1. hpc[h] # "idle" /\ Working' = Working \ {h}
            BY <2>5 DEF ReplaceStore, StoreConfig, HostGoto, Working, ControlTypes
        <3>2. Stored' = Stored + 1
            BY <2>5, ReplaceStored, ConfigStored
        <3> QED
            BY <2>1, <3>1, <3>2
    <2> QED
        BY <1>4, <2>3, <2>4, <2>5 DEF HostStep, Replace, UpdateConfig
<1> QED
    BY <1>3, <1>4, Frame

-----------------------------------------------------------------------------
(* What a run has not delivered is a tail of what it drained. *)

LEMMA DrainedTypes ==
    ASSUME RunTypes, NEW r \in Runs, NEW track \in Tracks
    PROVE  /\ lc[r].audits[track] \in Seq(AuditType(track))
           /\ Len(lc[r].audits[track]) \in Nat
           /\ tally[r][track] \in Nat /\ tally[r][track] <= Len(lc[r].audits[track])
<1>1. CASE track = "replace"
    <2>1. lc[r].audits.replace \in Seq(ReplaceAudits)
        BY DEF RunTypes
    <2> QED
        BY <1>1, <2>1, LenProperties DEF RunTypes, AuditType
<1>2. CASE track = "config"
    <2>1. lc[r].audits.config \in Seq(ConfigAudits)
        BY DEF RunTypes
    <2> QED
        BY <1>2, <2>1, LenProperties DEF RunTypes, AuditType
<1> QED
    BY <1>1, <1>2 DEF Tracks

LEMMA TailOfSubSeq ==
    ASSUME NEW S, NEW s \in Seq(S), NEW n \in Nat, n <= Len(s)
    PROVE  /\ SubSeq(s, n + 1, Len(s)) \in Seq(S)
           /\ Len(SubSeq(s, n + 1, Len(s))) = Len(s) - n
           /\ SubSeq(s, n + 1, Len(s)) = << >> <=> n = Len(s)
           /\ n < Len(s) => /\ Head(SubSeq(s, n + 1, Len(s))) = s[n + 1]
                            /\ s[n + 1] \in S
                            /\ Tail(SubSeq(s, n + 1, Len(s))) = SubSeq(s, n + 2, Len(s))
<1>1. Len(s) \in Nat
    BY LenProperties
<1> DEFINE m == n + 1
           L == Len(s)
<1>2. m \in Int /\ L \in Int /\ m >= 1 /\ L - m + 1 = L - n
    BY <1>1
<1>3. \A i \in m .. L : s[i] \in S
    <2>1. \A i \in m .. L : i \in 1 .. Len(s)
        BY <1>1
    <2> QED
        BY <2>1, ElementOfSeq
<1>4. /\ SubSeq(s, m, L) \in Seq(S)
      /\ Len(SubSeq(s, m, L)) = IF m <= L THEN L - m + 1 ELSE 0
    <2> HIDE DEF m, L
    <2> QED
        BY <1>2, <1>3, SubSeqProperties
<1>5. Len(SubSeq(s, m, L)) = L - n
    <2>1. m <= L => L - m + 1 = L - n
        BY <1>1
    <2>2. ~(m <= L) => L - n = 0
        BY <1>1
    <2> HIDE DEF m, L
    <2> QED
        BY <1>4, <2>1, <2>2
<1>6. SubSeq(s, m, L) = << >> <=> n = L
    <2>1. SubSeq(s, m, L) = << >> <=> Len(SubSeq(s, m, L)) = 0
        <3> HIDE DEF m, L
        <3> QED
            BY <1>4, EmptySeq
    <2> QED
        BY <1>1, <1>5, <2>1
<1>7. ASSUME n < Len(s)
      PROVE  /\ Head(SubSeq(s, m, L)) = s[m] /\ s[m] \in S
             /\ Tail(SubSeq(s, m, L)) = SubSeq(s, m + 1, L)
    <2>1. m \in 1 .. Len(s) /\ L \in m .. Len(s)
        BY <1>1, <1>7
    <2> HIDE DEF m, L
    <2> QED
        BY <2>1, HeadTailOfSubSeq, ElementOfSeq
<1>8. m + 1 = n + 2
    OBVIOUS
<1> QED
    BY <1>4, <1>5, <1>6, <1>7, <1>8

LEMMA UndeliveredTypes ==
    ASSUME RunTypes, NEW r \in Runs, NEW track \in Tracks
    PROVE  /\ Undelivered(r, track) \in Seq(AuditType(track))
           /\ Undelivered(r, track) = << >>
                 <=> tally[r][track] = Len(lc[r].audits[track])
           /\ Undelivered(r, track) # << >> =>
                 /\ tally[r][track] < Len(lc[r].audits[track])
                 /\ Head(Undelivered(r, track)) \in AuditType(track)
                 /\ Tail(Undelivered(r, track))
                      = SubSeq(lc[r].audits[track], tally[r][track] + 2,
                               Len(lc[r].audits[track]))
<1> DEFINE s == lc[r].audits[track]
           n == tally[r][track]
           S == AuditType(track)
<1>1. s \in Seq(S) /\ Len(s) \in Nat /\ n \in Nat /\ n <= Len(s)
    BY DrainedTypes
<1>2. Undelivered(r, track) = SubSeq(s, n + 1, Len(s))
    BY DEF Undelivered
<1> HIDE DEF s, n, S
<1>3. /\ SubSeq(s, n + 1, Len(s)) \in Seq(S)
      /\ SubSeq(s, n + 1, Len(s)) = << >> <=> n = Len(s)
      /\ n < Len(s) => /\ Head(SubSeq(s, n + 1, Len(s))) \in S
                       /\ Tail(SubSeq(s, n + 1, Len(s))) = SubSeq(s, n + 2, Len(s))
    BY <1>1, TailOfSubSeq
<1>4. n # Len(s) => n < Len(s)
    BY <1>1
<1> QED
    BY <1>2, <1>3, <1>4 DEF s, n, S

-----------------------------------------------------------------------------
LEMMA AuthoredTypes ==
    ASSUME EventTypes, NEW r \in Runs, NEW kind, NEW audit, Authored(r, kind, audit),
           \/ kind \in {"error", "loop"} /\ audit = 0
           \/ kind \in Tracks /\ audit \in AuditType(kind)
    PROVE  /\ yielding' \in [Runs -> {NoEvent}
                  \cup [kind : {"error", "loop"}, seq : Nat, audit : {0}]
                  \cup Events("replace") \cup Events("config")]
           /\ seq' = seq + 1 /\ seq' \in Nat
           /\ yielding'[r] = [kind |-> kind, seq |-> seq', audit |-> audit]
           /\ yielding'[r].kind = kind /\ yielding'[r].audit = audit
           /\ \A q \in Runs : q # r => yielding'[q] = yielding[q]
<1> DEFINE e == [kind |-> kind, seq |-> seq', audit |-> audit]
           T == {NoEvent} \cup [kind : {"error", "loop"}, seq : Nat, audit : {0}]
                  \cup Events("replace") \cup Events("config")
<1>1. seq' = seq + 1 /\ seq' \in Nat
    BY DEF Authored, EventTypes
<1>2. e \in T
    <2>1. CASE kind \in {"error", "loop"} /\ audit = 0
        BY <1>1, <2>1
    <2>2. CASE kind = "replace" /\ audit \in AuditType("replace")
        BY <1>1, <2>2 DEF Events
    <2>3. CASE kind = "config" /\ audit \in AuditType("config")
        BY <1>1, <2>3 DEF Events
    <2> QED
        BY <2>1, <2>2, <2>3 DEF Tracks
<1>3. yielding \in [Runs -> T]
    BY DEF EventTypes
<1>4. yielding' = [yielding EXCEPT ![r] = e]
    BY DEF Authored
<1>6. e.kind = kind /\ e.audit = audit
    OBVIOUS
<1> HIDE DEF e, T
<1>5. /\ yielding' \in [Runs -> T] /\ yielding'[r] = e
      /\ \A q \in Runs : q # r => yielding'[q] = yielding[q]
    BY <1>2, <1>3, <1>4
<1> QED
    BY <1>1, <1>5, <1>6 DEF e, T

LEMMA YieldedSeq ==
    ASSUME EventTypes, NEW r \in Runs
    PROVE  /\ yielding[r].seq \in Nat
           /\ yielding[r].kind \in {"none", "error", "loop"} \cup Tracks
           /\ yielding[r].kind = "none" <=> yielding[r] = NoEvent
           /\ \A track \in Tracks :
                 yielding[r].kind = track => yielding[r].audit \in AuditType(track)
<1>1. CASE yielding[r] = NoEvent
    BY <1>1 DEF NoEvent, Tracks
<1>2. CASE yielding[r] \in [kind : {"error", "loop"}, seq : Nat, audit : {0}]
    BY <1>2 DEF NoEvent, Tracks
<1>3. CASE yielding[r] \in Events("replace")
    BY <1>3 DEF NoEvent, Tracks, Events
<1>4. CASE yielding[r] \in Events("config")
    BY <1>4 DEF NoEvent, Tracks, Events
<1> QED
    BY <1>1, <1>2, <1>3, <1>4 DEF EventTypes

-----------------------------------------------------------------------------
(* Each group of types through a step. *)

LEMMA LogTypesNext ==
    ASSUME Types, [Next]_vars
    PROVE  AuditTypes(log)'
<1>1. CASE UNCHANGED log
    BY <1>1 DEF Types, AuditTypes
<1>2. ASSUME NEW r \in Runs, Deliver(r)
      PROVE  AuditTypes(log)'
    <2>1. log.replace \in Seq(ReplaceAudits) /\ log.config \in Seq(ConfigAudits)
        BY DEF Types, AuditTypes
    <2>2. CASE yielding[r].kind = "replace"
        <3>1. Append(log.replace, yielding[r].audit) \in Seq(ReplaceAudits)
            <4>1. yielding[r].audit \in ReplaceAudits
                BY <2>2, YieldedSeq DEF Types, Tracks, AuditType
            <4> QED
                BY <2>1, <4>1, AppendProperties
        <3>2. log' = [log EXCEPT !.replace = Append(@, yielding[r].audit)]
            BY <1>2, <2>2 DEF Deliver
        <3> QED
            BY <3>1, <3>2 DEF Types, AuditTypes
    <2>3. CASE yielding[r].kind = "config"
        <3>1. Append(log.config, yielding[r].audit) \in Seq(ConfigAudits)
            <4>1. yielding[r].audit \in ConfigAudits
                BY <2>3, YieldedSeq DEF Types, Tracks, AuditType
            <4> QED
                BY <2>1, <4>1, AppendProperties
        <3>2. log' = [log EXCEPT !.config = Append(@, yielding[r].audit)]
            BY <1>2, <2>3 DEF Deliver
        <3> QED
            BY <3>1, <3>2 DEF Types, AuditTypes
    <2>4. CASE yielding[r].kind \notin {"replace", "config"}
        BY <1>2, <2>4 DEF Deliver, Types, AuditTypes
    <2> QED
        BY <2>2, <2>3, <2>4
<1> QED
    BY <1>1, <1>2, Frame

LEMMA WiringTypesNext ==
    ASSUME Types, Hostbook, [Next]_vars
    PROVE  WiringTypes' /\ AuditTypes(commits)'
<1>1. CASE UNCHANGED <<ports, config, commits>>
    BY <1>1 DEF Types, WiringTypes, AuditTypes
<1>2. ASSUME NEW h \in Hosts, ReplaceStore(h) \/ StoreConfig(h)
      PROVE  WiringTypes' /\ AuditTypes(commits)'
    BY <1>2, ReplaceStored, ConfigStored DEF Types
<1> QED
    BY <1>1, <1>2, Frame

LEMMA QueueTypesNext ==
    ASSUME Types, Hostbook, [Next]_vars
    PROVE  QueueTypes'
<1>1. CASE UNCHANGED <<pendingReplace, pendingConfig>>
    BY <1>1 DEF Types, QueueTypes
<1>2. ASSUME NEW h \in Hosts, ReplaceStore(h) \/ StoreConfig(h)
      PROVE  QueueTypes'
    BY <1>2, ReplaceStored, ConfigStored DEF Types
<1>3. ASSUME NEW r \in Runs, Snapshot(r)
      PROVE  QueueTypes'
    BY <1>3, EmptySequences DEF Snapshot, QueueTypes
<1>4. ASSUME NEW r \in Runs, RequeueUndelivered(r)
      PROVE  QueueTypes'
    <2>1. /\ Undelivered(r, "replace") \in Seq(ReplaceAudits)
          /\ Undelivered(r, "config") \in Seq(ConfigAudits)
        BY UndeliveredTypes DEF Types, Tracks, AuditType
    <2>2. /\ Undelivered(r, "replace") \o pendingReplace \in Seq(ReplaceAudits)
          /\ Undelivered(r, "config") \o pendingConfig \in Seq(ConfigAudits)
        BY <2>1, ConcatProperties DEF Types, QueueTypes
    <2> QED
        BY <1>4, <2>2 DEF RequeueUndelivered, Types, QueueTypes
<1> QED
    BY <1>1, <1>2, <1>3, <1>4, Frame

LEMMA RunTypesNext ==
    ASSUME Types, [Next]_vars
    PROVE  RunTypes'
<1> DEFINE Context == [ports : [Slots -> 0 .. MaxSwaps], config : 0 .. MaxSwaps,
                       audits : [replace : Seq(ReplaceAudits),
                                 config : Seq(ConfigAudits)]]
<1>1. CASE UNCHANGED <<lc, tally, left>>
    BY <1>1 DEF Types, RunTypes
<1>2. ASSUME NEW r \in Runs, Snapshot(r)
      PROVE  RunTypes'
    <2>1. lc' \in [Runs -> Context]
        BY <1>2 DEF Snapshot, Types, RunTypes, WiringTypes, QueueTypes
    <2>2. tally' \in [Runs -> [replace : Nat, config : Nat]] /\ left' \in [Runs -> 0 .. MaxEvents]
        <3>1. MaxEvents \in 0 .. MaxEvents /\ NoTally \in [replace : Nat, config : Nat]
            BY NumberTypes DEF NoTally
        <3> QED
            BY <1>2, <3>1 DEF Snapshot, Types, RunTypes
    <2>3. ASSUME NEW q \in Runs
          PROVE  /\ tally'[q].replace <= Len(lc'[q].audits.replace)
                 /\ tally'[q].config <= Len(lc'[q].audits.config)
        <3>1. CASE q = r
            <4>1. /\ lc'[r].audits.replace = pendingReplace
                  /\ lc'[r].audits.config = pendingConfig /\ tally'[r] = NoTally
                BY <1>2 DEF Snapshot, Types, RunTypes
            <4>2. Len(pendingReplace) \in Nat /\ Len(pendingConfig) \in Nat
                BY LenProperties DEF Types, QueueTypes
            <4> QED
                BY <3>1, <4>1, <4>2 DEF NoTally
        <3>2. CASE q # r
            BY <1>2, <3>2 DEF Snapshot, Types, RunTypes
        <3> QED
            BY <3>1, <3>2
    <2> QED
        BY <2>1, <2>2, <2>3 DEF RunTypes
<1>3. ASSUME NEW r \in Runs, EmitAudit(r)
      PROVE  RunTypes'
    <2>1. UNCHANGED <<lc, left>>
        BY <1>3 DEF EmitAudit
    <2>2. PICK track \in Tracks :
             Undelivered(r, track) # << >> /\ tally' = [tally EXCEPT ![r][track] = @ + 1]
        BY <1>3 DEF EmitAudit, Tracks
    <2>3. /\ tally[r][track] \in Nat /\ tally[r][track] < Len(lc[r].audits[track])
          /\ Len(lc[r].audits[track]) \in Nat
        BY <2>2, UndeliveredTypes, DrainedTypes DEF Types
    <2>4. tally[r][track] + 1 \in Nat /\ tally[r][track] + 1 <= Len(lc[r].audits[track])
        <3>1. \A m, n \in Nat : m < n => m + 1 \in Nat /\ m + 1 <= n
            OBVIOUS
        <3> QED
            BY <2>3, <3>1
    <2>5. CASE track = "replace"
        BY <2>1, <2>2, <2>4, <2>5 DEF Types, RunTypes
    <2>6. CASE track = "config"
        BY <2>1, <2>2, <2>4, <2>6 DEF Types, RunTypes
    <2> QED
        BY <2>5, <2>6 DEF Tracks
<1>4. ASSUME NEW r \in Runs, LoopEvent(r)
      PROVE  RunTypes'
    <2>1. \A n \in 0 .. MaxEvents : n > 0 => n - 1 \in 0 .. MaxEvents
        BY NumberTypes
    <2> QED
        BY <1>4, <2>1 DEF LoopEvent, Types, RunTypes
<1>5. ASSUME NEW r \in Runs, RequeueUndelivered(r)
      PROVE  RunTypes'
    <2>1. NoContext \in Context /\ NoTally \in [replace : Nat, config : Nat] /\ 0 \in 0 .. MaxEvents
        BY NumberTypes, EmptySequences DEF NoContext, NoTracks, Assembled, NoTally
    <2>2. /\ lc' = [lc EXCEPT ![r] = NoContext] /\ tally' = [tally EXCEPT ![r] = NoTally]
          /\ left' = [left EXCEPT ![r] = 0]
        BY <1>5 DEF RequeueUndelivered, Settled
    <2>3. NoContext.audits = NoTracks
        BY DEF NoContext
    <2>4. Len(NoTracks.replace) = 0 /\ Len(NoTracks.config) = 0
        BY EmptySeq DEF NoTracks
    <2>5. NoTally.replace = 0 /\ NoTally.config = 0
        BY DEF NoTally
    <2> QED
        BY <2>1, <2>2, <2>3, <2>4, <2>5 DEF Types, RunTypes
<1> QED
    BY <1>1, <1>2, <1>3, <1>4, <1>5, Frame

LEMMA EventTypesNext ==
    ASSUME Types, Numbers, [Next]_vars
    PROVE  EventTypes'
<1>1. CASE UNCHANGED <<yielding, seq, seen, lastSeen>>
    BY <1>1 DEF Types, EventTypes
<1>2. ASSUME NEW r \in Runs, NEW kind, NEW audit, Authored(r, kind, audit),
             \/ kind \in {"error", "loop"} /\ audit = 0
             \/ kind \in Tracks /\ audit \in AuditType(kind),
             UNCHANGED <<seen, lastSeen>>
      PROVE  EventTypes'
    <2>1. seq' = seq + 1 /\ seq' \in Nat
        BY <1>2, AuthoredTypes DEF Types
    <2>2. seen' \subseteq 1 .. seq'
        BY <1>2, <2>1 DEF Types, EventTypes
    <2> QED
        BY <1>2, <2>1, <2>2, AuthoredTypes DEF Types, EventTypes
<1>3. ASSUME NEW r \in Runs, Start(r) \/ PreludeDies(r) \/ LoopEvent(r)
      PROVE  EventTypes'
    <2>1. UNCHANGED <<seen, lastSeen>>
        BY <1>3 DEF Start, PreludeDies, LoopEvent, histVars, logVars
    <2>2. \/ Authored(r, "error", 0) \/ Authored(r, "loop", 0)
          \/ UNCHANGED <<seq, yielding>>
        BY <1>3 DEF Start, PreludeDies, LoopEvent
    <2> QED
        BY <1>1, <1>2, <2>1, <2>2
<1>4. ASSUME NEW r \in Runs, EmitAudit(r)
      PROVE  EventTypes'
    <2>1. PICK track \in Tracks : /\ Undelivered(r, track) # << >>
                                  /\ Authored(r, track, Head(Undelivered(r, track)))
        BY <1>4 DEF EmitAudit, Tracks
    <2>2. Head(Undelivered(r, track)) \in AuditType(track)
        BY <2>1, UndeliveredTypes DEF Types
    <2>3. UNCHANGED <<seen, lastSeen>>
        BY <1>4 DEF EmitAudit, histVars, logVars
    <2> QED
        BY <1>2, <2>1, <2>2, <2>3
<1>5. ASSUME NEW r \in Runs, Refused(r) \/ RequeueUndelivered(r)
      PROVE  EventTypes'
    <2>1. UNCHANGED <<yielding, seq, seen>> /\ lastSeen' = [lastSeen EXCEPT ![r] = 0]
        BY <1>5 DEF Refused, RequeueUndelivered, Settled
    <2> QED
        BY <2>1 DEF Types, EventTypes
<1>6. ASSUME NEW r \in Runs, Deliver(r)
      PROVE  EventTypes'
    <2>1. /\ yielding[r] # NoEvent /\ yielding' = [yielding EXCEPT ![r] = NoEvent]
          /\ seen' = seen \cup {yielding[r].seq} /\ seq' = seq
          /\ lastSeen' = [lastSeen EXCEPT ![r] = yielding[r].seq]
        BY <1>6 DEF Deliver
    <2>2. yielding[r].seq \in 1 .. seq /\ yielding[r].seq \in Nat
        BY <2>1, YieldedSeq DEF Numbers, Types
    <2> QED
        BY <2>1, <2>2 DEF Types, EventTypes
<1> QED
    BY <1>1, <1>3, <1>4, <1>5, <1>6, Frame

LEMMA TypesNext ==
    ASSUME Types, Hostbook, Numbers, [Next]_vars
    PROVE  Types'
BY ControlTypesNext, LogTypesNext, WiringTypesNext, QueueTypesNext, RunTypesNext,
   EventTypesNext DEF Types

-----------------------------------------------------------------------------
(* Event numbers. *)

LEMMA NumbersInit == Init => Numbers
BY DEF Init, Numbers, NoEvent

LEMMA NumbersKept ==
    ASSUME EventTypes, Numbers, NEW r \in Runs, NEW kind, NEW audit,
           Authored(r, kind, audit), yielding[r] = NoEvent, UNCHANGED <<seen, lastSeen>>,
           \/ kind \in {"error", "loop"} /\ audit = 0
           \/ kind \in Tracks /\ audit \in AuditType(kind)
    PROVE  Numbers'
<1>1. /\ seq \in Nat /\ seq' = seq + 1 /\ seq' \in Nat
      /\ yielding'[r].seq = seq'
      /\ \A q \in Runs : q # r => yielding'[q] = yielding[q]
    <2>1. /\ seq' = seq + 1 /\ seq' \in Nat
          /\ yielding'[r] = [kind |-> kind, seq |-> seq', audit |-> audit]
          /\ \A q \in Runs : q # r => yielding'[q] = yielding[q]
        BY AuthoredTypes
    <2> QED
        BY <2>1 DEF EventTypes
<1>2. \A q \in Runs : lastSeen[q] \in Nat /\ yielding[q].seq \in Nat
    BY YieldedSeq DEF EventTypes
<1>3. \A q \in Runs : lastSeen'[q] <= seq' /\ lastSeen'[q] < seq'
    BY <1>1, <1>2 DEF Numbers
<1>4. seq' \notin seen /\ seq' \in 1 .. seq'
    BY <1>1 DEF EventTypes
<1>5. ASSUME NEW q \in Runs, yielding'[q] # NoEvent
      PROVE  /\ yielding'[q].seq \in 1 .. seq' /\ yielding'[q].seq \notin seen'
             /\ yielding'[q].seq > lastSeen'[q]
    <2>1. CASE q = r
        BY <1>1, <1>2, <1>3, <1>4, <2>1
    <2>2. CASE q # r
        BY <1>1, <1>2, <1>5, <2>2 DEF Numbers
    <2> QED
        BY <2>1, <2>2
<1>6. ASSUME NEW p \in Runs, NEW q \in Runs, p # q,
             yielding'[p] # NoEvent, yielding'[q] # NoEvent
      PROVE  yielding'[p].seq # yielding'[q].seq
    <2>1. \A o \in Runs : o # r /\ yielding'[o] # NoEvent => yielding'[o].seq # seq'
        BY <1>1, <1>2 DEF Numbers
    <2> QED
        BY <1>1, <1>6, <2>1 DEF Numbers
<1> QED
    BY <1>3, <1>5, <1>6 DEF Numbers

LEMMA NumbersNext ==
    ASSUME Types, Phases, Numbers, [Next]_vars
    PROVE  Numbers'
<1>1. CASE UNCHANGED <<yielding, seq, seen, lastSeen>>
    BY <1>1 DEF Numbers
<1>2. ASSUME NEW r \in Runs, Start(r) \/ PreludeDies(r) \/ LoopEvent(r)
      PROVE  Numbers'
    <2>1. UNCHANGED <<seen, lastSeen>> /\ yielding[r] = NoEvent
        BY <1>2 DEF Start, PreludeDies, LoopEvent, histVars, logVars, Running, Phases
    <2>2. \/ Authored(r, "error", 0) \/ Authored(r, "loop", 0)
          \/ UNCHANGED <<seq, yielding>>
        BY <1>2 DEF Start, PreludeDies, LoopEvent
    <2> QED
        BY <1>1, <2>1, <2>2, NumbersKept DEF Types
<1>3. ASSUME NEW r \in Runs, EmitAudit(r)
      PROVE  Numbers'
    <2>1. PICK track \in Tracks : /\ Undelivered(r, track) # << >>
                                  /\ Authored(r, track, Head(Undelivered(r, track)))
        BY <1>3 DEF EmitAudit, Tracks
    <2>2. Head(Undelivered(r, track)) \in AuditType(track)
        BY <2>1, UndeliveredTypes DEF Types
    <2>3. UNCHANGED <<seen, lastSeen>> /\ yielding[r] = NoEvent
        BY <1>3 DEF EmitAudit, Running, histVars, logVars
    <2> QED
        BY <2>1, <2>2, <2>3, NumbersKept DEF Types
<1>4. ASSUME NEW r \in Runs, Refused(r) \/ RequeueUndelivered(r)
      PROVE  Numbers'
    <2>1. /\ UNCHANGED <<yielding, seq, seen>> /\ lastSeen' = [lastSeen EXCEPT ![r] = 0]
          /\ yielding[r] = NoEvent
        BY <1>4 DEF Refused, RequeueUndelivered, Settled, Running
    <2>2. lastSeen'[r] = 0 /\ \A q \in Runs : q # r => lastSeen'[q] = lastSeen[q]
        BY <2>1 DEF Types, EventTypes
    <2>3. seq \in Nat
        BY DEF Types, EventTypes
    <2> QED
        BY <2>1, <2>2, <2>3 DEF Numbers
<1>5. ASSUME NEW r \in Runs, Deliver(r)
      PROVE  Numbers'
    <2>1. /\ yielding[r] # NoEvent /\ yielding' = [yielding EXCEPT ![r] = NoEvent]
          /\ seen' = seen \cup {yielding[r].seq} /\ seq' = seq
          /\ lastSeen' = [lastSeen EXCEPT ![r] = yielding[r].seq]
        BY <1>5 DEF Deliver
    <2>2. yielding[r].seq \in 1 .. seq /\ yielding[r].seq <= seq
        BY <2>1 DEF Numbers, Types, EventTypes
    <2>3. /\ yielding'[r] = NoEvent /\ lastSeen'[r] = yielding[r].seq
          /\ \A q \in Runs : q # r => /\ yielding'[q] = yielding[q]
                                      /\ lastSeen'[q] = lastSeen[q]
        BY <2>1 DEF Types, EventTypes
    <2> QED
        BY <2>1, <2>2, <2>3 DEF Numbers
<1> QED
    BY <1>1, <1>2, <1>3, <1>4, <1>5, Frame

-----------------------------------------------------------------------------
(* Where a run holds audits. *)

LEMMA NothingDrained ==
    ASSUME NEW r \in Runs, NEW track \in Tracks, lc[r].audits = NoTracks,
           tally[r] = NoTally
    PROVE  Undelivered(r, track) = << >>
<1>1. lc[r].audits[track] = << >> /\ tally[r][track] = 0
    BY DEF NoTracks, NoTally, Tracks
<1>2. SubSeq(<< >>, 1, 0) = << >>
    BY SubSeqEmpty
<1>3. Len(<< >>) = 0
    BY EmptySeq
<1> QED
    BY <1>1, <1>2, <1>3 DEF Undelivered

LEMMA PhasesInit == Init => Phases
BY DEF Init, Phases, NoContext, NoEvent, Tracks

LEMMA PhasesNext ==
    ASSUME Types, Phases, [Next]_vars
    PROVE  Phases'
<1> DEFINE PhaseOf(q) ==
        /\ rpc[q] \in {"idle", "open", "prelude"} => yielding[q] = NoEvent
        /\ rpc[q] \in {"idle", "refused", "open"} =>
              lc[q].audits = NoTracks /\ tally[q] = NoTally
        /\ rpc[q] = "prelude" => tally[q] = NoTally
        /\ yielding[q].kind \in Tracks => rpc[q] = "audits"
        /\ rpc[q] = "loop" =>
              \A track \in Tracks : Undelivered(q, track) = << >>
<1>1. ASSUME NEW q \in Runs, UNCHANGED <<rpc[q], yielding[q], lc[q], tally[q]>>
      PROVE  PhaseOf(q)'
    BY <1>1 DEF Phases, Undelivered
<1>2. CASE UNCHANGED <<rpc, yielding, lc, tally>>
    BY <1>1, <1>2 DEF Phases
<1>3. ASSUME NEW r \in Runs, RunStep(r)
      PROVE  Phases'
    <2>1. ASSUME NEW q \in Runs, q # r
          PROVE  UNCHANGED <<rpc[q], yielding[q], lc[q], tally[q]>>
        <3>1. /\ rpc' = rpc \/ \E v : rpc' = [rpc EXCEPT ![r] = v]
              /\ yielding' = yielding \/ \E v : yielding' = [yielding EXCEPT ![r] = v]
              /\ lc' = lc \/ \E v : lc' = [lc EXCEPT ![r] = v]
              /\ tally' = tally \/ \E v : tally' = [tally EXCEPT ![r] = v]
            BY <1>3 DEF RunStep, Start, Refused, Snapshot, PreludeDies, PreludePasses,
                EmitAudit, AuditsOver, LoopEvent, LoopReturns, RequeueUndelivered,
                Settled, Deliver, Authored, Goto
        <3> QED
            BY <2>1, <3>1 DEF Types, ControlTypes, EventTypes, RunTypes
    <2>2. PhaseOf(r)'
        <3>0. /\ yielding[r] = NoEvent => yielding[r].kind \notin Tracks
              /\ \A kind, n, audit : [kind |-> kind, seq |-> n, audit |-> audit].kind = kind
            BY DEF NoEvent, Tracks
        <3>1. CASE Start(r)
            <4>1. CASE closed
                <5>1. rpc'[r] = "refused" /\ UNCHANGED <<lc, tally>> /\ Authored(r, "error", 0)
                    BY <3>1, <4>1 DEF Start, Goto, Types, ControlTypes
                <5>2. yielding'[r].kind = "error"
                    BY <5>1, AuthoredTypes DEF Types
                <5>3. rpc[r] = "idle"
                    BY <3>1 DEF Start
                <5> QED
                    BY <5>1, <5>2, <5>3 DEF Phases, Tracks
            <4>2. CASE ~closed
                <5>1. rpc'[r] = "open" /\ UNCHANGED <<lc, tally, yielding>> /\ rpc[r] = "idle"
                    BY <3>1, <4>2 DEF Start, Goto, Types, ControlTypes
                <5> QED
                    BY <3>0, <5>1 DEF Phases
            <4> QED
                BY <4>1, <4>2
        <3>2. CASE Refused(r)
            <4>1. /\ rpc'[r] = "idle" /\ UNCHANGED <<lc, tally, yielding>>
                  /\ rpc[r] = "refused" /\ yielding[r] = NoEvent
                BY <3>2 DEF Refused, Running, Goto, Types, ControlTypes
            <4> QED
                BY <3>0, <4>1 DEF Phases
        <3>3. CASE Snapshot(r)
            <4>1. /\ rpc'[r] = "prelude" /\ UNCHANGED yielding /\ rpc[r] = "open"
                  /\ tally'[r] = NoTally
                BY <3>3 DEF Snapshot, Goto, Types, ControlTypes, RunTypes
            <4> QED
                BY <3>0, <4>1 DEF Phases
        <3>4. CASE PreludeDies(r)
            <4>1. rpc'[r] = "requeue" /\ Authored(r, "error", 0)
                BY <3>4 DEF PreludeDies, Goto, Types, ControlTypes
            <4>2. yielding'[r].kind = "error"
                BY <4>1, AuthoredTypes DEF Types
            <4> QED
                BY <4>1, <4>2 DEF Tracks
        <3>5. CASE PreludePasses(r)
            <4>1. rpc'[r] = "audits"
                BY <3>5 DEF PreludePasses, Goto, Types, ControlTypes
            <4> QED
                BY <4>1
        <3>6. CASE EmitAudit(r)
            <4>1. rpc'[r] = "audits"
                BY <3>6 DEF EmitAudit
            <4> QED
                BY <4>1
        <3>7. CASE AuditsOver(r)
            <4>1. /\ rpc'[r] = "loop" /\ UNCHANGED <<lc, tally, yielding>>
                  /\ yielding[r] = NoEvent
                  /\ \A track \in Tracks : Undelivered(r, track) = << >>
                BY <3>7 DEF AuditsOver, Running, Goto, Types, ControlTypes, Tracks
            <4> QED
                BY <3>0, <4>1 DEF Undelivered
        <3>8. CASE LoopEvent(r)
            <4>1. /\ rpc'[r] = "loop" /\ rpc[r] = "loop" /\ UNCHANGED <<lc, tally>>
                  /\ Authored(r, "loop", 0)
                BY <3>8 DEF LoopEvent
            <4>2. yielding'[r].kind = "loop"
                BY <4>1, AuthoredTypes DEF Types
            <4> QED
                BY <4>1, <4>2 DEF Phases, Tracks, Undelivered
        <3>9. CASE LoopReturns(r)
            <4>1. rpc'[r] = "requeue" /\ UNCHANGED yielding /\ yielding[r] = NoEvent
                BY <3>9 DEF LoopReturns, Running, Goto, Types, ControlTypes
            <4> QED
                BY <3>0, <4>1
        <3>10. CASE RequeueUndelivered(r)
            <4>1. /\ rpc'[r] = "idle" /\ UNCHANGED yielding /\ yielding[r] = NoEvent
                  /\ lc'[r] = NoContext /\ tally'[r] = NoTally
                BY <3>10 DEF RequeueUndelivered, Settled, Running, Goto, Types, ControlTypes,
                    RunTypes
            <4>2. lc'[r].audits = NoTracks
                BY <4>1 DEF NoContext
            <4> QED
                BY <3>0, <4>1, <4>2
        <3>11. CASE Deliver(r)
            <4>1. /\ yielding'[r] = NoEvent /\ UNCHANGED <<lc, tally>>
                  /\ rpc'[r] = rpc[r] \/ rpc'[r] = "requeue"
                BY <3>11 DEF Deliver, Goto, Types, ControlTypes, EventTypes
            <4>2. yielding'[r].kind \notin Tracks
                BY <4>1 DEF NoEvent, Tracks
            <4> QED
                BY <4>1, <4>2 DEF Phases, Undelivered
        <3> QED
            BY <1>3, <3>1, <3>2, <3>3, <3>4, <3>5, <3>6, <3>7, <3>8, <3>9, <3>10, <3>11
               DEF RunStep
    <2> QED
        BY <1>1, <2>1, <2>2 DEF Phases
<1>4. ASSUME NEW h \in Hosts, HostStep(h)
      PROVE  UNCHANGED <<rpc, yielding, lc, tally>>
    BY <1>4 DEF HostStep, Replace, UpdateConfig, Ask, Boot, ReplaceLock, ReplaceStore,
        StoreConfig, runVars
<1>5. CASE Close \/ UNCHANGED vars
    BY <1>2, <1>5 DEF Close, runVars, vars
<1> QED
    BY <1>2, <1>3, <1>4, <1>5 DEF Next

-----------------------------------------------------------------------------
(* What a run holds, and what each step does to it. *)

LEMMA HeldTypes ==
    ASSUME RunTypes, EventTypes, NEW track \in Tracks
    PROVE  /\ Held(track) \in [Runs -> Seq(AuditType(track))]
           /\ \A r \in Runs : Held(track)[r] = Outstanding(r, track)
<1>1. ASSUME NEW r \in Runs
      PROVE  Outstanding(r, track) \in Seq(AuditType(track))
    <2>1. Undelivered(r, track) \in Seq(AuditType(track))
        BY UndeliveredTypes
    <2>2. InFlight(r, track) \in Seq(AuditType(track))
        <3>1. CASE yielding[r].kind = track
            <4>1. yielding[r].audit \in AuditType(track)
                BY <3>1, YieldedSeq
            <4> QED
                BY <3>1, <4>1 DEF InFlight
        <3>2. CASE yielding[r].kind # track
            BY <3>2, EmptySequences DEF InFlight
        <3> QED
            BY <3>1, <3>2
    <2> QED
        BY <2>1, <2>2, ConcatProperties DEF Outstanding
<1> QED
    BY <1>1 DEF Held

LEMMA HeldByOne ==
    ASSUME RunTypes, EventTypes, RunTypes', EventTypes', NEW track \in Tracks,
           NEW r \in Runs,
           \A q \in Runs : q # r => UNCHANGED <<yielding[q], lc[q], tally[q]>>
    PROVE  Held(track)' = [Held(track) EXCEPT ![r] = Outstanding(r, track)']
<1>1. \A q \in Runs : q # r => Outstanding(q, track)' = Outstanding(q, track)
    BY DEF Outstanding, InFlight, Undelivered
<1> QED
    BY <1>1 DEF Held

LEMMA HeldSame ==
    ASSUME RunTypes, EventTypes, RunTypes', EventTypes', NEW track \in Tracks,
           NEW r \in Runs,
           \A q \in Runs : q # r => UNCHANGED <<yielding[q], lc[q], tally[q]>>,
           Outstanding(r, track)' = Outstanding(r, track)
    PROVE  Held(track)' = Held(track)
<1>1. \A q \in Runs : Outstanding(q, track)' = Outstanding(q, track)
    BY DEF Outstanding, InFlight, Undelivered
<1> QED
    BY <1>1 DEF Held

LEMMA OthersStay ==
    ASSUME Types, NEW r \in Runs, RunStep(r), NEW q \in Runs, q # r
    PROVE  UNCHANGED <<rpc[q], yielding[q], lc[q], tally[q]>>
<1>1. /\ rpc' = rpc \/ \E v : rpc' = [rpc EXCEPT ![r] = v]
      /\ yielding' = yielding \/ \E v : yielding' = [yielding EXCEPT ![r] = v]
      /\ lc' = lc \/ \E v : lc' = [lc EXCEPT ![r] = v]
      /\ tally' = tally \/ \E v : tally' = [tally EXCEPT ![r] = v]
    BY DEF RunStep, Start, Refused, Snapshot, PreludeDies, PreludePasses,
        EmitAudit, AuditsOver, LoopEvent, LoopReturns, RequeueUndelivered,
        Settled, Deliver, Authored, Goto
<1> QED
    BY <1>1 DEF Types, ControlTypes, EventTypes, RunTypes

LEMMA HeadBack ==
    ASSUME NEW S, NEW s \in Seq(S), s # << >>
    PROVE  /\ s = <<Head(s)>> \o Tail(s) /\ Head(s) \in S /\ Tail(s) \in Seq(S)
<1>1. Len(s) \in Nat \ {0}
    BY EmptySeq
<1>2. 1 \in 1 .. Len(s) /\ Len(s) \in 1 .. Len(s)
    BY <1>1
<1>3. SubSeq(s, 1, Len(s)) = <<s[1]>> \o SubSeq(s, 1 + 1, Len(s))
    BY <1>2, SubSeqRecursiveFirst
<1>4. Tail(s) = SubSeq(s, 2, Len(s))
    BY TailIsSubSeq
<1>5. Head(s) = s[1]
    OBVIOUS
<1> QED
    BY <1>3, <1>4, <1>5, SubSeqFull, HeadTailProperties

LEMMA HeadOfOne ==
    ASSUME NEW S, NEW s \in Seq(S), NEW a \in S
    PROVE  /\ <<a>> \o s # << >> /\ Head(<<a>> \o s) = a /\ Tail(<<a>> \o s) = s
<1>1. <<a>> \in Seq(S) /\ Len(<<a>>) = 1 /\ <<a>>[1] = a
    OBVIOUS
<1> DEFINE t == <<a>> \o s
<1>2. Len(s) \in Nat
    BY LenProperties
<1>3. /\ t \in Seq(S) /\ Len(t) = 1 + Len(s)
      /\ \A i \in 1 .. 1 + Len(s) : t[i] = IF i <= 1 THEN <<a>>[i] ELSE s[i - 1]
    BY <1>1, ConcatProperties
<1> HIDE DEF t
<1>4. t # << >>
    BY <1>2, <1>3, EmptySeq
<1>5. t[1] = a
    BY <1>1, <1>2, <1>3
<1>6. Head(t) = t[1]
    OBVIOUS
<1>7. /\ Tail(t) \in Seq(S) /\ Len(Tail(t)) = Len(t) - 1
      /\ \A i \in 1 .. Len(Tail(t)) : Tail(t)[i] = t[i + 1]
    BY <1>3, <1>4, HeadTailProperties
<1>8. Len(Tail(t)) = Len(s)
    BY <1>2, <1>3, <1>7
<1>9. \A i \in 1 .. Len(s) : Tail(t)[i] = s[i]
    <2> TAKE i \in 1 .. Len(s)
    <2>1. i + 1 \in 1 .. 1 + Len(s) /\ ~(i + 1 <= 1) /\ (i + 1) - 1 = i
        BY <1>2
    <2> QED
        BY <1>3, <1>7, <1>8, <2>1
<1>10. Tail(t) = s
    BY <1>7, <1>8, <1>9, SeqEqual
<1> QED
    BY <1>4, <1>5, <1>6, <1>10 DEF t

-----------------------------------------------------------------------------
(* Each step of the cell, seen by one track, is a step of AuditTrack.      *)

LEMMA QuietStep ==
    ASSUME Types, Phases, Types', NEW r \in Runs, RunStep(r), NEW track \in Tracks,
           UNCHANGED <<lc, tally, commits, pendingReplace, pendingConfig, log>>,
           yielding[r].kind # track, yielding'[r].kind # track
    PROVE  UNCHANGED Track(track)!avars
<1>1. Outstanding(r, track)' = Outstanding(r, track)
    BY DEF Outstanding, InFlight, Undelivered
<1>2. Held(track)' = Held(track)
    BY <1>1, OthersStay, HeldSame DEF Types
<1> QED
    BY <1>2 DEF Track!avars, Pending

LEMMA SnapshotDrains ==
    ASSUME Types, Phases, Types', NEW r \in Runs, Snapshot(r), NEW track \in Tracks
    PROVE  Track(track)!Drain(r)
<1>1. UNCHANGED <<commits, log, yielding>> /\ rpc[r] = "open"
    BY DEF Snapshot, histVars, logVars
<1>2. yielding[r] = NoEvent /\ yielding[r].kind # track
    BY <1>1 DEF Phases, NoEvent, Tracks
<1>3. InFlight(r, track) = << >> /\ InFlight(r, track)' = << >>
    BY <1>1, <1>2 DEF InFlight
<1>4. Undelivered(r, track) = << >>
    BY <1>1, NothingDrained DEF Phases
<1>5. Pending(track) \in Seq(AuditType(track)) /\ Pending(track)' = << >>
    BY DEF Snapshot, Pending, Types, QueueTypes, AuditType
<1>6. Undelivered(r, track)' = Pending(track)
    <2>1. lc'[r].audits = [replace |-> pendingReplace, config |-> pendingConfig]
        BY DEF Snapshot, Types, RunTypes
    <2>2. lc'[r].audits[track] = Pending(track)
        BY <2>1 DEF Pending, Tracks
    <2>3. tally'[r] = NoTally
        BY DEF Snapshot, Types, RunTypes
    <2>4. tally'[r][track] = 0
        BY <2>3 DEF NoTally, Tracks
    <2>5. SubSeq(Pending(track), 1, Len(Pending(track))) = Pending(track)
        BY <1>5, SubSeqFull
    <2> QED
        BY <2>2, <2>4, <2>5 DEF Undelivered
<1>7. Outstanding(r, track) = << >> /\ Outstanding(r, track)' = Pending(track)
    BY <1>3, <1>4, <1>5, <1>6, ConcatEmptySeq, EmptySequences DEF Outstanding
<1>8. Held(track)' = [Held(track) EXCEPT ![r] = Pending(track)]
    BY <1>7, OthersStay, HeldByOne DEF Types, RunStep
<1>9. Held(track)[r] = << >>
    BY <1>7, HeldTypes DEF Types
<1> QED
    BY <1>1, <1>5, <1>8, <1>9 DEF Track!Drain

LEMMA EmitKeeps ==
    ASSUME Types, Phases, Types', NEW r \in Runs, EmitAudit(r), NEW track \in Tracks
    PROVE  UNCHANGED Track(track)!avars
<1>1. PICK t \in Tracks : /\ Undelivered(r, t) # << >>
                          /\ tally' = [tally EXCEPT ![r][t] = @ + 1]
                          /\ Authored(r, t, Head(Undelivered(r, t)))
    BY DEF EmitAudit, Tracks
<1>2. UNCHANGED <<lc, commits, log, pendingReplace, pendingConfig>> /\ yielding[r] = NoEvent
    BY DEF EmitAudit, Running, cellVars, histVars, logVars
<1>3. Head(Undelivered(r, t)) \in AuditType(t)
    BY <1>1, UndeliveredTypes DEF Types
<1>4. yielding'[r].kind = t /\ yielding'[r].audit = Head(Undelivered(r, t))
    BY <1>1, <1>3, AuthoredTypes DEF Types
<1>5. yielding[r].kind # track
    BY <1>2 DEF NoEvent, Tracks
<1>6. InFlight(r, track) = << >>
    BY <1>5 DEF InFlight
<1>7. Undelivered(r, track) \in Seq(AuditType(track))
    BY UndeliveredTypes DEF Types
<1>8. Outstanding(r, track) = Undelivered(r, track)
    BY <1>6, <1>7, ConcatEmptySeq DEF Outstanding
<1>9. Outstanding(r, track)' = Outstanding(r, track)
    <2>1. CASE t = track
        <3>1. InFlight(r, track)' = <<Head(Undelivered(r, track))>>
            BY <1>4, <2>1 DEF InFlight
        <3>2. tally'[r][track] = tally[r][track] + 1
            BY <1>1, <2>1 DEF Types, RunTypes, Tracks
        <3>3. tally[r][track] \in Nat
            BY DrainedTypes DEF Types
        <3>4. (tally[r][track] + 1) + 1 = tally[r][track] + 2
            BY <3>3
        <3>5. Undelivered(r, track)' = Tail(Undelivered(r, track))
            BY <1>1, <1>2, <2>1, <3>2, <3>4, UndeliveredTypes DEF Types, Undelivered
        <3>6. Undelivered(r, track) = <<Head(Undelivered(r, track))>> \o Tail(Undelivered(r, track))
            BY <1>1, <1>7, <2>1, HeadBack
        <3> QED
            BY <1>8, <3>1, <3>5, <3>6 DEF Outstanding
    <2>2. CASE t # track
        <3>1. InFlight(r, track)' = << >>
            BY <1>4, <2>2 DEF InFlight
        <3>2. tally'[r][track] = tally[r][track]
            BY <1>1, <2>2 DEF Types, RunTypes, Tracks
        <3>3. Undelivered(r, track)' = Undelivered(r, track)
            BY <1>2, <3>2 DEF Undelivered
        <3> QED
            BY <1>6, <3>1, <3>3 DEF Outstanding
    <2> QED
        BY <2>1, <2>2
<1>10. Held(track)' = Held(track)
    BY <1>9, OthersStay, HeldSame DEF Types, RunStep
<1> QED
    BY <1>2, <1>10 DEF Track!avars, Pending

LEMMA DeliverReceives ==
    ASSUME Types, Phases, Types', NEW r \in Runs, Deliver(r), NEW track \in Tracks
    PROVE  UNCHANGED Track(track)!avars \/ Track(track)!Receive(r)
<1>1. /\ UNCHANGED <<lc, tally, commits, pendingReplace, pendingConfig>>
      /\ yielding'[r] = NoEvent
    BY DEF Deliver, cellVars, Types, EventTypes
<1>2. yielding'[r].kind # track
    BY <1>1 DEF NoEvent, Tracks
<1>3. Undelivered(r, track)' = Undelivered(r, track)
    BY <1>1 DEF Undelivered
<1>4. InFlight(r, track)' = << >>
    BY <1>2 DEF InFlight
<1>5. Undelivered(r, track) \in Seq(AuditType(track))
    BY UndeliveredTypes DEF Types
<1>6. Outstanding(r, track)' = Undelivered(r, track)
    BY <1>3, <1>4, <1>5, ConcatEmptySeq DEF Outstanding
<1>7. CASE yielding[r].kind = track
    <2>1. yielding[r].audit \in AuditType(track)
        BY <1>7, YieldedSeq DEF Types
    <2>2. Outstanding(r, track) = <<yielding[r].audit>> \o Undelivered(r, track)
        BY <1>7 DEF Outstanding, InFlight
    <2>3. /\ Outstanding(r, track) # << >>
          /\ Head(Outstanding(r, track)) = yielding[r].audit
          /\ Tail(Outstanding(r, track)) = Undelivered(r, track)
        BY <1>5, <2>1, <2>2, HeadOfOne
    <2>4. log'[track] = Append(log[track], yielding[r].audit)
        BY <1>7 DEF Deliver, Types, AuditTypes, Tracks
    <2>5. Held(track)' = [Held(track) EXCEPT ![r] = Undelivered(r, track)]
        BY <1>6, OthersStay, HeldByOne DEF Types, RunStep
    <2>6. Held(track)[r] = Outstanding(r, track)
        BY HeldTypes DEF Types
    <2> QED
        BY <1>1, <2>3, <2>4, <2>5, <2>6 DEF Track!Receive, Pending
<1>8. CASE yielding[r].kind # track
    <2>1. InFlight(r, track) = << >>
        BY <1>8 DEF InFlight
    <2>2. Outstanding(r, track)' = Outstanding(r, track)
        BY <1>3, <1>4, <2>1 DEF Outstanding
    <2>3. Held(track)' = Held(track)
        BY <2>2, OthersStay, HeldSame DEF Types, RunStep
    <2>4. log'[track] = log[track]
        BY <1>8 DEF Deliver, Types, AuditTypes, Tracks
    <2> QED
        BY <1>1, <2>3, <2>4 DEF Track!avars, Pending
<1> QED
    BY <1>7, <1>8

LEMMA RequeueHandsBack ==
    ASSUME Types, Phases, Types', NEW r \in Runs, RequeueUndelivered(r),
           NEW track \in Tracks
    PROVE  Track(track)!HandBack(r)
<1>1. /\ UNCHANGED <<commits, log, yielding>> /\ yielding[r] = NoEvent
      /\ lc'[r] = NoContext /\ tally'[r] = NoTally
    BY DEF RequeueUndelivered, Settled, Running, Types, RunTypes
<1>2. yielding[r].kind # track
    BY <1>1 DEF NoEvent, Tracks
<1>3. InFlight(r, track) = << >> /\ InFlight(r, track)' = << >>
    BY <1>1, <1>2 DEF InFlight
<1>4. Undelivered(r, track)' = << >>
    <2>1. lc'[r].audits[track] = << >> /\ tally'[r][track] = 0
        BY <1>1 DEF NoContext, NoTracks, NoTally, Tracks
    <2>2. SubSeq(<< >>, 1, 0) = << >>
        BY SubSeqEmpty
    <2> QED
        BY <2>1, <2>2, EmptySeq DEF Undelivered
<1>5. Undelivered(r, track) \in Seq(AuditType(track))
    BY UndeliveredTypes DEF Types
<1>6. Outstanding(r, track) = Undelivered(r, track) /\ Outstanding(r, track)' = << >>
    BY <1>3, <1>4, <1>5, ConcatEmptySeq, EmptySequences DEF Outstanding
<1>7. Pending(track) \in Seq(AuditType(track))
    BY DEF Pending, Types, QueueTypes, AuditType
<1>8. Pending(track)' = Undelivered(r, track) \o Pending(track)
    <2>1. CASE Undelivered(r, "replace") = << >> /\ Undelivered(r, "config") = << >>
        <3>1. Pending(track)' = Pending(track) /\ Undelivered(r, track) = << >>
            BY <2>1 DEF RequeueUndelivered, Pending, Tracks
        <3> QED
            BY <1>7, <3>1, ConcatEmptySeq
    <2>2. CASE ~(Undelivered(r, "replace") = << >> /\ Undelivered(r, "config") = << >>)
        BY <2>2 DEF RequeueUndelivered, Pending, Tracks
    <2> QED
        BY <2>1, <2>2
<1>9. Held(track)' = [Held(track) EXCEPT ![r] = << >>]
    BY <1>6, OthersStay, HeldByOne DEF Types, RunStep
<1>10. Held(track)[r] = Undelivered(r, track)
    BY <1>6, HeldTypes DEF Types
<1> QED
    BY <1>1, <1>8, <1>9, <1>10 DEF Track!HandBack

LEMMA HostsHoldNothing ==
    ASSUME NEW h \in Hosts, HostStep(h), NEW track \in Tracks
    PROVE  Held(track)' = Held(track) /\ UNCHANGED log
<1>1. UNCHANGED <<yielding, lc, tally, log>>
    BY DEF HostStep, Replace, UpdateConfig, Ask, Boot, ReplaceLock, ReplaceStore,
        StoreConfig, runVars, histVars, logVars
<1> QED
    BY <1>1 DEF Held, Outstanding, InFlight, Undelivered

LEMMA AuditNumbers ==
    ASSUME NEW track \in Tracks, NEW a \in AuditType(track)
    PROVE  a.new \in Swaps /\ a.new \in Nat /\ a.new > 0
<1>1. a.new \in Swaps
    BY DEF AuditType, Tracks, ReplaceAudits, ConfigAudits
<1> QED
    BY <1>1, NumberTypes DEF Swaps

LEMMA StoresCommit ==
    ASSUME Types, Hostbook, Numbered, NEW h \in Hosts, ReplaceStore(h) \/ StoreConfig(h),
           NEW track \in Tracks
    PROVE  \/ UNCHANGED Track(track)!avars
           \/ \E audit \in AuditType(track) :
                 audit.new = Stored + 1 /\ Track(track)!Commit(audit)
<1>1. Held(track)' = Held(track) /\ UNCHANGED log
    BY HostsHoldNothing DEF HostStep
<1>2. Stored \in Nat
    BY StoredTypes DEF Types
<1>3. \A i \in DOMAIN commits[track] :
         commits[track][i].new \in Int /\ commits[track][i].new < Stored + 1
    <2> TAKE i \in DOMAIN commits[track]
    <2>1. commits[track] \in Seq(AuditType(track))
        BY DEF Types, AuditTypes, AuditType, Tracks
    <2>2. commits[track][i] \in AuditType(track)
        BY <2>1, LenProperties, ElementOfSeq
    <2>3. commits[track][i].new \in Nat
        BY <2>2, AuditNumbers
    <2>4. commits[track][i].new <= Stored
        BY DEF Numbered
    <2> QED
        BY <1>2, <2>3, <2>4
<1>4. CASE ReplaceStore(h)
    <2>1. PICK a \in ReplaceAudits :
             /\ a.new = Stored + 1 /\ pendingReplace' = Append(pendingReplace, a)
             /\ commits'.replace = Append(commits.replace, a)
        BY <1>4, ReplaceStored DEF Types
    <2>2. commits'.config = commits.config /\ UNCHANGED pendingConfig
        BY <1>4, ReplaceStored DEF Types
    <2>3. CASE track = "replace"
        BY <1>1, <1>3, <2>1, <2>3 DEF Track!Commit, AuditType, Pending
    <2>4. CASE track = "config"
        BY <1>1, <2>2, <2>4 DEF Track!avars, Pending
    <2> QED
        BY <2>3, <2>4 DEF Tracks
<1>5. CASE StoreConfig(h)
    <2>1. PICK a \in ConfigAudits :
             /\ a.new = Stored + 1 /\ pendingConfig' = Append(pendingConfig, a)
             /\ commits'.config = Append(commits.config, a)
        BY <1>5, ConfigStored DEF Types
    <2>2. commits'.replace = commits.replace /\ UNCHANGED pendingReplace
        BY <1>5, ConfigStored DEF Types
    <2>3. CASE track = "config"
        BY <1>1, <1>3, <2>1, <2>3 DEF Track!Commit, AuditType, Pending
    <2>4. CASE track = "replace"
        BY <1>1, <2>2, <2>4 DEF Track!avars, Pending
    <2> QED
        BY <2>3, <2>4 DEF Tracks
<1> QED
    BY <1>4, <1>5

LEMMA QuietRun ==
    ASSUME Types, Phases, Types', NEW r \in Runs, NEW track \in Tracks,
           \/ Start(r) \/ Refused(r) \/ PreludeDies(r) \/ PreludePasses(r)
           \/ AuditsOver(r) \/ LoopEvent(r) \/ LoopReturns(r)
    PROVE  UNCHANGED Track(track)!avars
<1>1. UNCHANGED <<lc, tally, commits, pendingReplace, pendingConfig, log>>
    BY DEF Start, Refused, PreludeDies, PreludePasses, AuditsOver, LoopEvent,
        LoopReturns, cellVars, histVars, logVars
<1>2. yielding[r] = NoEvent
    BY DEF Start, Refused, PreludeDies, PreludePasses, AuditsOver, LoopEvent,
        LoopReturns, Running, Phases
<1>3. \/ UNCHANGED yielding \/ Authored(r, "error", 0) \/ Authored(r, "loop", 0)
    BY DEF Start, Refused, PreludeDies, PreludePasses, AuditsOver, LoopEvent,
        LoopReturns
<1>4. yielding'[r] = NoEvent \/ yielding'[r].kind \in {"error", "loop"}
    <2>1. Authored(r, "error", 0) => yielding'[r].kind = "error"
        BY AuthoredTypes DEF Types
    <2>2. Authored(r, "loop", 0) => yielding'[r].kind = "loop"
        BY AuthoredTypes DEF Types
    <2> QED
        BY <1>2, <1>3, <2>1, <2>2
<1>5. yielding[r].kind # track /\ yielding'[r].kind # track
    BY <1>2, <1>4 DEF NoEvent, Tracks
<1> QED
    BY <1>1, <1>5, QuietStep DEF RunStep

(* The steps of one track, with the number a commit takes. *)
LEMMA Moves ==
    ASSUME Types, Types', Phases, Hostbook, Numbered, [Next]_vars, NEW track \in Tracks
    PROVE  \/ UNCHANGED Track(track)!avars
           \/ /\ \E h \in Hosts : ReplaceStore(h) \/ StoreConfig(h)
              /\ \E audit \in AuditType(track) :
                    audit.new = Stored + 1 /\ Track(track)!Commit(audit)
           \/ \E r \in Runs :
                 \/ Snapshot(r) /\ Track(track)!Drain(r)
                 \/ Deliver(r) /\ Track(track)!Receive(r)
                 \/ RequeueUndelivered(r) /\ Track(track)!HandBack(r)
<1>1. CASE UNCHANGED vars
    BY <1>1 DEF Track!avars, vars, cellVars, runVars, histVars, logVars, Held,
        Outstanding, InFlight, Undelivered, Pending
<1>2. ASSUME NEW r \in Runs, RunStep(r)
      PROVE  \/ UNCHANGED Track(track)!avars
             \/ Snapshot(r) /\ Track(track)!Drain(r)
             \/ Deliver(r) /\ Track(track)!Receive(r)
             \/ RequeueUndelivered(r) /\ Track(track)!HandBack(r)
    BY <1>2, QuietRun, SnapshotDrains, EmitKeeps, DeliverReceives, RequeueHandsBack
       DEF RunStep
<1>3. ASSUME NEW h \in Hosts, HostStep(h)
      PROVE  \/ UNCHANGED Track(track)!avars
             \/ /\ ReplaceStore(h) \/ StoreConfig(h)
                /\ \E audit \in AuditType(track) :
                      audit.new = Stored + 1 /\ Track(track)!Commit(audit)
    <2>1. CASE ReplaceStore(h) \/ StoreConfig(h)
        BY <2>1, StoresCommit
    <2>2. CASE Replace(h) \/ Boot(h) \/ ReplaceLock(h) \/ UpdateConfig(h)
        <3>1. UNCHANGED <<commits, pendingReplace, pendingConfig>>
            BY <2>2 DEF Replace, UpdateConfig, Ask, Boot, ReplaceLock, cellVars, histVars
        <3> QED
            BY <1>3, <3>1, HostsHoldNothing DEF Track!avars, Pending
    <2> QED
        BY <1>3, <2>1, <2>2 DEF HostStep
<1>4. CASE Close
    BY <1>4 DEF Close, Track!avars, vars, cellVars, runVars, histVars, logVars, Held,
        Outstanding, InFlight, Undelivered, Pending
<1> QED
    BY <1>1, <1>2, <1>3, <1>4 DEF Next

LEMMA NumberedInit == Init => Numbered
BY EmptySeq DEF Init, Numbered, NoTracks, Tracks

LEMMA NumberedNext ==
    ASSUME Types, Types', Phases, Hostbook, Numbered, [Next]_vars
    PROVE  Numbered'
<1>1. Stored \in Nat
    BY StoredTypes DEF Types
<1>2. CASE UNCHANGED commits
    BY <1>2 DEF Numbered, Stored
<1>3. ASSUME NEW h \in Hosts, ReplaceStore(h) \/ StoreConfig(h)
      PROVE  Numbered'
    <2>1. Stored' = Stored + 1
        BY <1>3, ReplaceStored, ConfigStored DEF Types
    <2>2. ASSUME NEW track \in Tracks, NEW i \in DOMAIN commits'[track]
          PROVE  commits'[track][i].new <= Stored + 1
        <3>1. /\ commits[track] \in Seq(AuditType(track)) /\ Len(commits[track]) \in Nat
              /\ DOMAIN commits[track] = 1 .. Len(commits[track])
            <4>1. commits[track] \in Seq(AuditType(track))
                BY DEF Types, AuditTypes, AuditType, Tracks
            <4> QED
                BY <4>1, LenProperties
        <3>2. \A j \in DOMAIN commits[track] :
                 commits[track][j].new \in Nat /\ commits[track][j].new <= Stored
            BY <3>1, ElementOfSeq, AuditNumbers DEF Numbered
        <3>3. \/ commits'[track] = commits[track]
              \/ \E a \in AuditType(track) :
                    a.new = Stored + 1 /\ commits'[track] = Append(commits[track], a)
            BY <1>3, StoresCommit DEF Track!avars, Track!Commit
        <3>4. CASE commits'[track] = commits[track]
            BY <1>1, <2>2, <3>2, <3>4
        <3>5. ASSUME NEW a \in AuditType(track), a.new = Stored + 1,
                     commits'[track] = Append(commits[track], a)
              PROVE  commits'[track][i].new <= Stored + 1
            <4>1. /\ Append(commits[track], a) \in Seq(AuditType(track))
                  /\ Len(Append(commits[track], a)) = Len(commits[track]) + 1
                  /\ \A j \in 1 .. Len(commits[track]) :
                        Append(commits[track], a)[j] = commits[track][j]
                  /\ Append(commits[track], a)[Len(commits[track]) + 1] = a
                BY <3>1, AppendProperties
            <4>2. i \in 1 .. Len(commits[track]) + 1
                BY <2>2, <3>5, <4>1, LenProperties
            <4>3. CASE i \in 1 .. Len(commits[track])
                BY <1>1, <3>1, <3>2, <3>5, <4>1, <4>3
            <4>4. CASE i = Len(commits[track]) + 1
                BY <1>1, <3>5, <4>1, <4>4
            <4> QED
                BY <3>1, <4>2, <4>3, <4>4
        <3> QED
            BY <3>3, <3>4, <3>5
    <2> QED
        BY <2>1, <2>2 DEF Numbered
<1> QED
    BY <1>2, <1>3, Frame

-----------------------------------------------------------------------------
(* Every audit stays in exactly one place: facts about sequences.          *)

LEMMA InjectiveConcat ==
    ASSUME NEW S, NEW s \in Seq(S), NEW t \in Seq(S)
    PROVE  /\ IsInjective(s \o t)
                 <=> IsInjective(s) /\ IsInjective(t) /\ Apart(s, t)
           /\ Range(s \o t) = Range(s) \cup Range(t)
<1>1. /\ Len(s) \in Nat /\ Len(t) \in Nat
      /\ DOMAIN s = 1 .. Len(s) /\ DOMAIN t = 1 .. Len(t)
    BY LenProperties
<1> DEFINE m == Len(s)
           n == Len(t)
           u == s \o t
<1>2. /\ u \in Seq(S) /\ Len(u) = m + n
      /\ \A i \in 1 .. m + n : u[i] = IF i <= m THEN s[i] ELSE t[i - m]
    BY ConcatProperties
<1>3. DOMAIN u = 1 .. m + n
    BY <1>2, LenProperties
<1>4. m \in Nat /\ n \in Nat /\ DOMAIN s = 1 .. m /\ DOMAIN t = 1 .. n
    BY <1>1
<1> HIDE DEF m, n, u
<1>5. \A i \in 1 .. m : i \in DOMAIN u /\ u[i] = s[i]
    BY <1>2, <1>3, <1>4
<1>6. \A i \in 1 .. n : m + i \in DOMAIN u /\ u[m + i] = t[i]
    <2> TAKE i \in 1 .. n
    <2>1. m + i \in 1 .. m + n /\ ~(m + i <= m) /\ (m + i) - m = i
        BY <1>4
    <2> QED
        BY <1>2, <1>3, <2>1
<1>7. \A i \in DOMAIN u : i \in 1 .. m \/ \E j \in 1 .. n : i = m + j
    <2> TAKE i \in DOMAIN u
    <2>1. i \notin 1 .. m => i - m \in 1 .. n /\ i = m + (i - m)
        BY <1>3, <1>4
    <2> QED
        BY <2>1
<1>8. ASSUME IsInjective(u)
      PROVE  IsInjective(s) /\ IsInjective(t) /\ Apart(s, t)
    <2>1. IsInjective(s)
        BY <1>4, <1>5, <1>8 DEF IsInjective
    <2>2. IsInjective(t)
        <3>1. \A i, j \in 1 .. n : m + i = m + j => i = j
            BY <1>4
        <3> QED
            BY <1>4, <1>6, <1>8, <3>1 DEF IsInjective
    <2>3. ASSUME NEW i \in 1 .. m, NEW j \in 1 .. n, s[i] = t[j]
          PROVE  FALSE
        <3>1. i # m + j
            BY <1>4
        <3> QED
            BY <1>5, <1>6, <1>8, <2>3, <3>1 DEF IsInjective
    <2>4. Apart(s, t)
        BY <1>4, <2>3 DEF Apart, Range
    <2> QED
        BY <2>1, <2>2, <2>4
<1>9. ASSUME IsInjective(s), IsInjective(t), Apart(s, t)
      PROVE  IsInjective(u)
    <2>1. \A i \in 1 .. m : \A j \in 1 .. n : s[i] # t[j]
        BY <1>4, <1>9 DEF Apart, Range
    <2>2. ASSUME NEW i \in DOMAIN u, NEW j \in DOMAIN u, u[i] = u[j]
          PROVE  i = j
        <3>1. CASE i \in 1 .. m /\ j \in 1 .. m
            BY <1>4, <1>5, <1>9, <2>2, <3>1 DEF IsInjective
        <3>2. ASSUME NEW k \in 1 .. n, i = m + k
              PROVE  i = j
            <4>1. u[i] = t[k]
                BY <1>6, <3>2
            <4>2. CASE j \in 1 .. m
                BY <1>5, <2>1, <2>2, <4>1, <4>2
            <4>3. ASSUME NEW l \in 1 .. n, j = m + l
                  PROVE  i = j
                BY <1>4, <1>6, <1>9, <2>2, <3>2, <4>1, <4>3 DEF IsInjective
            <4> QED
                BY <1>7, <4>2, <4>3
        <3>3. ASSUME NEW l \in 1 .. n, j = m + l, i \in 1 .. m
              PROVE  i = j
            BY <1>5, <1>6, <2>1, <2>2, <3>3
        <3> QED
            BY <1>7, <3>1, <3>2, <3>3
    <2> QED
        BY <2>2 DEF IsInjective
<1>10. Range(u) = Range(s) \cup Range(t)
    BY RangeConcatenation DEF u
<1> QED
    BY <1>8, <1>9, <1>10 DEF u

LEMMA RangeOfOne ==
    ASSUME NEW a
    PROVE  Range(<<a>>) = {a} /\ IsInjective(<<a>>)
<1>1. DOMAIN <<a>> = {1} /\ <<a>>[1] = a
    OBVIOUS
<1> QED
    BY <1>1 DEF Range, IsInjective

LEMMA RangeOfNone == Range(<< >>) = {} /\ IsInjective(<< >>)
<1>1. DOMAIN << >> = {}
    OBVIOUS
<1> QED
    BY <1>1 DEF Range, IsInjective

LEMMA PartitionCommit ==
    ASSUME NEW S, NEW C \in Seq(S), NEW Q \in Seq(S), NEW H \in [Runs -> Seq(S)],
           NEW R \in Seq(S), Partition(C, Q, H, R),
           NEW a \in S, a \notin Range(C)
    PROVE  Partition(Append(C, a), Append(Q, a), H, R)
<1>1. <<a>> \in Seq(S)
    OBVIOUS
<1>2. Append(C, a) = C \o <<a>> /\ Append(Q, a) = Q \o <<a>>
    BY AppendIsConcat
<1>3. a \notin Range(Q) /\ a \notin Range(R) /\ \A r \in Runs : a \notin Range(H[r])
    BY DEF Partition
<1>4. Apart(Q, <<a>>)
    BY <1>3, RangeOfOne DEF Apart
<1>5. /\ IsInjective(Append(Q, a)) /\ Range(Append(Q, a)) = Range(Q) \cup {a}
      /\ Range(Append(C, a)) = Range(C) \cup {a}
    <2>1. /\ IsInjective(Q \o <<a>>) <=> IsInjective(Q) /\ IsInjective(<<a>>) /\ Apart(Q, <<a>>)
          /\ Range(Q \o <<a>>) = Range(Q) \cup Range(<<a>>)
          /\ Range(C \o <<a>>) = Range(C) \cup Range(<<a>>)
        BY <1>1, InjectiveConcat
    <2>2. IsInjective(Q)
        BY DEF Partition
    <2> QED
        BY <1>2, <1>4, <2>1, <2>2, RangeOfOne
<1>6. Apart(R, Append(Q, a))
    BY <1>3, <1>5 DEF Partition, Apart
<1>7. \A r \in Runs : Apart(H[r], Append(Q, a))
    BY <1>3, <1>5 DEF Partition, Apart
<1>8. Range(Append(C, a))
         = Range(R) \cup Range(Append(Q, a)) \cup UNION {Range(H[r]) : r \in Runs}
    <2>1. Range(C) = Range(R) \cup Range(Q) \cup UNION {Range(H[r]) : r \in Runs}
        BY DEF Partition
    <2> QED
        BY <1>5, <2>1
<1> QED
    BY <1>5, <1>6, <1>7, <1>8 DEF Partition

LEMMA PartitionDrain ==
    ASSUME NEW S, NEW C \in Seq(S), NEW Q \in Seq(S), NEW H \in [Runs -> Seq(S)],
           NEW R \in Seq(S), Partition(C, Q, H, R), NEW r \in Runs, H[r] = << >>
    PROVE  Partition(C, << >>, [H EXCEPT ![r] = Q], R)
<1> DEFINE G == [H EXCEPT ![r] = Q]
<1>1. G[r] = Q /\ \A q \in Runs : q # r => G[q] = H[q]
    OBVIOUS
<1>2. Range(H[r]) = {}
    BY RangeOfNone
<1>3. UNION {Range(G[q]) : q \in Runs} = Range(Q) \cup UNION {Range(H[q]) : q \in Runs}
    BY <1>1, <1>2
<1> HIDE DEF G
<1>4. Range(C) = Range(R) \cup Range(<< >>) \cup UNION {Range(G[q]) : q \in Runs}
    BY <1>3, RangeOfNone DEF Partition
<1>5. /\ IsInjective(R) /\ IsInjective(<< >>) /\ Apart(R, << >>)
      /\ \A q \in Runs : IsInjective(G[q]) /\ Apart(G[q], R) /\ Apart(G[q], << >>)
    BY <1>1, RangeOfNone DEF Partition, Apart
<1>6. \A p, q \in Runs : p # q => Apart(G[p], G[q])
    BY <1>1 DEF Partition, Apart
<1> QED
    BY <1>4, <1>5, <1>6 DEF Partition, G

LEMMA PartitionReceive ==
    ASSUME NEW S, NEW C \in Seq(S), NEW Q \in Seq(S), NEW H \in [Runs -> Seq(S)],
           NEW R \in Seq(S), Partition(C, Q, H, R), NEW r \in Runs, H[r] # << >>
    PROVE  Partition(C, Q, [H EXCEPT ![r] = Tail(H[r])], Append(R, Head(H[r])))
<1> DEFINE a == Head(H[r])
           t == Tail(H[r])
           G == [H EXCEPT ![r] = t]
<1>1. H[r] = <<a>> \o t /\ a \in S /\ t \in Seq(S)
    BY HeadBack
<1>2. <<a>> \in Seq(S)
    BY <1>1
<1>3. G[r] = t /\ \A q \in Runs : q # r => G[q] = H[q]
    OBVIOUS
<1> HIDE DEF a, t, G
<1>4. /\ Range(H[r]) = {a} \cup Range(t) /\ a \notin Range(t) /\ IsInjective(t)
    <2>1. /\ IsInjective(<<a>> \o t)
                <=> IsInjective(<<a>>) /\ IsInjective(t) /\ Apart(<<a>>, t)
          /\ Range(<<a>> \o t) = Range(<<a>>) \cup Range(t)
        BY <1>1, <1>2, InjectiveConcat
    <2>2. IsInjective(H[r])
        BY DEF Partition
    <2>3. Apart(<<a>>, t) <=> a \notin Range(t)
        BY RangeOfOne DEF Apart
    <2> QED
        BY <1>1, <2>1, <2>2, <2>3, RangeOfOne
<1>5. a \notin Range(R) /\ a \notin Range(Q) /\ \A q \in Runs : q # r => a \notin Range(H[q])
    <2>1. a \in Range(H[r])
        BY <1>4
    <2>2. /\ Apart(H[r], R) /\ Apart(H[r], Q)
          /\ \A q \in Runs : q # r => Apart(H[r], H[q])
        BY DEF Partition
    <2> QED
        BY <2>1, <2>2 DEF Apart
<1>6. IsInjective(Append(R, a)) /\ Range(Append(R, a)) = Range(R) \cup {a}
    <2>1. Append(R, a) = R \o <<a>>
        BY <1>1, AppendIsConcat
    <2>2. Apart(R, <<a>>)
        BY <1>5, RangeOfOne DEF Apart
    <2>3. /\ IsInjective(R \o <<a>>) <=> IsInjective(R) /\ IsInjective(<<a>>) /\ Apart(R, <<a>>)
          /\ Range(R \o <<a>>) = Range(R) \cup Range(<<a>>)
        BY <1>2, InjectiveConcat
    <2>4. IsInjective(R)
        BY DEF Partition
    <2> QED
        BY <2>1, <2>2, <2>3, <2>4, RangeOfOne
<1>7. Range(C) = Range(Append(R, a)) \cup Range(Q) \cup UNION {Range(G[q]) : q \in Runs}
    <2>1. /\ Range(H[r]) = {a} \cup Range(G[r])
          /\ \A q \in Runs : q # r => Range(H[q]) = Range(G[q])
        <3>1. Range(G[r]) = Range(t)
            BY <1>3
        <3>2. \A q \in Runs : q # r => Range(H[q]) = Range(G[q])
            BY <1>3
        <3> QED
            BY <1>4, <3>1, <3>2
    <2>2. UNION {Range(H[q]) : q \in Runs} = {a} \cup UNION {Range(G[q]) : q \in Runs}
        BY <2>1
    <2>3. Range(C) = Range(R) \cup Range(Q) \cup UNION {Range(H[q]) : q \in Runs}
        BY DEF Partition
    <2> QED
        BY <1>6, <2>2, <2>3
<1>8. /\ IsInjective(Q) /\ Apart(Append(R, a), Q)
      /\ \A q \in Runs : IsInjective(G[q]) /\ Apart(G[q], Append(R, a)) /\ Apart(G[q], Q)
    <2>1. IsInjective(Q) /\ Apart(Append(R, a), Q)
        BY <1>5, <1>6 DEF Partition, Apart
    <2>2. IsInjective(G[r]) /\ Apart(G[r], Append(R, a)) /\ Apart(G[r], Q)
        BY <1>3, <1>4, <1>6 DEF Partition, Apart
    <2>3. \A q \in Runs : q # r =>
             IsInjective(G[q]) /\ Apart(G[q], Append(R, a)) /\ Apart(G[q], Q)
        BY <1>3, <1>5, <1>6 DEF Partition, Apart
    <2> QED
        BY <2>1, <2>2, <2>3
<1>9. \A p, q \in Runs : p # q => Apart(G[p], G[q])
    BY <1>3, <1>4 DEF Partition, Apart
<1> QED
    BY <1>6, <1>7, <1>8, <1>9 DEF Partition, a, t, G

LEMMA PartitionHandBack ==
    ASSUME NEW S, NEW C \in Seq(S), NEW Q \in Seq(S), NEW H \in [Runs -> Seq(S)],
           NEW R \in Seq(S), Partition(C, Q, H, R), NEW r \in Runs
    PROVE  Partition(C, H[r] \o Q, [H EXCEPT ![r] = << >>], R)
<1> DEFINE G == [H EXCEPT ![r] = << >>]
           P == H[r] \o Q
<1>1. G[r] = << >> /\ \A q \in Runs : q # r => G[q] = H[q]
    OBVIOUS
<1>2. IsInjective(P) /\ Range(P) = Range(H[r]) \cup Range(Q)
    <2>1. H[r] \in Seq(S)
        OBVIOUS
    <2> QED
        BY <2>1, InjectiveConcat DEF Partition
<1> HIDE DEF G, P
<1>3. Range(C) = Range(R) \cup Range(P) \cup UNION {Range(G[q]) : q \in Runs}
    <2>1. UNION {Range(H[q]) : q \in Runs}
             = Range(H[r]) \cup UNION {Range(G[q]) : q \in Runs}
        BY <1>1, RangeOfNone
    <2> QED
        BY <1>2, <2>1 DEF Partition
<1>4. IsInjective(R) /\ Apart(R, P)
    BY <1>2 DEF Partition, Apart
<1>5. \A q \in Runs : IsInjective(G[q]) /\ Apart(G[q], R) /\ Apart(G[q], P)
    <2>1. IsInjective(G[r]) /\ Apart(G[r], R) /\ Apart(G[r], P)
        BY <1>1, RangeOfNone DEF Apart
    <2>2. \A q \in Runs : q # r => IsInjective(G[q]) /\ Apart(G[q], R) /\ Apart(G[q], P)
        BY <1>1, <1>2 DEF Partition, Apart
    <2> QED
        BY <2>1, <2>2
<1>6. \A p, q \in Runs : p # q => Apart(G[p], G[q])
    BY <1>1, RangeOfNone DEF Partition, Apart
<1> QED
    BY <1>2, <1>3, <1>4, <1>5, <1>6 DEF Partition, G, P

LEMMA ConservedInit == Init => Conserved
<1> SUFFICES ASSUME Init, NEW track \in Tracks
             PROVE  Partition(commits[track], Pending(track), Held(track), log[track])
    BY DEF Conserved
<1>1. commits[track] = << >> /\ Pending(track) = << >> /\ log[track] = << >>
    BY DEF Init, NoTracks, Pending, Tracks
<1>2. \A r \in Runs : Held(track)[r] = << >>
    <2> TAKE r \in Runs
    <2>1. Undelivered(r, track) = << >>
        BY NothingDrained DEF Init, NoContext
    <2>2. InFlight(r, track) = << >>
        BY DEF Init, InFlight, NoEvent, Tracks
    <2> QED
        BY <2>1, <2>2, ConcatEmptySeq, EmptySequences DEF Held, Outstanding
<1> QED
    BY <1>1, <1>2, RangeOfNone DEF Partition, Apart

LEMMA TrackTypes ==
    ASSUME Types, NEW track \in Tracks
    PROVE  /\ commits[track] \in Seq(AuditType(track))
           /\ log[track] \in Seq(AuditType(track))
           /\ Pending(track) \in Seq(AuditType(track))
           /\ Held(track) \in [Runs -> Seq(AuditType(track))]
<1>1. /\ commits[track] \in Seq(AuditType(track))
      /\ log[track] \in Seq(AuditType(track))
      /\ Pending(track) \in Seq(AuditType(track))
    BY DEF Types, AuditTypes, QueueTypes, AuditType, Tracks, Pending
<1> QED
    BY <1>1, HeldTypes DEF Types

LEMMA ConservedNext ==
    ASSUME Types, Types', Phases, Hostbook, Numbered, Conserved, [Next]_vars
    PROVE  Conserved'
<1> SUFFICES ASSUME NEW track \in Tracks
             PROVE  Partition(commits[track], Pending(track), Held(track), log[track])'
    BY DEF Conserved
<1> DEFINE S == AuditType(track)
           C == commits[track]
           Q == Pending(track)
           H == Held(track)
           R == log[track]
<1>0. C \in Seq(S) /\ Q \in Seq(S) /\ H \in [Runs -> Seq(S)] /\ R \in Seq(S)
    BY TrackTypes
<1>1. Partition(C, Q, H, R)
    BY DEF Conserved
<1>2. CASE UNCHANGED Track(track)!avars
    BY <1>1, <1>2 DEF Track!avars
<1>3. ASSUME NEW a \in AuditType(track), a.new = Stored + 1, Track(track)!Commit(a)
      PROVE  Partition(commits[track], Pending(track), Held(track), log[track])'
    <2>1. a \notin Range(commits[track])
        <3>1. ASSUME NEW i \in DOMAIN commits[track], commits[track][i] = a
              PROVE  FALSE
            <4>1. a.new \in Nat
                BY AuditNumbers
            <4>2. a.new < a.new
                BY <1>3, <3>1 DEF Track!Commit
            <4> QED
                BY <4>1, <4>2
        <3> QED
            BY <3>1 DEF Range
    <2> QED
        BY <1>1, <1>3, <2>1, TrackTypes, PartitionCommit DEF Track!Commit
<1>4. ASSUME NEW r \in Runs, Track(track)!Drain(r)
      PROVE  Partition(commits[track], Pending(track), Held(track), log[track])'
    <2>2. H[r] = << >>
        BY <1>4 DEF Track!Drain
    <2>3. Partition(C, << >>, [H EXCEPT ![r] = Q], R)
        <3> HIDE DEF C, Q, H, R, S
        <3> QED
            BY <1>0, <1>1, <2>2, PartitionDrain
    <2> QED
        BY <1>4, <2>3 DEF Track!Drain
<1>5. ASSUME NEW r \in Runs, Track(track)!Receive(r)
      PROVE  Partition(commits[track], Pending(track), Held(track), log[track])'
    <2>2. H[r] # << >>
        BY <1>5 DEF Track!Receive
    <2>3. Partition(C, Q, [H EXCEPT ![r] = Tail(H[r])], Append(R, Head(H[r])))
        <3> HIDE DEF C, Q, H, R, S
        <3> QED
            BY <1>0, <1>1, <2>2, PartitionReceive
    <2> QED
        BY <1>5, <2>3 DEF Track!Receive
<1>6. ASSUME NEW r \in Runs, Track(track)!HandBack(r)
      PROVE  Partition(commits[track], Pending(track), Held(track), log[track])'
    <2>3. Partition(C, H[r] \o Q, [H EXCEPT ![r] = << >>], R)
        <3> HIDE DEF C, Q, H, R, S
        <3> QED
            BY <1>0, <1>1, PartitionHandBack
    <2> QED
        BY <1>6, <2>3 DEF Track!HandBack
<1> QED
    BY <1>2, <1>3, <1>4, <1>5, <1>6, Moves

-----------------------------------------------------------------------------
(* One copy of every committed audit. *)

LEMMA OneAt ==
    ASSUME NEW s, NEW a
    PROVE  /\ a \notin Range(s) => At(s, a) = {}
           /\ a \in Range(s) /\ IsInjective(s) => \E i : At(s, a) = {i}
<1>1. a \notin Range(s) => At(s, a) = {}
    BY DEF Range, At
<1>2. ASSUME a \in Range(s), IsInjective(s)
      PROVE  \E i : At(s, a) = {i}
    <2>1. PICK i \in DOMAIN s : s[i] = a
        BY <1>2 DEF Range
    <2>2. At(s, a) = {i}
        BY <1>2, <2>1 DEF At, IsInjective
    <2> QED
        BY <2>2
<1> QED
    BY <1>1, <1>2

LEMMA HeldOnce ==
    ASSUME Types, NEW track \in Tracks, NEW r \in Runs, IsInjective(Held(track)[r])
    PROVE  /\ IsInjective(InFlight(r, track)) /\ IsInjective(Undelivered(r, track))
           /\ Apart(InFlight(r, track), Undelivered(r, track))
<1>1. /\ InFlight(r, track) \in Seq(AuditType(track))
      /\ Undelivered(r, track) \in Seq(AuditType(track))
    <2>1. CASE yielding[r].kind = track
        <3>1. yielding[r].audit \in AuditType(track)
            BY <2>1, YieldedSeq DEF Types
        <3> QED
            BY <2>1, <3>1, UndeliveredTypes DEF InFlight, Types
    <2>2. CASE yielding[r].kind # track
        BY <2>2, EmptySequences, UndeliveredTypes DEF InFlight, Types
    <2> QED
        BY <2>1, <2>2
<1>2. Held(track)[r] = InFlight(r, track) \o Undelivered(r, track)
    BY HeldTypes DEF Types, Outstanding
<1> QED
    BY <1>1, <1>2, InjectiveConcat

LEMMA HeldRange ==
    ASSUME Types, NEW track \in Tracks, NEW r \in Runs
    PROVE  Range(Held(track)[r])
             = Range(InFlight(r, track)) \cup Range(Undelivered(r, track))
<1>1. /\ InFlight(r, track) \in Seq(AuditType(track))
      /\ Undelivered(r, track) \in Seq(AuditType(track))
    <2>1. CASE yielding[r].kind = track
        <3>1. yielding[r].audit \in AuditType(track)
            BY <2>1, YieldedSeq DEF Types
        <3> QED
            BY <2>1, <3>1, UndeliveredTypes DEF InFlight, Types
    <2>2. CASE yielding[r].kind # track
        BY <2>2, EmptySequences, UndeliveredTypes DEF InFlight, Types
    <2> QED
        BY <2>1, <2>2
<1>2. Held(track)[r] = InFlight(r, track) \o Undelivered(r, track)
    BY HeldTypes DEF Types, Outstanding
<1> QED
    BY <1>1, <1>2, RangeConcatenation

LEMMA CopiesAre ==
    ASSUME NEW track, NEW a, NEW x
    PROVE  x \in Copies(track, a) <=>
             \/ \E i \in At(log[track], a) : x = <<"log", i>>
             \/ \E i \in At(Pending(track), a) : x = <<"queue", i>>
             \/ \E r \in Runs : \E i \in At(Undelivered(r, track), a) : x = <<"drained", r, i>>
             \/ \E r \in Runs : \E i \in At(InFlight(r, track), a) : x = <<"yielded", r, i>>
<1> DEFINE L == {<<"log", i>> : i \in At(log[track], a)}
           W == {<<"queue", i>> : i \in At(Pending(track), a)}
           D == UNION {{<<"drained", r, i>> : i \in At(Undelivered(r, track), a)} : r \in Runs}
           Y == UNION {{<<"yielded", r, i>> : i \in At(InFlight(r, track), a)} : r \in Runs}
<1>1. Copies(track, a) = ((L \cup W) \cup D) \cup Y
    BY Zenon DEF Copies
<1>2. x \in L <=> \E i \in At(log[track], a) : x = <<"log", i>>
    OBVIOUS
<1>3. x \in W <=> \E i \in At(Pending(track), a) : x = <<"queue", i>>
    OBVIOUS
<1>4. x \in D <=> \E r \in Runs : \E i \in At(Undelivered(r, track), a) : x = <<"drained", r, i>>
    OBVIOUS
<1>5. x \in Y <=> \E r \in Runs : \E i \in At(InFlight(r, track), a) : x = <<"yielded", r, i>>
    OBVIOUS
<1> HIDE DEF L, W, D, Y
<1> QED
    BY <1>1, <1>2, <1>3, <1>4, <1>5

LEMMA ConservedGivesOneCopy == Types /\ Conserved => AuditsConserved
<1> SUFFICES ASSUME Types, Conserved, NEW track \in Tracks,
                    NEW k \in DOMAIN commits[track]
             PROVE  Cardinality(Copies(track, commits[track][k])) = 1
    BY DEF AuditsConserved
<1> DEFINE a == commits[track][k]
           R == log[track]
           Q == Pending(track)
           H(r) == Held(track)[r]
           I(r) == InFlight(r, track)
           U(r) == Undelivered(r, track)
           C == Copies(track, a)
           lg(i) == <<"log", i>>
           qu(i) == <<"queue", i>>
           dr(r, i) == <<"drained", r, i>>
           yl(r, i) == <<"yielded", r, i>>
<1>1. a \in Range(commits[track])
    BY DEF Range
<1>2. /\ IsInjective(R) /\ IsInjective(Q) /\ Apart(R, Q)
      /\ \A r \in Runs : IsInjective(H(r)) /\ Apart(H(r), R) /\ Apart(H(r), Q)
      /\ \A r, q \in Runs : r # q => Apart(H(r), H(q))
      /\ a \in Range(R) \/ a \in Range(Q) \/ \E r \in Runs : a \in Range(H(r))
    BY <1>1 DEF Conserved, Partition
<1>3. \A r \in Runs : /\ IsInjective(I(r)) /\ IsInjective(U(r)) /\ Apart(I(r), U(r))
                      /\ Range(H(r)) = Range(I(r)) \cup Range(U(r))
    BY <1>2, HeldOnce, HeldRange
<1>4. \A x : x \in C <=>
         \/ \E i \in At(R, a) : x = lg(i)
         \/ \E i \in At(Q, a) : x = qu(i)
         \/ \E r \in Runs : \E i \in At(U(r), a) : x = dr(r, i)
         \/ \E r \in Runs : \E i \in At(I(r), a) : x = yl(r, i)
    BY CopiesAre
<1> HIDE DEF a, R, Q, H, I, U, C, lg, qu, dr, yl
<1>5. \E x : C = {x}
    <2>1. CASE a \in Range(R)
        <3>1. a \notin Range(Q) /\ \A r \in Runs : a \notin Range(H(r))
            BY <1>2, <2>1 DEF Apart
        <3>2. \A r \in Runs : a \notin Range(U(r)) /\ a \notin Range(I(r))
            BY <1>3, <3>1
        <3>3. At(Q, a) = {} /\ \A r \in Runs : At(U(r), a) = {} /\ At(I(r), a) = {}
            BY <3>1, <3>2, OneAt
        <3>4. PICK i : At(R, a) = {i}
            BY <1>2, <2>1, OneAt
        <3>5. C = {lg(i)}
            <4>1. \A x : x \in C <=> x = lg(i)
                BY <1>4, <3>3, <3>4
            <4> QED
                BY <4>1
        <3> QED
            BY <3>5
    <2>2. CASE a \in Range(Q)
        <3>1. a \notin Range(R) /\ \A r \in Runs : a \notin Range(H(r))
            BY <1>2, <2>2 DEF Apart
        <3>2. \A r \in Runs : a \notin Range(U(r)) /\ a \notin Range(I(r))
            BY <1>3, <3>1
        <3>3. At(R, a) = {} /\ \A r \in Runs : At(U(r), a) = {} /\ At(I(r), a) = {}
            BY <3>1, <3>2, OneAt
        <3>4. PICK i : At(Q, a) = {i}
            BY <1>2, <2>2, OneAt
        <3>5. C = {qu(i)}
            <4>1. \A x : x \in C <=> x = qu(i)
                BY <1>4, <3>3, <3>4
            <4> QED
                BY <4>1
        <3> QED
            BY <3>5
    <2>3. ASSUME NEW r \in Runs, a \in Range(H(r))
          PROVE  \E x : C = {x}
        <3>1. a \notin Range(R) /\ a \notin Range(Q)
            BY <1>2, <2>3 DEF Apart
        <3>2. \A q \in Runs : q # r => a \notin Range(U(q)) /\ a \notin Range(I(q))
            BY <1>2, <1>3, <2>3 DEF Apart
        <3>3. At(R, a) = {} /\ At(Q, a) = {}
            BY <3>1, OneAt
        <3>4. \A q \in Runs : q # r => At(U(q), a) = {} /\ At(I(q), a) = {}
            BY <3>2, OneAt
        <3>5. CASE a \in Range(U(r))
            <4>1. At(I(r), a) = {}
                BY <1>3, <3>5, OneAt DEF Apart
            <4>2. PICK i : At(U(r), a) = {i}
                BY <1>3, <3>5, OneAt
            <4>3. C = {dr(r, i)}
                <5>1. \A x : x \in C <=> x = dr(r, i)
                    BY <1>4, <3>3, <3>4, <4>1, <4>2
                <5> QED
                    BY <5>1
            <4> QED
                BY <4>3
        <3>6. CASE a \in Range(I(r))
            <4>1. At(U(r), a) = {}
                BY <1>3, <3>6, OneAt DEF Apart
            <4>2. PICK i : At(I(r), a) = {i}
                BY <1>3, <3>6, OneAt
            <4>3. C = {yl(r, i)}
                <5>1. \A x : x \in C <=> x = yl(r, i)
                    BY <1>4, <3>3, <3>4, <4>1, <4>2
                <5> QED
                    BY <5>1
            <4> QED
                BY <4>3
        <3> QED
            BY <1>3, <2>3, <3>5, <3>6
    <2> QED
        BY <1>2, <2>1, <2>2, <2>3
<1> QED
    BY <1>5, FS_Singleton DEF C, a

-----------------------------------------------------------------------------
(* The places in a row. *)

LEMMA InARowEmpty == InARow(<< >>, << >>, << >>, << >>)
<1>1. << >> \o << >> = << >>
    BY ConcatEmptySeq, EmptySequences
<1> QED
    BY <1>1 DEF InARow

LEMMA InARowDrain ==
    ASSUME NEW S, NEW C \in Seq(S), NEW R \in Seq(S), NEW Q \in Seq(S),
           InARow(C, R, << >>, Q)
    PROVE  InARow(C, R, Q, << >>)
<1>1. R \o << >> = R /\ R \o Q \in Seq(S)
    BY ConcatEmptySeq, ConcatProperties
<1>2. (R \o Q) \o << >> = R \o Q
    BY <1>1, ConcatEmptySeq
<1> QED
    BY <1>1, <1>2 DEF InARow

LEMMA InARowHandBack ==
    ASSUME NEW S, NEW C \in Seq(S), NEW R \in Seq(S), NEW H \in Seq(S),
           NEW Q \in Seq(S), InARow(C, R, H, Q)
    PROVE  InARow(C, R, << >>, H \o Q)
<1>1. (R \o H) \o Q = R \o (H \o Q) /\ R \o << >> = R
    BY ConcatAssociative, ConcatEmptySeq
<1> QED
    BY <1>1 DEF InARow

LEMMA ConcatHead ==
    ASSUME NEW S, NEW R \in Seq(S), NEW H \in Seq(S), H # << >>
    PROVE  Append(R, Head(H)) \o Tail(H) = R \o H
<1>1. H = <<Head(H)>> \o Tail(H) /\ Head(H) \in S /\ Tail(H) \in Seq(S)
    BY HeadBack
<1> DEFINE a == Head(H)
           t == Tail(H)
<1>2. a \in S /\ t \in Seq(S) /\ <<a>> \in Seq(S) /\ H = <<a>> \o t
    BY <1>1
<1> HIDE DEF a, t
<1>3. Append(R, a) = R \o <<a>>
    BY <1>2, AppendIsConcat
<1>4. (R \o <<a>>) \o t = R \o (<<a>> \o t)
    BY <1>2, ConcatAssociative
<1>5. Append(R, a) \o t = R \o H
    BY <1>2, <1>3, <1>4
<1> QED
    BY <1>5 DEF a, t

LEMMA InARowReceive ==
    ASSUME NEW S, NEW C \in Seq(S), NEW R \in Seq(S), NEW H \in Seq(S),
           NEW Q \in Seq(S), InARow(C, R, H, Q), H # << >>
    PROVE  InARow(C, Append(R, Head(H)), Tail(H), Q)
BY ConcatHead DEF InARow

LEMMA InARowCommit ==
    ASSUME NEW S, NEW C \in Seq(S), NEW R \in Seq(S), NEW H \in Seq(S),
           NEW Q \in Seq(S), InARow(C, R, H, Q), NEW a \in S
    PROVE  InARow(Append(C, a), R, H, Append(Q, a))
<1> DEFINE P == R \o H
<1>1. P \in Seq(S) /\ <<a>> \in Seq(S)
    BY ConcatProperties
<1> HIDE DEF P
<1>2. P \o Q \in Seq(S)
    BY <1>1, ConcatProperties
<1>3. Append(P \o Q, a) = (P \o Q) \o <<a>> /\ Append(Q, a) = Q \o <<a>>
    BY <1>2, AppendIsConcat
<1>4. (P \o Q) \o <<a>> = P \o (Q \o <<a>>)
    BY <1>1, ConcatAssociative
<1>5. C = P \o Q
    BY DEF InARow, P
<1>6. Append(C, a) = P \o Append(Q, a)
    BY <1>3, <1>4, <1>5
<1> QED
    BY <1>6 DEF InARow, P

LEMMA IdleHoldsNothing ==
    ASSUME Types, Phases, NEW r \in Runs, NEW track \in Tracks,
           rpc[r] \in {"idle", "refused", "open"}
    PROVE  Held(track)[r] = << >>
<1>1. Undelivered(r, track) = << >>
    BY NothingDrained DEF Phases
<1>2. InFlight(r, track) = << >>
    BY DEF Phases, InFlight
<1>3. Held(track)[r] = InFlight(r, track) \o Undelivered(r, track)
    BY HeldTypes DEF Types, Outstanding
<1> QED
    BY <1>1, <1>2, <1>3, ConcatEmptySeq, EmptySequences

LEMMA OverlapStays ==
    ASSUME [Next]_vars, ~overlapped'
    PROVE  ~overlapped
<1>1. CASE UNCHANGED vars
    BY <1>1 DEF vars, histVars
<1>2. ASSUME NEW r \in Runs, RunStep(r)
      PROVE  ~overlapped
    BY <1>2 DEF RunStep, Start, Refused, Snapshot, PreludeDies, PreludePasses,
        EmitAudit, AuditsOver, LoopEvent, LoopReturns, RequeueUndelivered,
        Settled, Deliver, histVars
<1>3. ASSUME NEW h \in Hosts, HostStep(h)
      PROVE  ~overlapped
    BY <1>3 DEF HostStep, Replace, UpdateConfig, Ask, Boot, ReplaceLock, ReplaceStore,
        StoreConfig, histVars
<1>4. CASE Close
    BY <1>4 DEF Close, histVars
<1> QED
    BY <1>1, <1>2, <1>3, <1>4 DEF Next

(* A run that takes a step is the active one, before and after. *)
LEMMA ActiveNext ==
    ASSUME Types, Types', Phases, InOrder, ~overlapped, ~overlapped',
           NEW r \in Runs, RunStep(r)
    PROVE  /\ Active = IF Start(r) THEN {} ELSE {r}
           /\ Active' = IF rpc'[r] = "idle" THEN {} ELSE {r}
<1>1. ASSUME Start(r)
      PROVE  Active = {}
    BY <1>1 DEF Start, Active
<1>2. ASSUME ~Start(r)
      PROVE  Active = {r}
    <2>1. rpc[r] # "idle"
        <3>1. ASSUME Deliver(r)
              PROVE  rpc[r] # "idle"
            BY <3>1 DEF Deliver, Phases
        <3> QED
            BY <1>2, <3>1 DEF RunStep, Refused, Snapshot, PreludeDies, PreludePasses,
                EmitAudit, AuditsOver, LoopEvent, LoopReturns, RequeueUndelivered, Settled
    <2>2. \A q \in Active : q = r
        BY <2>1 DEF InOrder, Active
    <2> QED
        BY <2>1, <2>2 DEF Active
<1>3. \A q \in Runs : q # r => rpc'[q] = rpc[q]
    BY OthersStay
<1>4. \A q \in Runs : q # r => rpc[q] = "idle"
    BY <1>1, <1>2 DEF Active
<1>5. Active' = IF rpc'[r] = "idle" THEN {} ELSE {r}
    BY <1>3, <1>4 DEF Active
<1> QED
    BY <1>1, <1>2, <1>5

LEMMA InOrderInit == Init => InOrder
<1> SUFFICES ASSUME Init PROVE InOrder
    OBVIOUS
<1>1. Active = {}
    BY DEF Init, Active
<1>2. \A track \in Tracks :
         commits[track] = << >> /\ log[track] = << >> /\ Pending(track) = << >>
    BY DEF Init, NoTracks, Pending, Tracks
<1> QED
    BY <1>1, <1>2, InARowEmpty DEF InOrder, Row

LEMMA RowByRun ==
    ASSUME Types, Types', Phases, InOrder, ~overlapped, ~overlapped',
           NEW r \in Runs, RunStep(r), NEW track \in Tracks
    PROVE  Row(track)'
<1> DEFINE S == AuditType(track)
           C == commits[track]
           Q == Pending(track)
           H == Held(track)
           R == log[track]
<1>0. C \in Seq(S) /\ Q \in Seq(S) /\ H \in [Runs -> Seq(S)] /\ R \in Seq(S)
    BY TrackTypes
<1>1. /\ Active = {} => InARow(C, R, << >>, Q)
      /\ Active = {r} => InARow(C, R, H[r], Q)
    BY DEF InOrder, Row
<1>2. /\ Active = IF Start(r) THEN {} ELSE {r}
      /\ Active' = IF rpc'[r] = "idle" THEN {} ELSE {r}
    BY ActiveNext
<1>3. SUFFICES /\ rpc'[r] = "idle" => InARow(C', R', << >>, Q')
               /\ rpc'[r] # "idle" => InARow(C', R', H'[r], Q')
    BY <1>2 DEF Row
<1>4. CASE Start(r)
    <2>1. UNCHANGED Track(track)!avars
        BY <1>4, QuietRun
    <2>2. H[r] = << >>
        BY <1>4, IdleHoldsNothing DEF Start
    <2>3. C' = C /\ H' = H /\ Q' = Q /\ R' = R
        BY <2>1 DEF Track!avars
    <2> QED
        BY <1>1, <1>2, <1>4, <2>2, <2>3
<1>5. CASE Refused(r)
    <2>1. UNCHANGED Track(track)!avars
        BY <1>5, QuietRun
    <2>2. H[r] = << >> /\ ~Start(r)
        BY <1>5, IdleHoldsNothing DEF Refused, Start
    <2>3. C' = C /\ H' = H /\ Q' = Q /\ R' = R
        BY <2>1 DEF Track!avars
    <2> QED
        BY <1>1, <1>2, <2>2, <2>3
<1>6. CASE PreludeDies(r) \/ PreludePasses(r) \/ AuditsOver(r) \/ LoopEvent(r)
              \/ LoopReturns(r) \/ EmitAudit(r)
    <2>1. UNCHANGED Track(track)!avars
        BY <1>6, QuietRun, EmitKeeps
    <2>2. ~Start(r)
        BY <1>6 DEF Start, PreludeDies, PreludePasses, AuditsOver, LoopEvent,
            LoopReturns, EmitAudit
    <2>3. rpc'[r] # "idle"
        BY <1>6 DEF PreludeDies, PreludePasses, AuditsOver, LoopEvent, LoopReturns,
            EmitAudit, Goto, Types, ControlTypes
    <2>4. C' = C /\ H' = H /\ Q' = Q /\ R' = R
        BY <2>1 DEF Track!avars
    <2> QED
        BY <1>1, <1>2, <2>2, <2>3, <2>4
<1>7. CASE Snapshot(r)
    <2>1. C' = C /\ R' = R /\ H[r] = << >> /\ H' = [H EXCEPT ![r] = Q] /\ Q' = << >>
        BY <1>7, SnapshotDrains DEF Track!Drain
    <2>2. ~Start(r) /\ rpc'[r] # "idle"
        BY <1>7 DEF Start, Snapshot, Goto, Types, ControlTypes
    <2>3. InARow(C, R, << >>, Q)
        BY <1>1, <1>2, <2>1, <2>2
    <2>4. H'[r] = Q
        BY <1>0, <2>1
    <2>5. InARow(C, R, Q, << >>)
        <3> HIDE DEF C, Q, H, R, S
        <3> QED
            BY <1>0, <2>3, InARowDrain
    <2> QED
        BY <2>1, <2>2, <2>4, <2>5
<1>8. CASE RequeueUndelivered(r)
    <2>1. C' = C /\ R' = R /\ Q' = H[r] \o Q
        BY <1>8, RequeueHandsBack DEF Track!HandBack
    <2>2. ~Start(r) /\ rpc'[r] = "idle"
        BY <1>8 DEF Start, RequeueUndelivered, Settled, Goto, Types, ControlTypes
    <2>3. InARow(C, R, H[r], Q)
        BY <1>1, <1>2, <2>2
    <2>4. InARow(C, R, << >>, H[r] \o Q)
        <3>1. H[r] \in Seq(S)
            BY <1>0
        <3> HIDE DEF C, Q, H, R, S
        <3> QED
            BY <1>0, <2>3, <3>1, InARowHandBack
    <2> QED
        BY <2>1, <2>2, <2>4
<1>9. CASE Deliver(r)
    <2>1. ~Start(r) /\ rpc'[r] # "idle"
        BY <1>9 DEF Start, Deliver, Phases, Goto, Types, ControlTypes
    <2>2. InARow(C, R, H[r], Q)
        BY <1>1, <1>2, <2>1
    <2>3. CASE UNCHANGED Track(track)!avars
        <3>1. C' = C /\ H' = H /\ Q' = Q /\ R' = R
            BY <2>3 DEF Track!avars
        <3> QED
            BY <2>1, <2>2, <3>1
    <2>4. CASE Track(track)!Receive(r)
        <3>1. /\ C' = C /\ Q' = Q /\ H[r] # << >> /\ H' = [H EXCEPT ![r] = Tail(H[r])]
              /\ R' = Append(R, Head(H[r]))
            BY <2>4 DEF Track!Receive
        <3>2. H'[r] = Tail(H[r]) /\ H[r] \in Seq(S)
            BY <1>0, <3>1
        <3>3. InARow(C, Append(R, Head(H[r])), Tail(H[r]), Q)
            <4> HIDE DEF C, Q, H, R, S
            <4> QED
                BY <1>0, <2>2, <3>1, <3>2, InARowReceive
        <3> QED
            BY <2>1, <3>1, <3>2, <3>3
    <2> QED
        BY <1>9, <2>3, <2>4, DeliverReceives
<1> QED
    BY <1>4, <1>5, <1>6, <1>7, <1>8, <1>9 DEF RunStep

LEMMA RowByHost ==
    ASSUME Types, Types', Hostbook, Numbered, InOrder, ~overlapped,
           NEW h \in Hosts, HostStep(h), NEW track \in Tracks
    PROVE  Row(track)'
<1> DEFINE S == AuditType(track)
           C == commits[track]
           Q == Pending(track)
           H == Held(track)
           R == log[track]
<1>1. C \in Seq(S) /\ Q \in Seq(S) /\ H \in [Runs -> Seq(S)] /\ R \in Seq(S)
    BY TrackTypes
<1>2. Active' = Active /\ H' = H /\ R' = R /\ Active \subseteq Runs
    <2>1. UNCHANGED rpc
        BY DEF HostStep, Replace, UpdateConfig, Ask, Boot, ReplaceLock, ReplaceStore,
            StoreConfig, runVars
    <2> QED
        BY <2>1, HostsHoldNothing DEF Active
<1>3. /\ Active = {} => InARow(C, R, << >>, Q)
      /\ \A r \in Active : InARow(C, R, H[r], Q)
    BY DEF InOrder, Row
<1>4. CASE C' = C /\ Q' = Q
    BY <1>2, <1>3, <1>4 DEF Row
<1>5. ASSUME NEW a \in S, C' = Append(C, a), Q' = Append(Q, a)
      PROVE  Row(track)'
    <2>1. ASSUME NEW t \in Seq(S), InARow(C, R, t, Q)
          PROVE  InARow(Append(C, a), R, t, Append(Q, a))
        <3> HIDE DEF C, Q, H, R, S
        <3> QED
            BY <1>1, <2>1, InARowCommit
    <2>2. << >> \in Seq(S) /\ \A r \in Active : H[r] \in Seq(S)
        BY <1>1, <1>2, EmptySequences
    <2>3. /\ Active = {} => InARow(Append(C, a), R, << >>, Append(Q, a))
          /\ \A r \in Active : InARow(Append(C, a), R, H[r], Append(Q, a))
        BY <1>3, <2>1, <2>2
    <2> QED
        BY <1>2, <1>5, <2>3 DEF Row
<1>6. CASE ReplaceStore(h) \/ StoreConfig(h)
    BY <1>4, <1>5, <1>6, StoresCommit DEF Track!avars, Track!Commit
<1>7. CASE Replace(h) \/ Boot(h) \/ ReplaceLock(h) \/ UpdateConfig(h)
    <2>1. UNCHANGED <<commits, pendingReplace, pendingConfig>>
        BY <1>7 DEF Replace, UpdateConfig, Ask, Boot, ReplaceLock, cellVars, histVars
    <2> QED
        BY <1>4, <2>1 DEF Pending
<1> QED
    BY <1>6, <1>7 DEF HostStep

LEMMA RowSame ==
    ASSUME UNCHANGED <<rpc, lc, tally, yielding, commits, log, pendingReplace, pendingConfig>>,
           NEW track \in Tracks, Row(track)
    PROVE  Row(track)'
<1>1. Active' = Active /\ Held(track)' = Held(track) /\ Pending(track)' = Pending(track)
    BY DEF Active, Held, Outstanding, InFlight, Undelivered, Pending
<1> QED
    BY <1>1 DEF Row

LEMMA InOrderNext ==
    ASSUME Types, Types', Phases, Hostbook, Numbered, InOrder, [Next]_vars
    PROVE  InOrder'
<1> SUFFICES ASSUME ~overlapped'
             PROVE  /\ \A r, q \in Active' : r = q
                    /\ \A track \in Tracks : Row(track)'
    BY DEF InOrder
<1>1. ~overlapped
    BY OverlapStays
<1>2. (\A r, q \in Active : r = q) /\ \A track \in Tracks : Row(track)
    BY <1>1 DEF InOrder
<1>3. CASE UNCHANGED vars \/ Close
    <2>1. UNCHANGED <<rpc, lc, tally, yielding, commits, log, pendingReplace, pendingConfig>>
        BY <1>3 DEF Close, vars, cellVars, runVars, histVars, logVars
    <2>2. Active' = Active
        BY <2>1 DEF Active
    <2> QED
        BY <1>2, <2>1, <2>2, RowSame
<1>4. ASSUME NEW r \in Runs, RunStep(r)
      PROVE  (\A p, q \in Active' : p = q) /\ \A track \in Tracks : Row(track)'
    BY <1>1, <1>4, ActiveNext, RowByRun
<1>5. ASSUME NEW h \in Hosts, HostStep(h)
      PROVE  (\A p, q \in Active' : p = q) /\ \A track \in Tracks : Row(track)'
    <2>1. UNCHANGED rpc
        BY <1>5 DEF HostStep, Replace, UpdateConfig, Ask, Boot, ReplaceLock, ReplaceStore,
            StoreConfig, runVars
    <2>2. Active' = Active
        BY <2>1 DEF Active
    <2>3. \A track \in Tracks : Row(track)'
        BY <1>1, <1>5, RowByHost
    <2> QED
        BY <1>2, <2>2, <2>3
<1> QED
    BY <1>3, <1>4, <1>5 DEF Next

-----------------------------------------------------------------------------
(* What the wiring adds up to. *)

LEMMA LastConfigCommit ==
    ASSUME NEW S, NEW q \in Seq(S), NEW a \in S
    PROVE  LastConfig(Append(q, a), a.new)
<1>1. Append(q, a) # << >> /\ Len(Append(q, a)) = Len(q) + 1
      /\ Append(q, a)[Len(q) + 1] = a
    BY AppendProperties
<1> QED
    BY <1>1 DEF LastConfig

LEMMA LastPortCommit ==
    ASSUME NEW S, NEW q \in Seq(S), NEW a \in S, NEW s, NEW v,
           a.slot # s => LastPort(q, s, v),
           a.slot = s => v = a.new
    PROVE  LastPort(Append(q, a), s, v)
<1> DEFINE t == Append(q, a)
<1>1. /\ Len(q) \in Nat /\ DOMAIN q = 1 .. Len(q)
      /\ t \in Seq(S) /\ Len(t) = Len(q) + 1
      /\ \A i \in 1 .. Len(q) : t[i] = q[i]
      /\ t[Len(q) + 1] = a
    BY LenProperties, AppendProperties
<1>2. DOMAIN t = 1 .. Len(t)
    BY <1>1, LenProperties
<1> DEFINE n == Len(q)
<1> HIDE DEF t, n
<1>3. /\ n \in Nat /\ DOMAIN q = 1 .. n /\ DOMAIN t = 1 .. n + 1
      /\ \A i \in 1 .. n : t[i] = q[i]
      /\ t[n + 1] = a
    BY <1>1, <1>2 DEF n
<1>4. CASE a.slot = s
    <2>1. n + 1 \in DOMAIN t /\ \A j \in DOMAIN t : j <= n + 1
        BY <1>3
    <2> QED
        BY <1>3, <1>4, <2>1 DEF LastPort, t
<1>5. CASE a.slot # s
    <2>1. \A j \in DOMAIN t : t[j].slot = s => j \in DOMAIN q /\ q[j] = t[j]
        BY <1>3, <1>5
    <2>2. \A i \in DOMAIN q : i \in DOMAIN t /\ t[i] = q[i]
        BY <1>3
    <2>3. LastPort(q, s, v)
        BY <1>5
    <2>4. LastPort(t, s, v)
        BY <2>1, <2>2, <2>3 DEF LastPort
    <2> QED
        BY <2>4 DEF t
<1> QED
    BY <1>4, <1>5

LEMMA WiredInit == Init => Wired
BY DEF Init, Wired, AddsUp, LastConfig, LastPort, NoTracks, Assembled

LEMMA WiredNext ==
    ASSUME Types, Hostbook, Wired, [Next]_vars
    PROVE  Wired'
<1>1. CASE UNCHANGED <<ports, config, commits>>
    BY <1>1 DEF Wired
<1>2. /\ commits.replace \in Seq(ReplaceAudits) /\ commits.config \in Seq(ConfigAudits)
      /\ ports \in [Slots -> 0 .. MaxSwaps]
    BY DEF Types, AuditTypes, WiringTypes
<1>3. /\ LastConfig(commits.config, config)
      /\ \A s \in Slots : LastPort(commits.replace, s, ports[s])
    BY DEF Wired, AddsUp
<1>4. ASSUME NEW h \in Hosts, ReplaceStore(h)
      PROVE  Wired'
    <2>1. PICK a \in ReplaceAudits :
             /\ ports' = [ports EXCEPT ![a.slot] = a.new]
             /\ commits'.replace = Append(commits.replace, a)
        BY <1>4, ReplaceStored DEF Types
    <2>2. commits'.config = commits.config /\ config' = config
        BY <1>4, ReplaceStored DEF Types
    <2>3. ASSUME NEW s \in Slots
          PROVE  LastPort(Append(commits.replace, a), s, ports'[s])
        <3>1. a.slot # s => ports'[s] = ports[s]
            BY <1>2, <2>1
        <3>2. a.slot = s => ports'[s] = a.new
            BY <1>2, <2>1
        <3> QED
            BY <1>2, <1>3, <3>1, <3>2, LastPortCommit
    <2> QED
        BY <1>3, <2>1, <2>2, <2>3 DEF Wired, AddsUp
<1>5. ASSUME NEW h \in Hosts, StoreConfig(h)
      PROVE  Wired'
    <2>1. PICK a \in ConfigAudits :
             config' = a.new /\ commits'.config = Append(commits.config, a)
        BY <1>5, ConfigStored DEF Types
    <2>2. commits'.replace = commits.replace /\ ports' = ports
        BY <1>5, ConfigStored DEF Types
    <2>3. LastConfig(Append(commits.config, a), a.new)
        BY <1>2, LastConfigCommit
    <2> QED
        BY <1>3, <2>1, <2>2, <2>3 DEF Wired, AddsUp
<1> QED
    BY <1>1, <1>4, <1>5, Frame

-----------------------------------------------------------------------------
(* What a run works with is what its consumer has been told and what it     *)
(* still holds.                                                             *)

LEMMA TellInit == Init => Tell
BY DEF Init, Tell

LEMMA ToldInARow ==
    ASSUME NEW S, NEW C \in Seq(S), NEW R \in Seq(S), NEW Q \in Seq(S),
           InARow(C, R, << >>, Q)
    PROVE  Told(R, Q) = C
<1>1. R \o << >> = R
    BY ConcatEmptySeq
<1> QED
    BY <1>1 DEF InARow, Told

LEMMA ToldAfterReceiving ==
    ASSUME NEW S, NEW R \in Seq(S), NEW H \in Seq(S), H # << >>
    PROVE  Told(Append(R, Head(H)), Tail(H)) = Told(R, H)
BY ConcatHead DEF Told

LEMMA SnapshotTells ==
    ASSUME Types, Types', Phases, InOrder, Wired, ~overlapped, ~overlapped',
           NEW r \in Runs, Snapshot(r)
    PROVE  TellingRun(r)'
<1>1. Active = {r}
    BY ActiveNext DEF RunStep, Snapshot, Start
<1>2. ASSUME NEW track \in Tracks
      PROVE  Told(log[track], Held(track)[r])' = commits[track]
    <2> DEFINE S == AuditType(track)
               C == commits[track]
               Q == Pending(track)
               H == Held(track)
               R == log[track]
    <2>1. C \in Seq(S) /\ Q \in Seq(S) /\ H \in [Runs -> Seq(S)] /\ R \in Seq(S)
        BY TrackTypes
    <2>2. R' = R /\ H[r] = << >> /\ H' = [H EXCEPT ![r] = Q]
        BY SnapshotDrains DEF Track!Drain
    <2>3. InARow(C, R, << >>, Q)
        BY <1>1, <2>2 DEF InOrder, Row
    <2>4. H'[r] = Q
        BY <2>1, <2>2
    <2>5. Told(R, Q) = C
        <3> HIDE DEF C, Q, H, R, S
        <3> QED
            BY <2>1, <2>3, ToldInARow
    <2> QED
        BY <2>2, <2>4, <2>5
<1>3. lc'[r].ports = ports /\ lc'[r].config = config
    BY DEF Snapshot, Types, RunTypes
<1>4. /\ Told(log.replace, Held("replace")[r])' = commits.replace
      /\ Told(log.config, Held("config")[r])' = commits.config
    BY <1>2 DEF Tracks
<1> QED
    BY <1>3, <1>4 DEF TellingRun, Wired

LEMMA DeliverTells ==
    ASSUME Types, Types', Phases, NEW r \in Runs, Deliver(r), TellingRun(r)
    PROVE  TellingRun(r)'
<1>1. ASSUME NEW track \in Tracks
      PROVE  Told(log[track], Held(track)[r])' = Told(log[track], Held(track)[r])
    <2> DEFINE S == AuditType(track)
               H == Held(track)
               R == log[track]
    <2>1. H \in [Runs -> Seq(S)] /\ R \in Seq(S)
        BY TrackTypes
    <2>2. CASE UNCHANGED Track(track)!avars
        BY <2>2 DEF Track!avars
    <2>3. CASE Track(track)!Receive(r)
        <3>1. /\ H[r] # << >> /\ H' = [H EXCEPT ![r] = Tail(H[r])]
              /\ R' = Append(R, Head(H[r]))
            BY <2>3 DEF Track!Receive
        <3>2. H'[r] = Tail(H[r]) /\ H[r] \in Seq(S)
            BY <2>1, <3>1
        <3>3. Told(Append(R, Head(H[r])), Tail(H[r])) = Told(R, H[r])
            <4> HIDE DEF H, R, S
            <4> QED
                BY <2>1, <3>1, <3>2, ToldAfterReceiving
        <3> QED
            BY <3>1, <3>2, <3>3
    <2> QED
        BY <2>2, <2>3, DeliverReceives
<1>2. UNCHANGED lc
    BY DEF Deliver
<1>3. /\ Told(log.replace, Held("replace")[r])' = Told(log.replace, Held("replace")[r])
      /\ Told(log.config, Held("config")[r])' = Told(log.config, Held("config")[r])
    BY <1>1 DEF Tracks
<1> QED
    BY <1>2, <1>3 DEF TellingRun

(* Between the snapshot and the return nothing but a delivery moves an      *)
(* audit of the run.                                                        *)
LEMMA QuietTells ==
    ASSUME Types, Types', Phases, NEW r \in Runs, TellingRun(r),
           PreludePasses(r) \/ EmitAudit(r) \/ AuditsOver(r) \/ LoopEvent(r)
    PROVE  TellingRun(r)'
<1>1. \A track \in Tracks : UNCHANGED Track(track)!avars
    BY QuietRun, EmitKeeps
<1>2. \A track \in Tracks : UNCHANGED <<log[track], Held(track)[r]>>
    BY <1>1 DEF Track!avars
<1>3. UNCHANGED lc
    BY DEF PreludePasses, EmitAudit, AuditsOver, LoopEvent
<1>4. UNCHANGED <<log.replace, Held("replace")[r], log.config, Held("config")[r]>>
    BY <1>2 DEF Tracks
<1> QED
    BY <1>3, <1>4 DEF TellingRun

LEMMA TellByRun ==
    ASSUME Types, Types', Phases, InOrder, Wired, Tell, ~overlapped, ~overlapped',
           NEW r \in Runs, RunStep(r), NEW q \in Runs,
           rpc'[q] \in {"prelude", "audits", "loop"}
    PROVE  TellingRun(q)'
<1>1. q = r
    BY ActiveNext DEF Active
<1>2. rpc[r] \in {"prelude", "audits", "loop"} => TellingRun(r)
    BY DEF Tell
<1>3. CASE Snapshot(r)
    BY <1>1, <1>3, SnapshotTells
<1>4. CASE PreludePasses(r) \/ EmitAudit(r) \/ AuditsOver(r) \/ LoopEvent(r)
    <2>1. rpc[r] \in {"prelude", "audits", "loop"}
        BY <1>4 DEF PreludePasses, EmitAudit, AuditsOver, LoopEvent
    <2> QED
        BY <1>1, <1>2, <1>4, <2>1, QuietTells
<1>5. CASE Deliver(r)
    <2>1. rpc[r] \in {"prelude", "audits", "loop"}
        BY <1>1, <1>5 DEF Deliver, Goto, Types, ControlTypes
    <2> QED
        BY <1>1, <1>2, <1>5, <2>1, DeliverTells
<1>6. CASE Start(r) \/ Refused(r) \/ PreludeDies(r) \/ LoopReturns(r) \/ RequeueUndelivered(r)
    BY <1>1, <1>6 DEF Start, Refused, PreludeDies, LoopReturns, RequeueUndelivered,
        Settled, Goto, Types, ControlTypes
<1> QED
    BY <1>3, <1>4, <1>5, <1>6 DEF RunStep

LEMMA TellNext ==
    ASSUME Types, Types', Phases, InOrder, Wired, Tell, [Next]_vars
    PROVE  Tell'
<1> SUFFICES ASSUME ~overlapped', NEW q \in Runs',
                    rpc'[q] \in {"prelude", "audits", "loop"}
             PROVE  TellingRun(q)'
    BY DEF Tell
<1>1. ~overlapped
    BY OverlapStays
<1>2. ASSUME UNCHANGED <<rpc, lc, tally, yielding, log>>
      PROVE  TellingRun(q)'
    <2>1. TellingRun(q)
        BY <1>1, <1>2 DEF Tell
    <2> QED
        BY <1>2, <2>1 DEF TellingRun, Held, Outstanding, InFlight, Undelivered
<1>3. CASE UNCHANGED vars \/ Close
    BY <1>2, <1>3 DEF Close, vars, runVars, histVars, logVars
<1>4. ASSUME NEW r \in Runs, RunStep(r)
      PROVE  TellingRun(q)'
    BY <1>1, <1>4, TellByRun
<1>5. ASSUME NEW h \in Hosts, HostStep(h)
      PROVE  TellingRun(q)'
    <2>1. UNCHANGED <<rpc, lc, tally, yielding, log>>
        BY <1>5 DEF HostStep, Replace, UpdateConfig, Ask, Boot, ReplaceLock, ReplaceStore,
            StoreConfig, runVars, histVars, logVars
    <2> QED
        BY <1>2, <2>1
<1> QED
    BY <1>3, <1>4, <1>5 DEF Next

-----------------------------------------------------------------------------
(* Overlapping invocations: what a run works with is accounted for.         *)

LEMMA OwedInit == Init => Owed
BY DEF Init, Owed

LEMMA HandHolds ==
    ASSUME Types, NEW track \in Tracks, NEW r \in Runs, NEW q \in Runs, q # r,
           NEW v, Carries(Held(track)[q], v)
    PROVE  v \in HeldByOthers(r)
<1>1. PICK a \in Range(Held(track)[q]) : a.new = v
    BY DEF Carries
<1>2. a \in Range(InFlight(q, track)) \cup Range(Undelivered(q, track))
    BY <1>1, HeldRange
<1>3. a \in InHand(q, track)
    <2>1. CASE a \in Range(Undelivered(q, track))
        BY <2>1 DEF Range, InHand
    <2>2. CASE a \in Range(InFlight(q, track)) /\ yielding[q].kind = track
        <3>1. a = yielding[q].audit
            BY <2>2, RangeOfOne DEF InFlight
        <3> QED
            BY <2>2, <3>1 DEF InHand
    <2>3. CASE a \in Range(InFlight(q, track)) /\ yielding[q].kind # track
        BY <2>3, RangeOfNone DEF InFlight
    <2> QED
        BY <1>2, <2>1, <2>2, <2>3
<1>4. a \in InHand(q, "replace") \cup InHand(q, "config")
    BY <1>3 DEF Tracks
<1> QED
    BY <1>1, <1>4 DEF HeldByOthers

(* Where the audit of a swap is that a snapshot meets.                      *)
LEMMA CommittedSomewhere ==
    ASSUME Types, Conserved, NEW track \in Tracks, NEW r \in Runs,
           Held(track)[r] = << >>, NEW v, Carries(commits[track], v)
    PROVE  Carries(log[track], v) \/ Carries(Pending(track), v) \/ v \in HeldByOthers(r)
<1>1. PICK a \in Range(commits[track]) : a.new = v
    BY DEF Carries
<1>2. Range(commits[track]) = Range(log[track]) \cup Range(Pending(track))
                                \cup UNION {Range(Held(track)[q]) : q \in Runs}
    BY DEF Conserved, Partition
<1>3. ASSUME NEW q \in Runs, a \in Range(Held(track)[q])
      PROVE  v \in HeldByOthers(r)
    <2>1. q # r
        BY <1>3, RangeOfNone
    <2>2. Carries(Held(track)[q], v)
        BY <1>1, <1>3 DEF Carries
    <2> QED
        BY <2>1, <2>2, HandHolds
<1> QED
    BY <1>1, <1>2, <1>3 DEF Carries

LEMMA LastIsCarried ==
    ASSUME NEW S, NEW q \in Seq(S), NEW v
    PROVE  /\ LastConfig(q, v) => v = NoSwap \/ Carries(q, v)
           /\ \A s : LastPort(q, s, v) => v = NoSwap \/ Carries(q, v)
<1>1. q # << >> => Len(q) \in DOMAIN q
    BY EmptySeq, LenProperties
<1> QED
    BY <1>1 DEF LastConfig, LastPort, Carries, Range, NoSwap

LEMMA SnapshotAccounts ==
    ASSUME Types, Types', Phases, Conserved, Wired, Owed, NEW r \in Runs, Snapshot(r)
    PROVE  AccountedRun(r)'
<1>1. blind'[r] = HeldByOthers(r)
    BY DEF Snapshot, Owed
<1>2. ASSUME NEW track \in Tracks, NEW v, v = NoSwap \/ Carries(commits[track], v)
      PROVE  Accounted(r, log[track], Held(track)[r], v)'
    <2>1. log[track]' = log[track] /\ Held(track)[r] = << >>
          /\ Held(track)'[r] = Pending(track)
        BY TrackTypes, SnapshotDrains DEF Track!Drain
    <2>2. \/ v = NoSwap \/ Carries(log[track], v) \/ Carries(Pending(track), v)
          \/ v \in HeldByOthers(r)
        BY <1>2, <2>1, CommittedSomewhere
    <2> QED
        BY <1>1, <2>1, <2>2 DEF Accounted
<1>3. lc'[r].ports = ports /\ lc'[r].config = config
    BY DEF Snapshot, Types, RunTypes
<1>4. config = NoSwap \/ Carries(commits["config"], config)
    BY TrackTypes, LastIsCarried DEF Wired, AddsUp, Tracks
<1>5. \A s \in Slots : ports[s] = NoSwap \/ Carries(commits["replace"], ports[s])
    BY TrackTypes, LastIsCarried DEF Wired, AddsUp, Tracks
<1> QED
    BY <1>2, <1>3, <1>4, <1>5 DEF AccountedRun, Tracks

(* A step that is not the run's own hand-back takes no audit out of its     *)
(* hand but to a consumer.                                                  *)
LEMMA ReceivedOrHeld ==
    ASSUME NEW S, NEW R \in Seq(S), NEW H \in Seq(S), H # << >>, NEW v,
           Carries(R, v) \/ Carries(H, v)
    PROVE  Carries(Append(R, Head(H)), v) \/ Carries(Tail(H), v)
<1> DEFINE a == Head(H)
           t == Tail(H)
<1>1. H = <<a>> \o t /\ a \in S /\ t \in Seq(S)
    BY HeadBack
<1> HIDE DEF a, t
<1>2. <<a>> \in Seq(S) /\ Range(<<a>>) = {a}
    BY <1>1, RangeOfOne
<1>3. Range(H) = {a} \cup Range(t)
    <2> DEFINE u == <<a>>
    <2>1. u \in Seq(S) /\ t \in Seq(S)
        BY <1>1, <1>2
    <2> HIDE DEF u
    <2>2. Range(u \o t) = Range(u) \cup Range(t)
        BY <2>1, InjectiveConcat
    <2> QED
        BY <1>1, <1>2, <2>2 DEF u
<1>4. Append(R, a) = R \o <<a>>
    BY <1>1, AppendIsConcat
<1>5. Range(Append(R, a)) = Range(R) \cup {a}
    <2>1. Range(R \o <<a>>) = Range(R) \cup Range(<<a>>)
        BY <1>2, InjectiveConcat
    <2> QED
        BY <1>2, <1>4, <2>1
<1>6. Carries(Append(R, a), v) \/ Carries(t, v)
    BY <1>3, <1>5 DEF Carries
<1> QED
    BY <1>6 DEF a, t

LEMMA HandsKeep ==
    ASSUME Types, Types', Phases, Hostbook, Numbered, [Next]_vars, NEW track \in Tracks,
           NEW q \in Runs, ~Snapshot(q), ~RequeueUndelivered(q), NEW v,
           Carries(log[track], v) \/ Carries(Held(track)[q], v)
    PROVE  Carries(log[track]', v) \/ Carries(Held(track)'[q], v)
<1> DEFINE S == AuditType(track)
           H == Held(track)
           R == log[track]
<1>0. H \in [Runs -> Seq(S)] /\ R \in Seq(S)
    BY TrackTypes
<1>1. CASE UNCHANGED Track(track)!avars
    BY <1>1 DEF Track!avars
<1>2. ASSUME NEW a \in AuditType(track), Track(track)!Commit(a)
      PROVE  Carries(R', v) \/ Carries(H'[q], v)
    BY <1>2 DEF Track!Commit
<1>3. ASSUME NEW r \in Runs, r # q, Track(track)!Drain(r) \/ Track(track)!HandBack(r)
      PROVE  Carries(R', v) \/ Carries(H'[q], v)
    <2>1. R' = R /\ H'[q] = H[q]
        BY <1>0, <1>3 DEF Track!Drain, Track!HandBack
    <2> QED
        BY <2>1
<1>4. ASSUME NEW r \in Runs, Track(track)!Receive(r)
      PROVE  Carries(R', v) \/ Carries(H'[q], v)
    <2>1. /\ H[r] # << >> /\ H' = [H EXCEPT ![r] = Tail(H[r])]
          /\ R' = Append(R, Head(H[r]))
        BY <1>4 DEF Track!Receive
    <2>2. CASE r = q
        <3>1. H'[q] = Tail(H[q]) /\ H[q] \in Seq(S)
            BY <1>0, <2>1, <2>2
        <3>2. Carries(Append(R, Head(H[q])), v) \/ Carries(Tail(H[q]), v)
            <4> HIDE DEF H, R, S
            <4> QED
                BY <1>0, <2>1, <2>2, <3>1, ReceivedOrHeld DEF H, R
        <3> QED
            BY <2>1, <2>2, <3>1, <3>2
    <2>3. CASE r # q
        <3>1. H'[q] = H[q]
            BY <1>0, <2>1, <2>3
        <3>2. Range(R) \subseteq Range(R')
            <4> DEFINE a == Head(H[r])
            <4>1. H[r] \in Seq(S) /\ a \in S /\ R' = Append(R, a)
                BY <1>0, <2>1, HeadBack
            <4> HIDE DEF H, S, a
            <4>2. Append(R, a) = R \o <<a>> /\ <<a>> \in Seq(S) /\ R \in Seq(S)
                BY <1>0, <4>1, AppendIsConcat
            <4>3. Range(R \o <<a>>) = Range(R) \cup Range(<<a>>)
                BY <4>2, InjectiveConcat
            <4> QED
                BY <4>1, <4>2, <4>3
        <3> QED
            BY <3>1, <3>2 DEF Carries
    <2> QED
        BY <2>2, <2>3
<1> QED
    BY <1>1, <1>2, <1>3, <1>4, Moves

LEMMA RunKeepsItsContext ==
    ASSUME Types, Types', [Next]_vars, NEW q \in Runs, ~Snapshot(q), Owed,
           rpc'[q] \in {"prelude", "audits", "loop"}
    PROVE  /\ rpc[q] \in {"prelude", "audits", "loop"} /\ ~RequeueUndelivered(q)
           /\ lc'[q].ports = lc[q].ports /\ lc'[q].config = lc[q].config
           /\ blind'[q] = blind[q]
<1>1. CASE UNCHANGED <<rpc, lc, blind>> /\ ~RequeueUndelivered(q)
    BY <1>1
<1>2. RequeueUndelivered(q) => rpc'[q] = "idle"
    BY DEF RequeueUndelivered, Settled, Goto, Types, ControlTypes
<1>3. CASE UNCHANGED vars \/ Close
    BY <1>1, <1>2, <1>3 DEF Close, vars, runVars, histVars
<1>4. ASSUME NEW h \in Hosts, HostStep(h)
      PROVE  UNCHANGED <<rpc, lc, blind>>
    BY <1>4 DEF HostStep, Replace, UpdateConfig, Ask, Boot, ReplaceLock, ReplaceStore,
        StoreConfig, runVars, histVars
<1>5. ASSUME NEW r \in Runs, RunStep(r), r # q
      PROVE  UNCHANGED <<rpc[q], lc[q], blind[q]>>
    <2>1. UNCHANGED <<rpc[q], lc[q]>>
        BY <1>5, OthersStay
    <2>2. blind' = blind \/ \E x : blind' = [blind EXCEPT ![r] = x]
        BY <1>5 DEF RunStep, Start, Refused, Snapshot, PreludeDies, PreludePasses,
            EmitAudit, AuditsOver, LoopEvent, LoopReturns, RequeueUndelivered,
            Settled, Deliver, histVars
    <2> QED
        BY <1>5, <2>1, <2>2 DEF Owed
<1>6. CASE PreludePasses(q) \/ EmitAudit(q) \/ AuditsOver(q) \/ LoopEvent(q) \/ Deliver(q)
    <2>1. UNCHANGED <<lc, blind>>
        BY <1>6 DEF PreludePasses, EmitAudit, AuditsOver, LoopEvent, Deliver, histVars
    <2>2. rpc[q] \in {"prelude", "audits", "loop"}
        BY <1>6 DEF PreludePasses, EmitAudit, AuditsOver, LoopEvent, Deliver, Goto,
            Types, ControlTypes
    <2> QED
        BY <1>2, <2>1, <2>2
<1>7. CASE Start(q) \/ Refused(q) \/ PreludeDies(q) \/ LoopReturns(q) \/ RequeueUndelivered(q)
    BY <1>7 DEF Start, Refused, PreludeDies, LoopReturns, RequeueUndelivered,
        Settled, Goto, Types, ControlTypes
<1>8. CASE RunStep(q)
    BY <1>6, <1>7, <1>8 DEF RunStep
<1> QED
    BY <1>1, <1>2, <1>3, <1>4, <1>5, <1>8 DEF Next

LEMMA BlindOnRuns ==
    ASSUME DOMAIN blind = Runs, [Next]_vars
    PROVE  DOMAIN blind' = Runs
<1>1. ASSUME NEW r \in Runs, RunStep(r)
      PROVE  blind' = blind \/ \E x : blind' = [blind EXCEPT ![r] = x]
    BY <1>1 DEF RunStep, Start, Refused, Snapshot, PreludeDies, PreludePasses,
        EmitAudit, AuditsOver, LoopEvent, LoopReturns, RequeueUndelivered,
        Settled, Deliver, histVars
<1>2. ASSUME NEW h \in Hosts, HostStep(h)
      PROVE  blind' = blind
    BY <1>2 DEF HostStep, Replace, UpdateConfig, Ask, Boot, ReplaceLock, ReplaceStore,
        StoreConfig, histVars
<1>3. CASE UNCHANGED vars \/ Close
    BY <1>3 DEF Close, vars, histVars
<1> QED
    BY <1>1, <1>2, <1>3 DEF Next

LEMMA OwedNext ==
    ASSUME Types, Types', Phases, Hostbook, Numbered, Conserved, Wired, Owed, [Next]_vars
    PROVE  Owed'
<1>1. DOMAIN blind' = Runs
    BY BlindOnRuns DEF Owed
<1>2. ASSUME NEW q \in Runs, rpc'[q] \in {"prelude", "audits", "loop"}
      PROVE  AccountedRun(q)'
    <2>1. CASE Snapshot(q)
        BY <2>1, SnapshotAccounts
    <2>2. CASE ~Snapshot(q)
        <3>1. /\ rpc[q] \in {"prelude", "audits", "loop"} /\ ~RequeueUndelivered(q)
              /\ lc'[q].ports = lc[q].ports /\ lc'[q].config = lc[q].config
              /\ blind'[q] = blind[q]
            BY <1>2, <2>2, RunKeepsItsContext
        <3>2. AccountedRun(q)
            BY <3>1 DEF Owed
        <3>3. ASSUME NEW track \in Tracks, NEW v, Accounted(q, log[track], Held(track)[q], v)
              PROVE  /\ \/ v = NoSwap \/ v \in blind'[q]
                        \/ Carries(log[track]', v) \/ Carries(Held(track)'[q], v)
            BY <2>2, <3>1, <3>3, HandsKeep DEF Accounted
        <3> QED
            BY <3>1, <3>2, <3>3 DEF AccountedRun, Accounted, Tracks
    <2> QED
        BY <2>1, <2>2
<1> QED
    BY <1>1, <1>2 DEF Owed

-----------------------------------------------------------------------------
(* The ledgers and what they give. *)

LEMMA CellLedgersInit == Init => CellLedgers
BY TypesInit, HostbookInit, NumbersInit, PhasesInit, NumberedInit, ConservedInit,
   InOrderInit, WiredInit, TellInit, OwedInit DEF CellLedgers

LEMMA CellLedgersNext ==
    ASSUME CellLedgers, [Next]_vars
    PROVE  CellLedgers'
<1>1. Types /\ Hostbook /\ Numbers /\ Phases /\ Numbered
    BY DEF CellLedgers
<1>2. Conserved /\ InOrder /\ Wired /\ Tell /\ Owed
    BY DEF CellLedgers
<1>3. Types'
    BY <1>1, TypesNext
<1>4. Hostbook'
    BY <1>1, HostbookNext DEF Types
<1>5. Numbers' /\ Phases'
    BY <1>1, NumbersNext, PhasesNext
<1>6. Numbered' /\ Conserved'
    BY <1>1, <1>2, <1>3, NumberedNext, ConservedNext
<1>7. InOrder'
    BY <1>1, <1>2, <1>3, InOrderNext
<1>8. Wired'
    BY <1>1, <1>2, WiredNext
<1>9. Tell'
    BY <1>1, <1>2, <1>3, TellNext
<1>10. Owed'
    BY <1>1, <1>2, <1>3, OwedNext
<1> QED
    BY <1>3, <1>4, <1>5, <1>6, <1>7, <1>8, <1>9, <1>10 DEF CellLedgers

LEMMA InOrderGivesSwapOrder == Types /\ InOrder => AuditsInSwapOrder
<1> SUFFICES ASSUME Types, InOrder, ~overlapped, NEW track \in Tracks
             PROVE  commits[track] =
                       log[track] \o (IF Active = {} THEN << >>
                                      ELSE LET r == CHOOSE q \in Active : TRUE
                                           IN  InFlight(r, track) \o Undelivered(r, track))
                       \o Pending(track)
    BY DEF AuditsInSwapOrder
<1>1. Row(track)
    BY DEF InOrder
<1>2. CASE Active = {}
    BY <1>1, <1>2 DEF Row, InARow
<1>3. CASE Active # {}
    <2> DEFINE r == CHOOSE q \in Active : TRUE
    <2>1. r \in Active
        BY <1>3
    <2> HIDE DEF r
    <2>2. r \in Runs
        BY <2>1 DEF Active
    <2>3. Held(track)[r] = InFlight(r, track) \o Undelivered(r, track)
        BY <2>2, HeldTypes DEF Types, Outstanding
    <2>4. InARow(commits[track], log[track], Held(track)[r], Pending(track))
        BY <1>1, <2>1 DEF Row
    <2>5. commits[track] = log[track] \o (InFlight(r, track) \o Undelivered(r, track))
                              \o Pending(track)
        BY <2>3, <2>4 DEF InARow
    <2> QED
        BY <1>3, <2>5 DEF r
<1> QED
    BY <1>2, <1>3

LEMMA LastOne ==
    ASSUME NEW A \in SUBSET Nat, NEW k \in A, \A j \in A : j <= k
    PROVE  (CHOOSE i \in A : \A j \in A : j <= i) = k
<1>1. PICK c \in A : c = (CHOOSE i \in A : \A j \in A : j <= i) /\ \A j \in A : j <= c
    OBVIOUS
<1>2. c <= k /\ k <= c /\ c \in Nat /\ k \in Nat
    BY <1>1
<1>3. c = k
    BY <1>2
<1> QED
    BY <1>1, <1>3

LEMMA LastPortIsToldPort ==
    ASSUME AuditTypes(log), NEW s, NEW v, LastPort(log.replace, s, v)
    PROVE  v = ToldPort(s)
<1> DEFINE q == log.replace
           about == {i \in DOMAIN q : q[i].slot = s}
           c == CHOOSE i \in about : \A j \in about : j <= i
<1>1. ToldPort(s) = IF about = {} THEN 0 ELSE q[c].new
    BY DEF ToldPort
<1>2. about \subseteq Nat
    <2>1. q \in Seq(ReplaceAudits)
        BY DEF AuditTypes
    <2> QED
        BY <2>1, LenProperties
<1>3. CASE v = 0 /\ \A i \in DOMAIN q : q[i].slot # s
    BY <1>1, <1>3
<1>4. ASSUME NEW i \in DOMAIN q, q[i].slot = s, q[i].new = v,
             \A j \in DOMAIN q : q[j].slot = s => j <= i
      PROVE  v = ToldPort(s)
    <2>1. i \in about /\ \A j \in about : j <= i
        BY <1>4
    <2> HIDE DEF about
    <2>2. c = i
        BY <1>2, <2>1, LastOne
    <2>3. about # {}
        BY <2>1
    <2> HIDE DEF c
    <2> QED
        BY <1>1, <1>4, <2>2, <2>3
<1> QED
    BY <1>3, <1>4 DEF LastPort

LEMMA LoopHoldsNothing ==
    ASSUME Types, Phases, NEW r \in Runs, rpc[r] = "loop", NEW track \in Tracks
    PROVE  Held(track)[r] = << >>
<1>1. Undelivered(r, track) = << >> /\ InFlight(r, track) = << >>
    BY DEF Phases, InFlight, Tracks
<1>2. Held(track)[r] = << >> \o << >>
    BY <1>1, HeldTypes DEF Types, Outstanding
<1> QED
    BY <1>2, ConcatEmptySeq, EmptySequences

(* While invocations follow one another a loop works with what the received *)
(* audits add up to.                                                        *)
LEMMA TellGivesExactly ==
    ASSUME Types, Phases, Tell, ~overlapped, NEW r \in Runs, rpc[r] = "loop"
    PROVE  /\ lc[r].config = ToldConfig
           /\ \A s \in Slots : lc[r].ports[s] = ToldPort(s)
<1>1. ASSUME NEW track \in Tracks
      PROVE  Told(log[track], Held(track)[r]) = log[track]
    <2>1. Held(track)[r] = << >>
        BY LoopHoldsNothing
    <2>2. log[track] \in Seq(AuditType(track))
        BY TrackTypes
    <2>3. log[track] \o << >> = log[track]
        BY <2>2, ConcatEmptySeq
    <2> QED
        BY <2>1, <2>3 DEF Told
<1>2. /\ Told(log.replace, Held("replace")[r]) = log.replace
      /\ Told(log.config, Held("config")[r]) = log.config
    BY <1>1 DEF Tracks
<1>3. AddsUp(log.replace, log.config, lc[r].ports, lc[r].config)
    BY <1>2 DEF Tell, TellingRun
<1>4. lc[r].config = ToldConfig
    BY <1>3 DEF AddsUp, LastConfig, ToldConfig
<1>5. \A s \in Slots : lc[r].ports[s] = ToldPort(s)
    BY <1>3, LastPortIsToldPort DEF AddsUp, Types
<1> QED
    BY <1>4, <1>5

(* Overlapping or not, it works with nothing that was neither told nor in   *)
(* another's hand at its snapshot.                                          *)
LEMMA OwedGivesTold ==
    ASSUME Types, Phases, Owed, NEW r \in Runs, rpc[r] = "loop"
    PROVE  /\ lc[r].config \in {NoSwap} \cup ToldSwaps("config") \cup blind[r]
           /\ \A s \in Slots :
                 lc[r].ports[s] \in {NoSwap} \cup ToldSwaps("replace") \cup blind[r]
<1>1. ASSUME NEW track \in Tracks, NEW v, Accounted(r, log[track], Held(track)[r], v)
      PROVE  v \in {NoSwap} \cup ToldSwaps(track) \cup blind[r]
    <2>1. ~Carries(Held(track)[r], v)
        BY LoopHoldsNothing, RangeOfNone DEF Carries
    <2>2. Carries(log[track], v) => v \in ToldSwaps(track)
        BY DEF Carries, Range, ToldSwaps
    <2> QED
        BY <1>1, <2>1, <2>2 DEF Accounted
<1>2. AccountedRun(r)
    BY DEF Owed
<1> QED
    BY <1>1, <1>2 DEF AccountedRun, Tracks

LEMMA LedgersGiveEffectTold == Types /\ Phases /\ Tell /\ Owed => EffectIsTold
BY TellGivesExactly, OwedGivesTold DEF EffectIsTold

LEMMA TrackInit ==
    ASSUME Init, NEW track \in Tracks
    PROVE  Track(track)!Init
<1>1. /\ commits[track] = << >> /\ log[track] = << >> /\ Pending(track) = << >>
    BY DEF Init, NoTracks, Pending, Tracks
<1>2. ASSUME NEW r \in Runs
      PROVE  Held(track)[r] = << >>
    BY TypesInit, PhasesInit, IdleHoldsNothing DEF Init
<1>3. Held(track) = [r \in Runs |-> << >>]
    BY <1>2 DEF Held
<1> QED
    BY <1>1, <1>3 DEF Track!Init

LEMMA TrackNext ==
    ASSUME CellLedgers, CellLedgers', [Next]_vars, NEW track \in Tracks
    PROVE  [Track(track)!Next]_(Track(track)!avars)
BY Moves DEF CellLedgers, Track!Next

-----------------------------------------------------------------------------
(* The theorems. *)

(* In every state the cell reaches, everything the ledgers say holds: types, *)
(* the room hosts reserve for swap numbers, fresh event numbers, who may     *)
(* hold audits, one place for each, their order and what they add up to.     *)
THEOREM CellInvariant == Spec => []CellLedgers
<1>1. Init => CellLedgers
    BY CellLedgersInit
<1>2. CellLedgers /\ [Next]_vars => CellLedgers'
    BY CellLedgersNext
<1> QED
    BY <1>1, <1>2, PTL DEF Spec

(* Cell's fields, every LoopContext, every auditTally and every goroutine's  *)
(* place have their types, and a tally never exceeds what was drained.       *)
THEOREM CellTypeCorrect == Spec => []TypeOK
<1>1. CellLedgers => TypeOK
    BY TypesGiveTypeOK DEF CellLedgers
<1> QED
    BY <1>1, CellInvariant, PTL

(* Whatever drains, hands back, dies in its prelude or loses its consumer,   *)
(* snapshot, auditTally and requeueUndelivered keep exactly one copy of the  *)
(* audit of every swap.                                                      *)
THEOREM AuditsKept == Spec => []AuditsConserved
<1>1. CellLedgers => AuditsConserved
    BY ConservedGivesOneCopy DEF CellLedgers
<1> QED
    BY <1>1, CellInvariant, PTL

(* While invocations follow one another, the received audits, the current    *)
(* invocation's and the queue are the swaps in their order: a hand-back goes *)
(* in front of what was swapped meanwhile.                                   *)
THEOREM AuditsOrdered == Spec => []AuditsInSwapOrder
<1>1. CellLedgers => AuditsInSwapOrder
    BY InOrderGivesSwapOrder DEF CellLedgers
<1> QED
    BY <1>1, CellInvariant, PTL

(* However invocations overlap, a decision loop works with no swap that was  *)
(* neither told nor in another invocation's hand when it took its snapshot:  *)
(* the snapshot takes the wiring and the queued audits under one hold of the *)
(* wire lock, and the loop begins when they are delivered.  As long as       *)
(* invocations follow one another, it works with exactly what was told.      *)
THEOREM EffectTold == Spec => []EffectIsTold
<1>1. CellLedgers => EffectIsTold
    BY LedgersGiveEffectTold DEF CellLedgers
<1> QED
    BY <1>1, CellInvariant, PTL

(* authored's atomic counter: a number that reaches a consumer reached none  *)
(* before, and is beyond those its own stream has carried.                   *)
THEOREM NumbersUnique == Spec => NumbersNameEvents
<1>1. CellLedgers => \A r \in Runs : yielding[r] # NoEvent /\ yielding'[r] = NoEvent =>
          yielding[r].seq \notin seen /\ yielding[r].seq > lastSeen[r]
    BY DEF CellLedgers, Numbers
<1> QED
    BY <1>1, CellInvariant, PTL DEF NumbersNameEvents

(* Each kind of swap, whatever the other does, is a track of audits: the     *)
(* cell implements AuditTrack, a run holding the audit on its way and what   *)
(* it drained and has not wrapped yet.                                       *)
THEOREM CellImplementsTracks ==
    ASSUME NEW track \in Tracks
    PROVE  Spec => Track(track)!Spec
<1>1. Init => Track(track)!Init
    BY TrackInit
<1>2. CellLedgers /\ CellLedgers' /\ [Next]_vars => [Track(track)!Next]_(Track(track)!avars)
    BY TrackNext
<1> QED
    BY <1>1, <1>2, CellInvariant, PTL DEF Spec, Track!Spec

=============================================================================
