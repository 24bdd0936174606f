---------------------------- MODULE JournalProofs ----------------------------
(***************************************************************************)
(* The decision loop under a host that journals the stream and dies, for   *)
(* every number of deaths: what is executed again was open in the handle   *)
(* that came back, the brain sees one answer to every call, and what the   *)
(* journal misses is the last call or batch.                               *)
(***************************************************************************)
EXTENDS JournalLedger, DecisionLoopCalls, FiniteSetTheorems

-----------------------------------------------------------------------------
(* How a handle and the tracks look to a run that knows of no restart. *)

LEMMA MarkedTypes ==
    ASSUME NEW f \in [Calls -> Nat]
    PROVE  Marked(f) \in [Calls -> Nat]
  BY DEF Marked, Mark

LEMMA HandleParts ==
    ASSUME NEW s \in Session
    PROVE  /\ MarkedHandle(s) \in Session
           /\ MarkedHandle(s).round = s.round /\ MarkedHandle(s).kind = s.kind
           /\ MarkedHandle(s).pending = s.pending
           /\ MarkedHandle(s).remaining = s.remaining
           /\ MarkedHandle(s).draft = s.draft /\ MarkedHandle(s).out = s.out
           /\ MarkedHandle(s).toolResults = s.toolResults
           /\ MarkedHandle(s).vetoes = s.vetoes
           /\ Valid(s) => MarkedHandle(s).refusals = Marked(s.refusals)
           /\ Valid(MarkedHandle(s)) <=> Valid(s)
<1>1. Marked(s.refusals) \in [Calls -> Nat]
  BY MarkedTypes DEF Session
<1>2. QED
  BY <1>1 DEF MarkedHandle, Session, Valid

LEMMA Unseen ==
    /\ UNCHANGED <<lost, before, acted>> => ActedSince' = ActedSince
    /\ UNCHANGED <<lost, sess, refusals>> => MarkedRefusals' = MarkedRefusals
    /\ UNCHANGED <<lost, sess>> => MarkedHandle(sess)' = MarkedHandle(sess)
    /\ UNCHANGED <<lost, held>> => MarkedHandle(held)' = MarkedHandle(held)
  BY DEF ActedSince, MarkedRefusals, MarkedHandle, Marked, Mark

LEMMA KeptValid == \A s : Kept!Valid(s) <=> Valid(s)
  BY DEF Valid, Kept!Valid

LEMMA KeptCardinality == \A S : Kept!Cardinality(S) = Cardinality(S)
  BY Zenon DEF Cardinality, Kept!Cardinality

-----------------------------------------------------------------------------
(* Every step of the loop is such a run's step. *)

USE DEF loopVars, lcVars, trackVars, batchVars, passVars, envVars, hostVars,
        histVars, countVars, auditVars, sayVars, yieldVars, Kept!loopVars,
        Kept!lcVars, Kept!trackVars, Kept!batchVars, Kept!passVars,
        Kept!envVars, Kept!hostVars, Kept!histVars, Kept!countVars,
        Kept!auditVars, Kept!sayVars, Kept!yieldVars

LEMMA SettlingKept ==
    ASSUME UNCHANGED <<lost, before>>,
           OrganFails \/ EmitError \/ ErrorEvent
    PROVE  Kept!Settling
  BY Unseen
     DEF OrganFails, EmitError, ErrorEvent, Yield, Silent, EndWith,
         Kept!OrganFails, Kept!EmitError, Kept!ErrorEvent, Kept!Yield,
         Kept!Silent, Kept!EndWith,
         Kept!Settling

LEMMA EnteringKept ==
    ASSUME UNCHANGED <<lost, before>>, sess \in Session,
           CyclePrelude \/ EmitAudit \/ EnterLoop
    PROVE  Kept!Entering
  BY Unseen, HandleParts, KeptValid
     DEF CyclePrelude, EmitAudit, EnterLoop, Yield, Silent, Kept!CyclePrelude,
         Kept!EmitAudit, Kept!EnterLoop, Kept!Yield, Kept!Silent,
         Kept!Entering

LEMMA ParkingKept ==
    ASSUME UNCHANGED <<lost, before>>,
           Suspend \/ PauseState
    PROVE  Kept!Parking
  BY Unseen
     DEF Suspend, PauseState, Yield, EndWith, Kept!Suspend, Kept!PauseState,
         Kept!Yield, Kept!EndWith,
         Kept!Parking

LEMMA RoundsKept ==
    ASSUME UNCHANGED <<lost, before>>,
           Round \/ Prepare \/ ReportUsage \/ UtterAsk \/ Acting \/ AnnounceDone \/ DoneEvent
    PROVE  Kept!Thinking
  BY Unseen
     DEF Round, Prepare, ReportUsage, UtterAsk, Acting, AnnounceDone,
         DoneEvent, Yield, Silent, EndWith, GapPoint, NoCall, Suspension,
         EffectiveMaxRounds, DefaultMaxRounds, Kept!Round, Kept!Prepare,
         Kept!ReportUsage, Kept!UtterAsk, Kept!Acting, Kept!AnnounceDone,
         Kept!DoneEvent, Kept!Yield, Kept!Silent, Kept!EndWith, Kept!GapPoint, Kept!NoCall,
         Kept!Suspension, Kept!EffectiveMaxRounds, Kept!DefaultMaxRounds,
         Kept!Thinking

LEMMA DraftsKept ==
    ASSUME UNCHANGED <<lost, before>>,
           Think \/ EmitGate \/ Utter
    PROVE  Kept!Thinking
  BY Unseen
     DEF Think, EmitGate, Utter, Yield, Silent, Say, SandboxAnswers,
         NormalizeRuling, Verdicts, Kept!Think, Kept!EmitGate, Kept!Utter,
         Kept!Yield, Kept!Silent, Kept!Say, Kept!SandboxAnswers,
         Kept!NormalizeRuling, Kept!Verdicts,
         Kept!Thinking

LEMMA ResumingKept ==
    ASSUME UNCHANGED <<lost, before>>, sess \in Session,
           ResolveCallAsk \/ Approved \/ ResolveUtteranceAsk \/ SayResolved \/ Rest
    PROVE  Kept!Resuming
  BY Unseen, HandleParts, KeptValid
     DEF ResolveCallAsk, Approved, ResolveUtteranceAsk, SayResolved, Rest,
         Yield, Silent, Say, Responses, ResolveAsk, Kept!ResolveCallAsk,
         Kept!Approved, Kept!ResolveUtteranceAsk, Kept!SayResolved, Kept!Rest,
         Kept!Yield, Kept!Silent, Kept!Say, Kept!Responses, Kept!ResolveAsk,
         Kept!Resuming

LEMMA SerialKept ==
    ASSUME UNCHANGED <<lost, before>>,
           Run \/ SerialCall \/ SerialOver \/ SerialGap \/ SerialAsked
    PROVE  Kept!Serial
<1>1. CASE Run
  BY <1>1, Unseen, KeptCardinality
     DEF Run, NoCall, Silent, Kept!Run, Kept!NoCall, Kept!Silent, Kept!Serial
<1>2. CASE SerialCall
  BY <1>2, Unseen DEF SerialCall, Silent, Yield, TakeNext, BatchOver, GapPoint, NoCall, Suspension, Kept!SerialCall, Kept!Silent, Kept!Yield, Kept!TakeNext, Kept!BatchOver, Kept!GapPoint, Kept!NoCall, Kept!Suspension, Kept!Serial
<1>3. CASE SerialOver
  BY <1>3, Unseen DEF SerialOver, Silent, Yield, TakeNext, BatchOver, GapPoint, NoCall, Suspension, Kept!SerialOver, Kept!Silent, Kept!Yield, Kept!TakeNext, Kept!BatchOver, Kept!GapPoint, Kept!NoCall, Kept!Suspension, Kept!Serial
<1>4. CASE SerialGap
  BY <1>4, Unseen DEF SerialGap, Silent, Yield, TakeNext, BatchOver, GapPoint, NoCall, Suspension, Kept!SerialGap, Kept!Silent, Kept!Yield, Kept!TakeNext, Kept!BatchOver, Kept!GapPoint, Kept!NoCall, Kept!Suspension, Kept!Serial
<1>5. CASE SerialAsked
  BY <1>5, Unseen DEF SerialAsked, Silent, Yield, TakeNext, BatchOver, GapPoint, NoCall, Suspension, Kept!SerialAsked, Kept!Silent, Kept!Yield, Kept!TakeNext, Kept!BatchOver, Kept!GapPoint, Kept!NoCall, Kept!Suspension, Kept!Serial
<1>6. QED
  BY <1>1, <1>2, <1>3, <1>4, <1>5

LEMMA CallsKept ==
    ASSUME UNCHANGED <<lost, before>>,
           SerialGate \/ Feedback
    PROVE  Kept!Serial
  BY Unseen
     DEF SerialGate, Feedback, Yield, Gate, SandboxAnswers, NormalizeRuling,
         Verdicts, RecordResult, AfterCall, Bump, Kept!SerialGate,
         Kept!Feedback, Kept!Yield, Kept!Gate, Kept!SandboxAnswers,
         Kept!NormalizeRuling, Kept!Verdicts, Kept!RecordResult,
         Kept!AfterCall, Kept!Bump,
         Kept!Serial

LEMMA GatingKept ==
    ASSUME UNCHANGED <<lost, before>>,
           Announce \/ BatchGap \/ GatePhase \/ GatePhaseOver \/ BatchAsked \/ BatchAllowed
    PROVE  Kept!Parallel
  BY Unseen
     DEF Announce, BatchGap, GatePhase, GatePhaseOver, BatchAsked,
         BatchAllowed, Yield, Silent, TakeNext, Gate, SandboxAnswers,
         NormalizeRuling, Verdicts, GapPoint, NoCall, Suspension, AskTail,
         Kept!Announce, Kept!BatchGap, Kept!GatePhase, Kept!GatePhaseOver,
         Kept!BatchAsked, Kept!BatchAllowed, Kept!Yield, Kept!Silent,
         Kept!TakeNext, Kept!Gate, Kept!SandboxAnswers, Kept!NormalizeRuling,
         Kept!Verdicts, Kept!GapPoint, Kept!NoCall, Kept!Suspension, Kept!AskTail,
         Kept!Parallel

LEMMA FeedingKept ==
    ASSUME UNCHANGED <<lost, before>>,
           ExecOver \/ FeedbackPhase \/ FeedbackPhaseOver
    PROVE  Kept!Parallel
  BY Unseen
     DEF ExecOver, FeedbackPhase, FeedbackPhaseOver, Yield, Silent, TakeNext,
         RecordResult, Bump, BatchOver, Suspension, NoCall, Kept!ExecOver,
         Kept!FeedbackPhase, Kept!FeedbackPhaseOver, Kept!Yield, Kept!Silent,
         Kept!TakeNext, Kept!RecordResult, Kept!Bump, Kept!BatchOver,
         Kept!Suspension, Kept!NoCall,
         Kept!Parallel

LEMMA HostKept ==
    ASSUME UNCHANGED <<lost, before>>,
           Pause \/ Unpause \/ Cancel
    PROVE  Kept!HostStep
  BY Unseen
     DEF Pause, Unpause, Cancel, Kept!Pause, Kept!Unpause, Kept!Cancel,
         Kept!HostStep


LEMMA Nobody == lost = {} => \A f \in [Calls -> Nat] : Marked(f) = f
  BY DEF Marked, Mark

LEMMA MarkedBump ==
    ASSUME NEW f \in [Calls -> Nat], NEW c \in Calls
    PROVE  Marked(Bump(f, c)) = Bump(Marked(f), c)
<1> DEFINE l == Marked(Bump(f, c))
           r == Bump(Marked(f), c)
<1>1. Bump(f, c) \in [Calls -> Nat]
  BY Counting
<1>2. \A d \in Calls : Bump(f, c)[d] = IF d = c THEN f[d] + 1 ELSE f[d]
  BY Bumped
<1>3. Marked(f) \in [Calls -> Nat]
  BY MarkedTypes
<1>4. l \in [Calls -> Nat] /\ r \in [Calls -> Nat]
  BY <1>1, <1>3, MarkedTypes, Counting
<1>5. ASSUME NEW d \in Calls PROVE l[d] = r[d]
  <2>1. l[d] = Bump(f, c)[d] + Mark(d)
    BY DEF Marked
  <2>2. r[d] = IF d = c THEN Marked(f)[d] + 1 ELSE Marked(f)[d]
    BY <1>3, Bumped
  <2>3. Marked(f)[d] = f[d] + Mark(d)
    BY DEF Marked
  <2>4. Mark(d) \in Nat /\ f[d] \in Nat
    BY DEF Mark
  <2>5. QED
    BY <1>2, <2>1, <2>2, <2>3, <2>4
<1>6. QED
  BY <1>4, <1>5

LEMMA RefusalKept ==
    ASSUME OwnTypes, NEW c \in Calls, refusals' = Bump(refusals, c), UNCHANGED <<lost, sess>>
    PROVE  MarkedRefusals' = Bump(MarkedRefusals, c)
<1>1. Marked(refusals)' = Marked(Bump(refusals, c))
  BY DEF Marked, Mark
<1>2. QED
  BY <1>1, MarkedBump DEF MarkedRefusals, OwnTypes

LEMMA ExecutionKept ==
    ASSUME OwnTypes, Kept!TypeOK, NEW c \in Calls, acted' = Bump(acted, c), before' = before
    PROVE  ActedSince' = Bump(ActedSince, c)
<1>1. ActedSince \in [Calls -> Nat]
  BY DEF Kept!TypeOK, Kept!HistoryOK, Calls, Kept!Calls
<1>2. \A d \in Calls : acted'[d] = IF d = c THEN acted[d] + 1 ELSE acted[d]
  BY Bumped DEF OwnTypes
<1>3. ActedSince' = [d \in Calls |-> acted'[d] - before[d]]
  BY DEF ActedSince
<1>4. \A d \in Calls : Bump(ActedSince, c)[d] = IF d = c THEN ActedSince[d] + 1 ELSE ActedSince[d]
  BY <1>1, Bumped
<1>5. \A d \in Calls : ActedSince[d] = acted[d] - before[d]
  BY DEF ActedSince
<1>6. \A d \in Calls : acted[d] \in Nat /\ before[d] \in Nat
  BY DEF OwnTypes
<1>7. \A d \in Calls : ActedSince'[d] = Bump(ActedSince, c)[d]
  BY <1>2, <1>3, <1>4, <1>5, <1>6
<1>8. Bump(ActedSince, c) \in [Calls -> Nat] /\ ActedSince' = [d \in Calls |-> ActedSince'[d]]
  BY <1>1, <1>3, Counting
<1>9. QED
  BY <1>7, <1>8

LEMMA SnapshotKept ==
    ASSUME OwnTypes, Lineage, Live
    PROVE  /\ Valid(Snapshot(susp)) /\ MarkedHandle(Snapshot(susp)) = Kept!Snapshot(susp)
<1>1. MarkedRefusals = Marked(refusals)
  BY Nobody DEF MarkedRefusals, Lineage, OwnTypes
<1>2. round >= 1
  BY DEF Lineage
<1>3. QED
  BY <1>1, <1>2 DEF Snapshot, Kept!Snapshot, MarkedHandle, Valid


LEMMA HandOverKept ==
    ASSUME UNCHANGED <<lost, before>>, OwnTypes, Lineage, WaitInput \/ PausedEvent
    PROVE  Kept!Parking
<1>1. Live
  BY DEF WaitInput, PausedEvent, Live
<1>2. held' = Snapshot(susp)
  BY DEF WaitInput, PausedEvent
<1>3. MarkedHandle(held)' = Kept!Snapshot(susp)
  BY <1>1, <1>2, SnapshotKept DEF MarkedHandle, Marked, Mark
<1>4. QED
  BY <1>3, Unseen
     DEF WaitInput, PausedEvent, Yield, EndWith, Kept!WaitInput,
         Kept!PausedEvent, Kept!Yield, Kept!EndWith, Kept!Parking

LEMMA KeptEmpty == Kept!NoneOf = NoneOf /\ Kept!ZeroSession = ZeroSession /\ Kept!Calls = Calls
  BY DEF NoneOf, Kept!NoneOf, ZeroSession, Kept!ZeroSession, Calls, Kept!Calls, NoCall, Kept!NoCall

LEMMA CleanupKept ==
    ASSUME UNCHANGED <<lost, before>>, CycleGuarantees
    PROVE  Kept!Settling
<1>1. MarkedHandle(sess)' = ZeroSession /\ MarkedRefusals' = NoneOf
  BY DEF CycleGuarantees, MarkedHandle, MarkedRefusals, Valid, ZeroSession
<1>2. ActedSince' = ActedSince /\ MarkedHandle(held)' = MarkedHandle(held)
  BY Unseen DEF CycleGuarantees
<1>3. QED
  BY <1>1, <1>2, KeptEmpty
     DEF CycleGuarantees, EndWith, Silent, DropPass, Suspension, NoCall,
         Kept!CycleGuarantees, Kept!EndWith, Kept!Silent, Kept!DropPass,
         Kept!Suspension, Kept!NoCall, Kept!Settling

LEMMA CurIsCall ==
    ASSUME Kept!TypeOK, Kept!CallLedger,
           pc \in {"gate", "asked", "refused", "declined", "approved", "admit",
                   "feedback", "batchRefused", "batchAllowed"}
    PROVE  cur \in Calls
  BY DEF Kept!TypeOK, Kept!BatchOK, Kept!CallLedger, Kept!Passes, NoCall,
         Kept!NoCall, Calls, Kept!Calls

LEMMA RefusedKept ==
    ASSUME UNCHANGED <<lost, before>>, OwnTypes, Kept!TypeOK, Kept!CallLedger,
           SerialRefused \/ BatchRefused
    PROVE  Kept!Serial \/ Kept!Parallel
<1>1. cur \in Calls
  BY CurIsCall DEF SerialRefused, BatchRefused
<1>2. refusals' = Bump(refusals, cur) /\ UNCHANGED <<lost, sess>>
  BY DEF SerialRefused, BatchRefused, Refuse
<1>3. MarkedRefusals' = Kept!Bump(MarkedRefusals, cur)
  BY <1>1, <1>2, RefusalKept DEF Bump, Kept!Bump
<1>4. QED
  BY <1>3, Unseen
     DEF SerialRefused, BatchRefused, Refuse, AfterCall, Yield,
         Kept!SerialRefused, Kept!BatchRefused, Kept!Refuse, Kept!AfterCall,
         Kept!Yield, Kept!Serial, Kept!Parallel

LEMMA AdmittedKept ==
    ASSUME UNCHANGED <<lost, before>>, OwnTypes, Kept!TypeOK, Kept!CallLedger, Admitted
    PROVE  Kept!Admitted
<1>1. cur \in Calls
  BY CurIsCall DEF Admitted
<1>2. ActedSince' = Kept!Bump(ActedSince, cur)
  BY <1>1, ExecutionKept DEF Admitted, Executed, Bump, Kept!Bump
<1>3. QED
  BY <1>2, Unseen
     DEF Admitted, Executed, Suspension, Silent, Kept!Admitted, Kept!Executed,
         Kept!Suspension, Kept!Silent

LEMMA ExecStartKept ==
    ASSUME UNCHANGED <<lost, before>>, OwnTypes, Kept!TypeOK, NEW c \in Calls, ExecStart(c)
    PROVE  Kept!ExecStart(c)
<1>1. ActedSince' = Kept!Bump(ActedSince, c)
  BY ExecutionKept DEF ExecStart, Executed, Bump, Kept!Bump
<1>2. QED
  BY <1>1, Unseen, KeptCardinality
     DEF ExecStart, Executed, ExecWindow, Kept!ExecStart, Kept!Executed, Kept!ExecWindow

LEMMA ExecutedKept ==
    ASSUME UNCHANGED <<lost, before>>, OwnTypes, Kept!TypeOK, Kept!CallLedger,
           Admitted \/ \E c \in Calls : ExecStart(c) \/ ExecReturn(c)
    PROVE  Kept!Serial \/ Kept!Parallel
<1>1. CASE Admitted
  BY <1>1, AdmittedKept DEF Kept!Serial
<1>2. ASSUME NEW c \in Calls, ExecStart(c) PROVE Kept!Parallel
  BY <1>2, ExecStartKept, KeptEmpty DEF Kept!Parallel
<1>3. ASSUME NEW c \in Calls, ExecReturn(c) PROVE Kept!Parallel
  <2>1. Kept!ExecReturn(c)
    BY <1>3, Unseen DEF ExecReturn, Kept!ExecReturn
  <2>2. QED
    BY <2>1, KeptEmpty DEF Kept!Parallel
<1>4. QED
  BY <1>1, <1>2, <1>3

LEMMA CycleKept ==
    ASSUME Cycle, lost' = {}, before' = NoneOf
    PROVE  Kept!Cycle
<1>1. /\ MarkedHandle(sess)' = ZeroSession /\ MarkedRefusals' = NoneOf
      /\ MarkedHandle(held)' = ZeroSession
  BY DEF Cycle, MarkedHandle, MarkedRefusals, Valid, ZeroSession
<1>2. ActedSince' = NoneOf
  BY DEF Cycle, ActedSince, NoneOf
<1>3. QED
  BY <1>1, <1>2, KeptEmpty
     DEF Cycle, FreshRun, Drafts, Kept!Cycle, Kept!FreshRun, Kept!Drafts

LEMMA ResumeKept ==
    ASSUME UNCHANGED <<lost, before>>, OwnTypes, Resume
    PROVE  Kept!Resume
<1>1. MarkedHandle(held)' = ZeroSession
  BY DEF Resume, MarkedHandle, Valid, ZeroSession
<1>2. sess' = held /\ refusals' = held.refusals /\ Valid(held) /\ lost' = lost
  BY DEF Resume
<1>3. MarkedHandle(sess)' = MarkedHandle(held)
  BY <1>2 DEF MarkedHandle, Marked, Mark
<1>4. MarkedRefusals' = Marked(held.refusals)
  BY <1>2 DEF MarkedRefusals, Marked, Mark, Valid
<1>5. QED
  BY <1>1, <1>2, <1>3, <1>4, KeptEmpty, Unseen, HandleParts, KeptValid
     DEF Resume, FreshRun, ClearPauseRequest, Bump, OwnTypes, HandlesOK,
         Kept!Resume, Kept!FreshRun, Kept!ClearPauseRequest, Kept!Bump

LEMMA RefusedResumeKept ==
    ASSUME UNCHANGED <<lost, before>>, ResumeRefused
    PROVE  Kept!ResumeRefused
<1>1. MarkedHandle(sess)' = ZeroSession /\ MarkedRefusals' = NoneOf
  BY DEF ResumeRefused, MarkedHandle, MarkedRefusals, Valid, ZeroSession
<1>2. QED
  BY <1>1, KeptEmpty, Unseen
     DEF ResumeRefused, FreshRun, Kept!ResumeRefused, Kept!FreshRun

HIDE DEF loopVars, lcVars, trackVars, batchVars, passVars, envVars, hostVars,
         histVars, countVars, auditVars, sayVars, yieldVars, Kept!loopVars,
         Kept!lcVars, Kept!trackVars, Kept!batchVars, Kept!passVars,
         Kept!envVars, Kept!hostVars, Kept!histVars, Kept!countVars,
         Kept!auditVars, Kept!sayVars, Kept!yieldVars


-----------------------------------------------------------------------------
(* So types and the ledger of calls survive every step but a death. *)

LEMMA StepKept == RestartLedger /\ Step => Kept!Next
<1> SUFFICES ASSUME RestartLedger, LoopStep, Journalled PROVE Kept!Next
  BY DEF Step
<1>1. UNCHANGED <<lost, before>> /\ sess \in Session
  BY DEF Journalled, RestartLedger, OwnTypes, HandlesOK
<1>2. CASE Settling
  BY <1>1, <1>2, SettlingKept, CleanupKept DEF Settling, Kept!Next, Kept!LoopStep
<1>3. CASE Entering
  BY <1>1, <1>3, EnteringKept DEF Entering, Kept!Next, Kept!LoopStep
<1>4. CASE Parking
  BY <1>1, <1>4, ParkingKept, HandOverKept DEF Parking, RestartLedger, Kept!Next, Kept!LoopStep
<1>5. CASE Thinking
  BY <1>1, <1>5, RoundsKept, DraftsKept DEF Thinking, Kept!Next, Kept!LoopStep
<1>6. CASE Resuming
  BY <1>1, <1>6, ResumingKept DEF Resuming, Kept!Next, Kept!LoopStep
<1>7. CASE Serial
  BY <1>1, <1>7, SerialKept, CallsKept, RefusedKept, ExecutedKept
     DEF Serial, RestartLedger, Kept!Next, Kept!LoopStep
<1>8. CASE Parallel
  BY <1>1, <1>8, GatingKept, FeedingKept, RefusedKept, ExecutedKept
     DEF Parallel, RestartLedger, Kept!Next, Kept!LoopStep
<1>9. QED
  BY <1>2, <1>3, <1>4, <1>5, <1>6, <1>7, <1>8 DEF LoopStep

LEMMA HostStepKept == RestartLedger /\ Host => Kept!Next
<1> SUFFICES ASSUME RestartLedger, Host PROVE Kept!Next
  OBVIOUS
<1>1. CASE Cycle /\ lost' = {} /\ before' = NoneOf
  BY <1>1, CycleKept DEF Kept!Next, Kept!HostStep
<1>2. CASE (Resume \/ ResumeRefused \/ Pause \/ Unpause \/ Cancel) /\ UNCHANGED journalVars
  <2>1. UNCHANGED <<lost, before>> /\ OwnTypes
    BY <1>2 DEF journalVars, RestartLedger
  <2>2. QED
    BY <1>2, <2>1, ResumeKept, RefusedResumeKept, HostKept DEF Kept!Next, Kept!HostStep
<1>3. QED
  BY <1>1, <1>2 DEF Host

LEMMA PlainTypes == Kept!TypeOK /\ OwnTypes => TypeOK
<1> SUFFICES ASSUME Kept!TypeOK, OwnTypes PROVE TypeOK
  OBVIOUS
<1> USE DEF Kept!TypeOK, Calls, Kept!Calls, NoCall, Kept!NoCall, WaitKinds, Kept!WaitKinds
<1>1. ControlOK /\ HostOK
  BY DEF Kept!ControlOK, Kept!HostOK, ControlOK, HostOK, PCs, Kept!PCs, States,
         Kept!States, Outcomes, Kept!Outcomes, Events, Kept!Events
<1>2. TracksOK
  BY DEF Kept!TracksOK, TracksOK, OwnTypes
<1>3. BatchOK
  BY DEF Kept!BatchOK, BatchOK, Suspensions, Kept!Suspensions
<1>4. TextsOK
  BY DEF Kept!TextsOK, TextsOK, Utterances, Kept!Utterances
<1>5. HistoryOK
  BY DEF Kept!HistoryOK, HistoryOK, OwnTypes, Verdicts, Kept!Verdicts, Drafts, Kept!Drafts
<1>6. QED
  BY <1>1, <1>2, <1>3, <1>4, <1>5 DEF TypeOK, OwnTypes

LEMMA MirroredNext ==
    RestartLedger /\ (Step \/ Host) => Next /\ Kept!TypeOK' /\ Kept!CallLedger'
<1> SUFFICES ASSUME RestartLedger, Step \/ Host PROVE Next /\ Kept!TypeOK' /\ Kept!CallLedger'
  OBVIOUS
<1>1. Kept!Next
  BY StepKept, HostStepKept
<1>2. Kept!TypeOK /\ Kept!CallLedger /\ Kept!Passes
  BY DEF RestartLedger, Kept!CallLedger
<1>3. Kept!TypeOK'
  BY <1>1, <1>2, Kept!TypeStep, BoundsAssumption, ConfigsAssumption
<1>4. Kept!CallLedger'
  BY <1>1, <1>2, Kept!LedgerStep, BoundsAssumption, ConfigsAssumption
<1>5. Next
  BY DEF Step, Host, Next, HostStep
<1>6. QED
  BY <1>3, <1>4, <1>5

LEMMA OwnTypesStep == RestartLedger /\ (Step \/ Host) => OwnTypes'
<1> SUFFICES ASSUME RestartLedger, Step \/ Host PROVE OwnTypes'
  OBVIOUS
<1>1. TypeOK /\ Next
  BY PlainTypes, MirroredNext DEF RestartLedger
<1>2. TracksOK' /\ HandlesOK' /\ HistoryOK'
  BY <1>1, TrackTypes, HandleTypes, HistoryTypes
<1>3. \/ UNCHANGED <<before, reopened, lost>>
      \/ before' = NoneOf /\ reopened' = NoneOf /\ lost' = {}
  BY DEF Step, Host, Journalled, journalVars
<1>4. QED
  BY <1>2, <1>3, Nothing DEF OwnTypes, TracksOK, HistoryOK, RestartLedger


-----------------------------------------------------------------------------
(* The chain's lineage and the handle under way. *)

(* A run keeps its handle until it has settled, and its round only grows. *)
LEMMA LoopFrame ==
    ASSUME LoopStep
    PROVE  /\ Live' => Live /\ sess' = sess /\ (round' = round \/ round' = round + 1)
           /\ sess' = sess \/ (sess' = ZeroSession /\ ~Live')
           /\ held' = held \/ (held' = Snapshot(susp) /\ Live)
<1> USE DEF Live, loopVars, batchVars, envVars, Yield, Silent
<1>1. CASE Settling
  BY <1>1 DEF Settling, OrganFails, EmitError, ErrorEvent, CycleGuarantees
<1>2. CASE Entering
  BY <1>2 DEF Entering, CyclePrelude, EmitAudit, EnterLoop
<1>3. CASE Parking
  BY <1>3 DEF Parking, Suspend, WaitInput, PauseState, PausedEvent
<1>4. CASE Thinking
  BY <1>4 DEF Thinking, Round, GapPoint, Prepare, Think, ReportUsage, EmitGate,
              UtterAsk, Utter, Say, Acting, AnnounceDone, DoneEvent
<1>5. CASE Resuming
  BY <1>5 DEF Resuming, ResolveCallAsk, Approved, ResolveUtteranceAsk, SayResolved, Say, Rest
<1>6. CASE Serial
  BY <1>6 DEF Serial, Run, SerialCall, SerialOver, BatchOver, SerialGap, GapPoint,
              SerialGate, Gate, SerialAsked, SerialRefused, Refuse, Admitted, Feedback,
              RecordResult
<1>7. CASE Parallel
  BY <1>7 DEF Parallel, Announce, BatchGap, GapPoint, GatePhase, Gate, GatePhaseOver,
              BatchAsked, BatchRefused, Refuse, BatchAllowed, ExecStart, ExecReturn,
              ExecOver, FeedbackPhase, RecordResult, FeedbackPhaseOver, BatchOver
<1>8. QED
  BY <1>1, <1>2, <1>3, <1>4, <1>5, <1>6, <1>7 DEF LoopStep

LEMMA LineageStep == RestartLedger /\ (Step \/ Host) => Lineage'
<1> SUFFICES ASSUME RestartLedger, Step \/ Host PROVE Lineage'
  OBVIOUS
<1> USE DEF Lineage
<1>1. round \in Nat /\ Lineage /\ OwnTypes
  BY DEF RestartLedger, Kept!TypeOK, Kept!BatchOK
<1>2. CASE Step
  <2>1. UNCHANGED <<lost, before, reopened>>
    BY <1>2 DEF Step, Journalled
  <2>2. Valid(Snapshot(susp)) \/ ~Live
    BY <1>1, SnapshotKept
  <2>3. QED
    BY <1>1, <1>2, <2>1, <2>2, LoopFrame DEF Step
<1>3. CASE Cycle /\ lost' = {} /\ reopened' = NoneOf /\ before' = NoneOf
  BY <1>1, <1>3 DEF Cycle, Valid, ZeroSession, NoneOf
<1>4. CASE Resume /\ UNCHANGED journalVars
  BY <1>1, <1>4 DEF Resume, Valid, ZeroSession, journalVars
<1>5. CASE ResumeRefused /\ UNCHANGED journalVars
  BY <1>1, <1>5 DEF ResumeRefused, Valid, ZeroSession, Live, journalVars
<1>6. CASE (Pause \/ Unpause \/ Cancel) /\ UNCHANGED journalVars
  BY <1>1, <1>6 DEF Pause, Unpause, Cancel, Live, journalVars, loopVars, batchVars, yieldVars
<1>7. QED
  BY <1>2, <1>3, <1>4, <1>5, <1>6 DEF Host


(* Only an admitted call executes. *)
LEMMA OnlyTheseExecute ==
    ASSUME LoopStep, acted' # acted
    PROVE  Admitted \/ \E c \in Calls : ExecStart(c)
<1> USE DEF histVars
<1>1. CASE Settling \/ Entering \/ Parking
  BY <1>1 DEF Settling, OrganFails, EmitError, ErrorEvent, CycleGuarantees, Entering,
              CyclePrelude, EmitAudit, EnterLoop, Parking, Suspend, WaitInput,
              PauseState, PausedEvent
<1>2. CASE Thinking
  BY <1>2 DEF Thinking, Round, Prepare, Think, ReportUsage, EmitGate, UtterAsk,
              Utter, Acting, AnnounceDone, DoneEvent
<1>3. CASE Resuming
  BY <1>3 DEF Resuming, ResolveCallAsk, Approved, ResolveUtteranceAsk, SayResolved, Rest
<1>4. CASE Serial
  BY <1>4 DEF Serial, Run, SerialCall, SerialOver, SerialGap, SerialGate, SerialAsked,
              SerialRefused, Feedback, batchVars
<1>5. CASE Parallel
  BY <1>5 DEF Parallel, Announce, BatchGap, GatePhase, GatePhaseOver, BatchAsked,
              BatchRefused, BatchAllowed, ExecReturn, ExecOver, FeedbackPhase,
              FeedbackPhaseOver
<1>6. QED
  BY <1>1, <1>2, <1>3, <1>4, <1>5 DEF LoopStep

(* Executions and issued calls of a step, as a run without restarts has them. *)
LEMMA SinceFrame ==
    ASSUME RestartLedger, Step
    PROVE  /\ issued' \in Nat /\ issued \in Nat /\ issued <= issued'
           /\ \A c \in Calls : ActedSince[c] = 1 => ActedSince'[c] = 1
<1>1. LoopStep /\ UNCHANGED <<lost, before>>
  BY DEF Step, Journalled
<1>2. OwnTypes /\ Kept!TypeOK /\ Kept!CallLedger /\ issued \in Nat
  BY DEF RestartLedger, Kept!TypeOK, Kept!HistoryOK
<1>3. ActedSince \in [Calls -> Nat]
  BY <1>2 DEF Kept!TypeOK, Kept!HistoryOK, Calls, Kept!Calls
<1>4. acted' # acted => Admitted \/ \E c \in Calls : ExecStart(c)
  BY <1>1, OnlyTheseExecute
<1>5. \A c \in Calls : ActedSince[c] = 1 => ActedSince'[c] = 1
  <2>1. CASE acted' = acted
    BY <1>1, <2>1, Unseen
  <2>2. CASE Admitted
    <3>1. Kept!Admitted /\ cur \in Calls
      BY <1>1, <1>2, <2>2, AdmittedKept, CurIsCall DEF Admitted
    <3>2. ActedSince[cur] = 0
      BY <1>2, <3>1, Kept!CurExecuted, BoundsAssumption, ConfigsAssumption
    <3>3. ActedSince' = Bump(ActedSince, cur)
      BY <1>1, <1>2, <2>2, <3>1, ExecutionKept DEF Admitted, Executed
    <3>4. QED
      BY <1>3, <3>1, <3>2, <3>3, Bumped
  <2>3. ASSUME NEW d \in Calls, ExecStart(d)
        PROVE  \A c \in Calls : ActedSince[c] = 1 => ActedSince'[c] = 1
    <3>1. Kept!ExecStart(d)
      BY <1>1, <1>2, <2>3, ExecStartKept
    <3>2. ActedSince[d] = 0
      BY <1>2, <3>1, Kept!BatchExecuted, KeptEmpty, BoundsAssumption, ConfigsAssumption
    <3>3. ActedSince' = Bump(ActedSince, d)
      BY <1>1, <1>2, <2>3, ExecutionKept DEF ExecStart, Executed
    <3>4. QED
      BY <1>3, <3>2, <3>3, Bumped
  <2>4. QED
    BY <1>4, <2>1, <2>2, <2>3
<1>6. issued' = issued \/ \E n \in Nat : issued' = issued + n
  <2>1. CASE Think
    BY <2>1, BoundsAssumption DEF Think
  <2>2. CASE ~Think
    <3> USE <1>1, <2>2 DEF histVars, countVars
    <3>1. CASE Settling \/ Entering \/ Parking
      BY <3>1 DEF Settling, OrganFails, EmitError, ErrorEvent, CycleGuarantees, Entering,
                  CyclePrelude, EmitAudit, EnterLoop, Parking, Suspend, WaitInput,
                  PauseState, PausedEvent
    <3>2. CASE Thinking
      BY <3>2 DEF Thinking, Round, Prepare, ReportUsage, EmitGate, UtterAsk,
                  Utter, Acting, AnnounceDone, DoneEvent
    <3>3. CASE Resuming
      BY <3>3 DEF Resuming, ResolveCallAsk, Approved, ResolveUtteranceAsk, SayResolved, Rest
    <3>4. CASE Serial
      BY <3>4 DEF Serial, Run, SerialCall, SerialOver, SerialGap, SerialGate, SerialAsked,
                  SerialRefused, Admitted, Feedback, batchVars
    <3>5. CASE Parallel
      BY <3>5 DEF Parallel, Announce, BatchGap, GatePhase, GatePhaseOver, BatchAsked,
                  BatchRefused, BatchAllowed, ExecStart, ExecReturn, ExecOver,
                  FeedbackPhase, FeedbackPhaseOver
    <3>6. QED
      BY <3>1, <3>2, <3>3, <3>4, <3>5 DEF LoopStep
  <2>3. QED
    BY <2>1, <2>2
<1>7. QED
  BY <1>2, <1>5, <1>6

(* A valid handle of the chain: what it says of every call. *)
Account(s) ==
    \A c \in Calls : /\ AnswersIn(s, c) <= 1 /\ (c > issued => AnswersIn(s, c) = 0)
                     /\ c \in InHand(s) => c <= issued /\ AnswersIn(s, c) = 0
                     /\ Awaited(s, c) => ActedSince[c] = 1

LEMMA HeldAccount ==
    ASSUME RestartLedger, Valid(held)
    PROVE  Account(held)
<1>1. held \in Session /\ Kept!Handles /\ Kept!Shapes
  BY DEF RestartLedger, OwnTypes, HandlesOK, Kept!CallLedger
<1>2. ASSUME NEW c \in Calls
      PROVE  /\ AnswersIn(held, c) <= 1 /\ (c > issued => AnswersIn(held, c) = 0)
             /\ c \in InHand(held) => c <= issued /\ AnswersIn(held, c) = 0
             /\ Awaited(held, c) => ActedSince[c] = 1
  <2>1. /\ MarkedHandle(held).toolResults[c] = held.toolResults[c]
        /\ MarkedHandle(held).refusals[c] = held.refusals[c] + Mark(c)
    BY <1>1, HandleParts DEF Marked
  <2>2. held.toolResults[c] \in Nat /\ held.refusals[c] \in Nat /\ Mark(c) \in Nat
    BY <1>1 DEF Session, Mark
  <2>3. MarkedHandle(held).toolResults[c] + MarkedHandle(held).refusals[c] = AnswersIn(held, c)
    BY <2>1, <2>2 DEF AnswersIn
  <2>4. Awaited(held, c) => c \in InHand(held)
    BY DEF Awaited, InHand, NonZero, Calls, NoCall
  <2>5. QED
    BY <1>1, <2>3, <2>4, HandleParts, KeptValid, KeptEmpty
       DEF Kept!Handles, InHand, NonZero, Kept!NonZero, NoCall, Kept!NoCall, Awaited
<1>3. QED
  BY <1>2 DEF Account

LEMMA UnderWayStep == RestartLedger /\ (Step \/ Host) => UnderWay'
<1> SUFFICES ASSUME RestartLedger, Step \/ Host, Valid(sess)' PROVE UnderWay'
  BY DEF UnderWay
<1>1. OwnTypes /\ Kept!CallLedger /\ UnderWay
  BY DEF RestartLedger
<1>2. CASE Step
  <2>1. sess' = sess /\ UNCHANGED lost
    BY <1>2, LoopFrame DEF Step, Journalled, Valid, ZeroSession
  <2>2. \A c \in Calls : AnswersIn(sess, c)' = AnswersIn(sess, c)
    BY <2>1 DEF AnswersIn, Mark
  <2>3. Valid(sess)
    BY <2>1 DEF Valid
  <2>4. /\ issued' \in Nat /\ issued \in Nat /\ issued <= issued'
        /\ \A c \in Calls : ActedSince[c] = 1 => ActedSince'[c] = 1
    BY <1>2, SinceFrame
  <2>5. ASSUME NEW c \in Calls
        PROVE  /\ AnswersIn(sess, c) <= 1 /\ (c > issued' => AnswersIn(sess, c) = 0)
               /\ c \in InHand(sess) => c <= issued' /\ AnswersIn(sess, c) = 0
               /\ Awaited(sess, c) => ActedSince'[c] = 1
    <3>1. c \in Nat
      BY DEF Calls
    <3>2. /\ AnswersIn(sess, c) <= 1 /\ (c > issued => AnswersIn(sess, c) = 0)
          /\ c \in InHand(sess) => c <= issued /\ AnswersIn(sess, c) = 0
          /\ Awaited(sess, c) => ActedSince[c] = 1
      BY <1>1, <2>3 DEF UnderWay
    <3>3. QED
      BY <2>4, <3>1, <3>2
  <2>6. QED
    BY <2>1, <2>2, <2>5 DEF UnderWay, InHand, Awaited, NonZero
<1>3. CASE Resume /\ UNCHANGED journalVars
  <2>1. /\ Valid(held) /\ sess' = held /\ UNCHANGED <<lost, issued>>
        /\ ActedSince' = ActedSince
    BY <1>3, Unseen DEF Resume, journalVars
  <2>2. Account(held)
    BY <2>1, HeldAccount
  <2>3. \A c \in Calls : AnswersIn(sess, c)' = AnswersIn(held, c)
    BY <2>1 DEF AnswersIn, Mark
  <2>4. QED
    BY <2>1, <2>2, <2>3 DEF Account, UnderWay, InHand, NonZero, Awaited
<1>4. CASE Cycle \/ ResumeRefused
  BY <1>4 DEF Cycle, ResumeRefused, Valid, ZeroSession
<1>5. CASE (Pause \/ Unpause \/ Cancel) /\ UNCHANGED journalVars
  BY <1>1, <1>5, Unseen
     DEF Pause, Unpause, Cancel, journalVars, loopVars, histVars, countVars, UnderWay,
         Valid, InHand, NonZero, Awaited, AnswersIn, Mark
<1>6. QED
  BY <1>2, <1>3, <1>4, <1>5 DEF Host


-----------------------------------------------------------------------------
(* A death of the host: the saved handle is in account with what is left of *)
(* the chain, the calls it does not know counted as settled.                *)

LEMMA SavedAccount ==
    ASSUME RestartLedger, Valid(Saved)
    PROVE  /\ Saved \in Session /\ Account(Saved)
           /\ Saved.pending \notin Saved.remaining
           /\ Saved.pending # NoCall <=> Saved.kind \in {"tool", "callAsk"}
<1>1. OwnTypes /\ UnderWay /\ Kept!Shapes
  BY DEF RestartLedger, Kept!CallLedger
<1>2. sess \in Session /\ held \in Session
  BY <1>1 DEF OwnTypes, HandlesOK
<1>3. CASE Valid(held)
  BY <1>1, <1>2, <1>3, HeldAccount, HandleParts
     DEF Saved, Kept!Shapes, Kept!Shape, NoCall, Kept!NoCall
<1>4. CASE ~Valid(held)
  <2>1. Valid(sess) /\ Saved = sess
    BY <1>4 DEF Saved
  <2>2. Account(sess)
    BY <1>1, <2>1 DEF Account, UnderWay
  <2>3. QED
    BY <1>1, <1>2, <2>1, <2>2, HandleParts
       DEF Kept!Shapes, Kept!Shape, NoCall, Kept!NoCall
<1>5. QED
  BY <1>3, <1>4

LEMMA CrashedCounts ==
    ASSUME RestartLedger, Crash
    PROVE  \A c \in Calls :
              /\ ActedSince[c] \in Nat /\ ActedSince[c] <= 1
              /\ ActedSince'[c] = IF c \in ToExecute(Saved) THEN 0 ELSE ActedSince[c]
              /\ before'[c] = IF c \in ToExecute(Saved) THEN acted[c] ELSE before[c]
              /\ before'[c] \in Nat
<1>1. Kept!TypeOK /\ Kept!Executions /\ OwnTypes
  BY DEF RestartLedger, Kept!CallLedger
<1>2. \A c \in Calls : ActedSince[c] \in Nat /\ ActedSince[c] <= 1
  BY <1>1, KeptEmpty DEF Kept!TypeOK, Kept!HistoryOK, Kept!Executions
<1>3. ASSUME NEW c \in Calls
      PROVE  /\ before'[c] = IF c \in ToExecute(Saved) THEN acted[c] ELSE before[c]
             /\ acted'[c] = acted[c]
  BY <1>3 DEF Crash
<1>4. \A c \in Calls : acted[c] \in Nat /\ before[c] \in Nat
  BY <1>1 DEF OwnTypes
<1>5. \A c \in Calls : /\ ActedSince[c] = acted[c] - before[c]
                       /\ ActedSince'[c] = acted'[c] - before'[c]
  BY DEF ActedSince
<1>6. QED
  BY <1>2, <1>3, <1>4, <1>5

LEMMA CrashedHandle ==
    ASSUME RestartLedger, Crash, Valid(Saved), NEW c \in Calls
    PROVE  LET answers == Saved.toolResults[c] + Saved.refusals[c] + Mark(c)'
           IN  /\ answers <= 1 /\ (c > issued => answers = 0)
               /\ c \in InHand(Saved) <=> c <= issued /\ answers = 0
               /\ c \in InHand(Saved) =>
                     ActedSince'[c] = IF Awaited(Saved, c) THEN 1 ELSE 0
<1> DEFINE raw == Saved.toolResults[c] + Saved.refusals[c]
<1>1. /\ Saved \in Session /\ Account(Saved)
      /\ Saved.pending \notin Saved.remaining
      /\ Saved.pending # NoCall <=> Saved.kind \in {"tool", "callAsk"}
  BY SavedAccount
<1>2. Saved.toolResults[c] \in Nat /\ Saved.refusals[c] \in Nat /\ raw \in Nat
  BY <1>1 DEF Session
<1>3. /\ AnswersIn(Saved, c) <= 1 /\ (c > issued => AnswersIn(Saved, c) = 0)
      /\ c \in InHand(Saved) => c <= issued /\ AnswersIn(Saved, c) = 0
      /\ Awaited(Saved, c) => ActedSince[c] = 1
  BY <1>1 DEF Account
<1>4. /\ raw <= 1 /\ (c > issued => raw = 0)
      /\ c \in InHand(Saved) => c <= issued /\ raw = 0
  BY <1>2, <1>3 DEF AnswersIn, Mark
<1>5. c \in Issued <=> c <= issued
  BY DEF Issued, Calls, RestartLedger, Kept!TypeOK, Kept!HistoryOK
<1>6. c \in Answered(Saved) <=> raw > 0
  BY DEF Answered
<1>7. c \in ToExecute(Saved) \cup {Saved.pending} <=> c \in InHand(Saved)
  BY DEF ToExecute, InHand, NonZero, Calls, NoCall
<1>8. Mark(c)' = IF c <= issued /\ raw = 0 /\ c \notin InHand(Saved) THEN 1 ELSE 0
  <2>1. c \in lost' <=> c <= issued /\ ~(raw > 0) /\ c \notin InHand(Saved)
    BY <1>5, <1>6, <1>7 DEF Crash
  <2>2. QED
    BY <1>2, <2>1 DEF Mark
<1>9. c \in InHand(Saved) => ActedSince'[c] = IF Awaited(Saved, c) THEN 1 ELSE 0
  <2>1. Awaited(Saved, c) => c \notin ToExecute(Saved)
    BY <1>1 DEF Awaited, ToExecute
  <2>2. c \in InHand(Saved) /\ ~Awaited(Saved, c) => c \in ToExecute(Saved)
    BY <1>1 DEF Awaited, ToExecute, InHand, NonZero
  <2>3. QED
    BY <1>3, <2>1, <2>2, CrashedCounts
<1>10. c \in Nat /\ issued \in Nat
  BY DEF Calls, RestartLedger, Kept!TypeOK, Kept!HistoryOK
<1> HIDE DEF raw
<1>11. /\ raw + Mark(c)' <= 1 /\ (c > issued => raw + Mark(c)' = 0)
       /\ c \in InHand(Saved) <=> c <= issued /\ raw + Mark(c)' = 0
  BY <1>2, <1>4, <1>8, <1>10
<1>12. QED
  BY <1>9, <1>11 DEF raw

LEMMA CrashTypes == RestartLedger /\ Crash => OwnTypes' /\ Kept!TypeOK'
<1> SUFFICES ASSUME RestartLedger, Crash PROVE OwnTypes' /\ Kept!TypeOK'
  OBVIOUS
<1>1. Kept!TypeOK /\ OwnTypes
  BY DEF RestartLedger
<1>2. Saved \in Session
  BY <1>1 DEF Saved, OwnTypes, HandlesOK
<1>3. HandlesOK'
  BY <1>2, Nothing DEF Crash, HandlesOK
<1>4. /\ lost' \subseteq Calls
      /\ reopened' \in [Calls -> Nat] /\ before' \in [Calls -> Nat]
  <2>1. lost' \subseteq Issued
    BY DEF Crash
  <2>2. Issued \subseteq Calls
    BY <1>1, BoundsAssumption DEF Issued, Calls, Kept!TypeOK, Kept!HistoryOK
  <2>3. reopened' = [c \in Calls |-> reopened[c] + IF c \in ToExecute(Saved) THEN 1 ELSE 0]
    BY DEF Crash
  <2>4. before' = [c \in Calls |-> IF c \in ToExecute(Saved) THEN acted[c] ELSE before[c]]
    BY DEF Crash
  <2>5. \A c \in Calls : reopened[c] \in Nat /\ acted[c] \in Nat /\ before[c] \in Nat
    BY <1>1 DEF OwnTypes
  <2>6. QED
    BY <2>1, <2>2, <2>3, <2>4, <2>5
<1>5. OwnTypes'
  BY <1>1, <1>3, <1>4, Nothing DEF OwnTypes, Crash
<1>6. ActedSince' \in [Calls -> Nat]
  <2>1. \A c \in Calls : ActedSince'[c] \in Nat
    BY CrashedCounts
  <2>2. ActedSince' = [c \in Calls |-> ActedSince'[c]]
    BY DEF ActedSince
  <2>3. QED
    BY <2>1, <2>2
<1>7. MarkedHandle(sess)' \in Session /\ MarkedRefusals' = NoneOf
  BY Nothing DEF Crash, MarkedHandle, MarkedRefusals, Valid, ZeroSession
<1>8. MarkedHandle(held)' \in Session
  <2>1. held' \in Session
    BY <1>3 DEF HandlesOK
  <2>2. Marked(held.refusals)' \in [Calls -> Nat]
    BY <2>1 DEF Marked, Mark, Session
  <2>3. QED
    BY <2>1, <2>2 DEF MarkedHandle, Session
<1>9. Kept!TypeOK'
  <2>1. Kept!ControlOK' /\ Kept!HostOK'
    <3>1. /\ pc' = "idle" /\ stage' = "rounds" /\ cfg' = cfg /\ audits' = 0
          /\ state' = "Idle" /\ outcome' = "none" /\ last' = "none"
          /\ pauseFlag' = FALSE /\ cancelled' = FALSE /\ stopped' = FALSE /\ standing' = FALSE
      BY DEF Crash
    <3>2. cfg \in Configs /\ 0 \in 0 .. MaxAudits
      BY <1>1, BoundsAssumption DEF Kept!TypeOK, Kept!ControlOK
    <3>3. QED
      BY <3>1, <3>2
         DEF Kept!ControlOK, Kept!HostOK, Kept!PCs, Kept!States, Kept!Outcomes, Kept!Events
  <2> USE <1>1 DEF Kept!TypeOK, Crash, Calls, Kept!Calls, NoCall, Kept!NoCall, WaitKinds,
                   Kept!WaitKinds
  <2>2. Kept!TracksOK'
    BY <1>7, Nothing DEF Kept!TracksOK
  <2>3. Kept!BatchOK'
    BY DEF Kept!BatchOK, DropPass, Suspension, Kept!Suspensions
  <2>4. Saved.out \in Seq(Utterances)
    BY <1>2 DEF Session
  <2>5. Kept!TextsOK'
    BY <2>4, EmptyText DEF Kept!TextsOK, Utterances, Kept!Utterances
  <2>6. Kept!HandlesOK'
    BY <1>7, <1>8 DEF Kept!HandlesOK, Session, Kept!Session, Utterances, Kept!Utterances
  <2>7. Kept!HistoryOK'
    BY <1>6 DEF Kept!HistoryOK, countVars, auditVars, Verdicts, Kept!Verdicts, Drafts,
                Kept!Drafts
  <2>8. QED
    BY <2>1, <2>2, <2>3, <2>5, <2>6, <2>7
<1>10. QED
  BY <1>5, <1>9


LEMMA CrashLineage == RestartLedger /\ Crash => Lineage' /\ UnderWay'
<1> SUFFICES ASSUME RestartLedger, Crash PROVE Lineage' /\ UnderWay'
  OBVIOUS
<1>1. Lineage /\ OwnTypes
  BY DEF RestartLedger
<1>2. ~Valid(sess)' /\ sess' = ZeroSession /\ ~Live'
  BY DEF Crash, Valid, ZeroSession, Live
<1>3. ~Valid(held)' => held' = ZeroSession
  BY <1>1 DEF Crash, Saved, Lineage, Valid
<1>4. ASSUME NEW c \in Calls PROVE before'[c] <= reopened'[c]
  <2>1. reopened'[c] = reopened[c] + IF c \in ToExecute(Saved) THEN 1 ELSE 0
    BY DEF Crash
  <2>2. acted[c] \in Nat /\ before[c] \in Nat /\ reopened[c] \in Nat /\ before[c] <= reopened[c]
    BY <1>1 DEF OwnTypes, Lineage
  <2>3. acted[c] - before[c] <= 1
    BY CrashedCounts DEF ActedSince
  <2>4. before'[c] = IF c \in ToExecute(Saved) THEN acted[c] ELSE before[c]
    BY CrashedCounts
  <2>5. QED
    BY <2>1, <2>2, <2>3, <2>4
<1>5. QED
  BY <1>2, <1>3, <1>4 DEF Lineage, UnderWay

LEMMA CrashLedger == RestartLedger /\ Crash => Kept!CallLedger'
<1> SUFFICES ASSUME RestartLedger, Crash PROVE Kept!CallLedger'
  OBVIOUS
<1>1. pc' = "idle" /\ stage' = "rounds" /\ ~Kept!Live'
  BY DEF Crash, Kept!Live
<1>2. OwnTypes' /\ Kept!Executions /\ UNCHANGED <<issued, verdict>>
  BY CrashTypes DEF RestartLedger, Kept!CallLedger, Crash, countVars, auditVars
<1>3. /\ Kept!OwesNothing' /\ Kept!OwesHandle' /\ Kept!OwesRound' /\ Kept!OwesSerial'
      /\ Kept!OwesBatch' /\ Kept!OwesSuspension' /\ Kept!Passes' /\ Kept!Stages'
      /\ Kept!Answers'
  BY <1>1 DEF Kept!OwesNothing, Kept!OwesHandle, Kept!OwesRound, Kept!OwesSerial,
              Kept!OwesBatch, Kept!OwesSuspension, Kept!Passes, Kept!Stages, Kept!Answers
<1>4. Kept!Executions'
  <2>1. ASSUME NEW c \in Calls
        PROVE  /\ ActedSince'[c] <= 1 /\ (c > issued => ActedSince'[c] = 0)
               /\ ActedSince'[c] = 1 => verdict'[c] = "Allow"
    BY <1>2, CrashedCounts, KeptEmpty DEF Kept!Executions
  <2>2. QED
    BY <1>1, <1>2, <2>1, KeptEmpty DEF Kept!Executions
<1>5. held' = Saved
  BY DEF Crash
<1>6. Saved \in Session /\ (~Valid(Saved) => Saved = ZeroSession)
  BY DEF Saved, RestartLedger, OwnTypes, HandlesOK, Lineage
<1> DEFINE marks == [c \in Calls |-> Saved.refusals[c] + Mark(c)']
           later == MarkedHandle(held)'
<1>7. later = IF Valid(Saved) THEN [Saved EXCEPT !.refusals = marks] ELSE Saved
  BY <1>5 DEF MarkedHandle, Marked, Valid
<1>8. /\ later.pending = Saved.pending /\ later.remaining = Saved.remaining
      /\ later.kind = Saved.kind /\ later.toolResults = Saved.toolResults
      /\ Valid(Saved) => later.refusals = marks
      /\ Kept!Valid(later) <=> Valid(Saved)
  BY <1>6, <1>7 DEF Session, Valid, Kept!Valid
<1>9. Kept!Shapes'
  <2>1. MarkedHandle(sess)' = ZeroSession
    BY DEF Crash, MarkedHandle, Valid, ZeroSession
  <2>2. Kept!Shape(ZeroSession) /\ Kept!Shape(susp)'
    BY DEF Kept!Shape, ZeroSession, NoCall, Kept!NoCall, Crash, Suspension
  <2>3. Kept!Shape(Saved)
    BY <1>6, <2>2, SavedAccount DEF Kept!Shape, NoCall, Kept!NoCall
  <2>4. Kept!Shape(later)
    BY <1>8, <2>3 DEF Kept!Shape
  <2>5. QED
    BY <1>1, <2>1, <2>2, <2>4 DEF Kept!Shapes, Kept!Shape
<1>10. Kept!Handles'
  <2> SUFFICES ASSUME Valid(Saved), NEW c \in Calls
               PROVE  LET answers == later.toolResults[c] + later.refusals[c]
                      IN  /\ answers <= 1 /\ (c > issued => answers = 0)
                          /\ c \in Kept!NonZero(later.pending) \cup later.remaining
                                <=> c <= issued /\ answers = 0
                          /\ c \in Kept!NonZero(later.pending) \cup later.remaining =>
                                ActedSince'[c] =
                                   IF later.kind = "tool" /\ c = later.pending THEN 1 ELSE 0
    BY <1>1, <1>2, <1>8, KeptEmpty DEF Kept!Handles
  <2>1. later.toolResults[c] + later.refusals[c]
           = Saved.toolResults[c] + Saved.refusals[c] + Mark(c)'
    BY <1>6, <1>8 DEF Session, Mark
  <2>2. Kept!NonZero(later.pending) \cup later.remaining = InHand(Saved)
    BY <1>8 DEF InHand, NonZero, Kept!NonZero, NoCall, Kept!NoCall
  <2>3. QED
    BY <1>8, <2>1, <2>2, CrashedHandle DEF Awaited
<1>11. QED
  BY <1>3, <1>4, <1>9, <1>10 DEF Kept!CallLedger


-----------------------------------------------------------------------------
LEMMA RestartInit == JInit => RestartLedger
<1> SUFFICES ASSUME JInit PROVE RestartLedger
  OBVIOUS
<1>1. ActedSince = NoneOf /\ MarkedRefusals = NoneOf
  BY DEF JInit, Init, ActedSince, MarkedRefusals, NoneOf, Valid, ZeroSession
<1>2. MarkedHandle(sess) = ZeroSession /\ MarkedHandle(held) = ZeroSession
  BY DEF JInit, Init, MarkedHandle, Valid, ZeroSession
<1>3. Kept!Init
  BY <1>1, <1>2, KeptEmpty
     DEF JInit, Init, Kept!Init, NoCall, Kept!NoCall, Drafts, Kept!Drafts
<1>4. Kept!TypeOK /\ Kept!CallLedger
  BY <1>3, Kept!TypeInit, Kept!LedgerInit, BoundsAssumption, ConfigsAssumption
<1>5. OwnTypes
  BY Nothing DEF JInit, Init, OwnTypes, HandlesOK
<1>6. Lineage
  BY DEF JInit, Init, Lineage, Live, NoneOf
<1>7. UnderWay
  BY DEF JInit, Init, UnderWay, Valid, ZeroSession
<1>8. QED
  BY <1>4, <1>5, <1>6, <1>7 DEF RestartLedger

LEMMA RestartStutter == RestartLedger /\ UNCHANGED jvars => RestartLedger'
<1> SUFFICES ASSUME RestartLedger, UNCHANGED jvars PROVE RestartLedger'
  OBVIOUS
<1>1. UNCHANGED vars /\ UNCHANGED <<lost, before, reopened>>
  BY DEF jvars, journalVars
<1> USE DEF vars, yieldVars, loopVars, lcVars, trackVars, batchVars, passVars,
            envVars, hostVars, histVars, countVars, auditVars, sayVars
<1>2. UNCHANGED Kept!vars
  BY <1>1, Unseen
     DEF Kept!vars, Kept!yieldVars, Kept!loopVars, Kept!lcVars, Kept!trackVars,
         Kept!batchVars, Kept!passVars, Kept!envVars, Kept!hostVars, Kept!histVars,
         Kept!countVars, Kept!auditVars, Kept!sayVars
<1>3. Kept!TypeOK' /\ Kept!CallLedger'
  BY <1>2, Kept!TypeStutter, Kept!LedgerStutter, BoundsAssumption, ConfigsAssumption
     DEF RestartLedger
<1>4. OwnTypes' /\ Lineage'
  BY <1>1 DEF RestartLedger, OwnTypes, HandlesOK, Lineage, Live, Valid
<1>5. UnderWay'
  BY <1>1, Unseen
     DEF RestartLedger, UnderWay, Valid, InHand, NonZero, Awaited, AnswersIn, Mark
<1>6. QED
  BY <1>3, <1>4, <1>5 DEF RestartLedger

(* However often the host dies, a run that goes on from a saved handle is   *)
(* in account with its chain as if nobody had died: the handle is one of    *)
(* this chain, and the ledger of calls holds (Resume, snapshot; port.go     *)
(* 160-164).                                                                *)
THEOREM RestartsAccounted == JSpec => []RestartLedger
<1>1. RestartLedger /\ [JNext]_jvars => RestartLedger'
  <2> SUFFICES ASSUME RestartLedger, [JNext]_jvars PROVE RestartLedger'
    OBVIOUS
  <2>1. CASE Step \/ Host
    BY <2>1, MirroredNext, OwnTypesStep, LineageStep, UnderWayStep DEF RestartLedger
  <2>2. CASE Crash
    BY <2>2, CrashTypes, CrashLineage, CrashLedger DEF RestartLedger
  <2>3. CASE UNCHANGED jvars
    BY <2>3, RestartStutter
  <2>4. QED
    BY <2>1, <2>2, <2>3 DEF JNext
<1>2. QED
  BY <1>1, RestartInit, PTL DEF JSpec

(* A call executes again only when a restart found it open in the saved     *)
(* handle, and the brain sees one answer to every call that is not lost,    *)
(* and none to one that is (Resume, run, runParallel).                      *)
THEOREM RestartsKept == JSpec => []RestartsKeepTheLedger
<1>1. RestartLedger => RestartsKeepTheLedger
  <2> SUFFICES ASSUME RestartLedger PROVE RestartsKeepTheLedger
    OBVIOUS
  <2>1. /\ Kept!TypeOK /\ Kept!CallLedger /\ OwnTypes /\ Lineage /\ UnderWay
        /\ Kept!Executions /\ Kept!OwesNothing /\ Kept!Answers
    BY DEF RestartLedger, Kept!CallLedger
  <2>2. ASSUME NEW c \in Calls
        PROVE  /\ acted[c] <= 1 + reopened[c]
               /\ acted[c] > before[c] => verdict[c] = "Allow"
    <3>1. acted[c] \in Nat /\ before[c] \in Nat /\ reopened[c] \in Nat /\ before[c] <= reopened[c]
      BY <2>1 DEF OwnTypes, Lineage
    <3>2. ActedSince[c] = acted[c] - before[c]
      BY DEF ActedSince
    <3>3. ActedSince[c] <= 1 /\ (ActedSince[c] = 1 => verdict[c] = "Allow")
      BY <2>1, KeptEmpty DEF Kept!Executions
    <3>4. QED
      BY <3>1, <3>2, <3>3
  <2>3. ASSUME pc \in {"think", "done", "doneEvent"}, NEW c \in Issued
        PROVE  Settled(c) = IF c \in lost THEN 0 ELSE 1
    <3>1. c \in Calls /\ c <= issued
      BY <2>1, BoundsAssumption DEF Issued, Calls, Kept!TypeOK, Kept!HistoryOK
    <3>2. Kept!Settled(c) # 0 /\ Kept!Settled(c) <= 1
      BY <2>1, <2>3, <3>1, KeptEmpty
         DEF Kept!OwesNothing, Kept!Owes, Kept!Answers, Kept!Live
    <3>3. Kept!Settled(c) = toolResults[c] + MarkedRefusals[c]
      BY DEF Kept!Settled
    <3>4. toolResults[c] \in Nat /\ refusals[c] \in Nat
      BY <2>1, <3>1, KeptEmpty DEF Kept!TypeOK, Kept!TracksOK, OwnTypes
    <3>5. MarkedRefusals[c] = refusals[c] + Mark(c)
      BY <2>1, <2>3, <3>1, <3>4 DEF MarkedRefusals, Marked, Mark, Lineage, Live
    <3>6. QED
      BY <3>2, <3>3, <3>4, <3>5 DEF Settled, Mark
  <2>4. ASSUME NEW c \in lost
        PROVE  c \notin ToExecute(Saved) \cup Answered(Saved)
    <3>1. c \in Calls /\ Mark(c) = 1
      BY <2>1 DEF OwnTypes, Mark
    <3>2. CASE Valid(Saved)
      <4>1. Saved \in Session /\ AnswersIn(Saved, c) <= 1
            /\ (c \in InHand(Saved) => AnswersIn(Saved, c) = 0)
        BY <3>1, <3>2, SavedAccount DEF Account
      <4>2. Saved.toolResults[c] \in Nat /\ Saved.refusals[c] \in Nat
        BY <3>1, <4>1 DEF Session
      <4>3. Saved.toolResults[c] + Saved.refusals[c] = 0 /\ c \notin InHand(Saved)
        BY <3>1, <4>1, <4>2 DEF AnswersIn
      <4>4. QED
        BY <3>1, <4>2, <4>3 DEF Answered, ToExecute, InHand, NonZero, Calls, NoCall
    <3>3. CASE ~Valid(Saved)
      <4>1. Saved = ZeroSession
        BY <2>1, <3>3 DEF Saved, Lineage
      <4>2. QED
        BY <3>1, <4>1 DEF ZeroSession, NoneOf, Answered, ToExecute
    <3>4. QED
      BY <3>2, <3>3
  <2>5. QED
    BY <2>2, <2>3, <2>4 DEF RestartsKeepTheLedger
<1>2. QED
  BY <1>1, RestartsAccounted, PTL


-----------------------------------------------------------------------------
(* What the journal misses.  Only an execution adds to it; a result taken,  *)
(* or a tool's question saved, takes away from it.                          *)

(* Which step of the loop can happen where something is not yet told. *)
LEMMA StepAt ==
    ASSUME LoopStep
    PROVE  /\ pc = "feedback" => Feedback
           /\ pc = "suspend" => Suspend
           /\ pc = "waitInput" => WaitInput
           /\ pc = "settle" => CycleGuarantees
           /\ pc = "exec" => ExecOver \/ \E c \in Calls : ExecStart(c) \/ ExecReturn(c)
           /\ pc = "feedbackPhase" => FeedbackPhase \/ FeedbackPhaseOver
           /\ pc' = "feedbackPhase" => pc \in {"exec", "feedbackPhase"}
<1> USE DEF Yield, Silent
<1>1. CASE Settling
  BY <1>1 DEF Settling, OrganFails, EmitError, ErrorEvent, CycleGuarantees
<1>2. CASE Entering
  BY <1>2 DEF Entering, CyclePrelude, EmitAudit, EnterLoop
<1>3. CASE Parking
  BY <1>3 DEF Parking, Suspend, WaitInput, PauseState, PausedEvent
<1>4. CASE Thinking
  BY <1>4 DEF Thinking, Round, GapPoint, Prepare, Think, ReportUsage, EmitGate,
              UtterAsk, Utter, Say, Acting, AnnounceDone, DoneEvent
<1>5. CASE Resuming
  BY <1>5 DEF Resuming, ResolveCallAsk, Approved, ResolveUtteranceAsk, SayResolved, Say, Rest
<1>6. CASE Serial
  <2>1. CASE Feedback
    BY <2>1 DEF Feedback, RecordResult, AfterCall
  <2>2. CASE SerialRefused \/ Admitted
    BY <2>2 DEF SerialRefused, Refuse, Admitted, AfterCall
  <2>3. CASE Run \/ SerialCall \/ SerialOver \/ SerialGap \/ SerialGate \/ SerialAsked
    BY <2>3 DEF Run, SerialCall, SerialOver, BatchOver, SerialGap, GapPoint, SerialGate,
                Gate, SerialAsked
  <2>4. QED
    BY <1>6, <2>1, <2>2, <2>3 DEF Serial
<1>7. CASE Parallel
  <2>1. CASE ExecOver \/ FeedbackPhase \/ FeedbackPhaseOver
    BY <2>1 DEF ExecOver, FeedbackPhase, FeedbackPhaseOver
  <2>2. CASE \E c \in Calls : ExecStart(c) \/ ExecReturn(c)
    BY <2>2 DEF ExecStart, ExecReturn, yieldVars
  <2>3. CASE Announce \/ BatchGap \/ GatePhase \/ GatePhaseOver \/ BatchAsked
             \/ BatchRefused \/ BatchAllowed
    BY <2>3 DEF Announce, BatchGap, GapPoint, GatePhase, Gate, GatePhaseOver, BatchAsked,
                BatchRefused, Refuse, BatchAllowed
  <2>4. QED
    BY <1>7, <2>1, <2>2, <2>3 DEF Parallel
<1>8. QED
  BY <1>1, <1>2, <1>3, <1>4, <1>5, <1>6, <1>7 DEF LoopStep

LEMMA UnknownAtRest == Step /\ pc' = "idle" => Unknown' = {}
  BY DEF Step, Journalled, Unknown, Untold

LEMMA UnknownShrinks ==
    ASSUME Step, pc' # "idle", acted' = acted
    PROVE  /\ Unknown' \subseteq Unknown
           /\ \A c \in Unknown' :
                 /\ ~(toolResults'[c] > toolResults[c])
                 /\ held' = held \/ held'.kind # "tool" \/ c # held'.pending
  BY DEF Step, Journalled, Unknown, Untold

LEMMA UnknownGrows ==
    ASSUME Step, pc' # "idle", acted \in [Calls -> Nat], NEW c, acted' = Bump(acted, c)
    PROVE  Unknown' \subseteq Unknown \cup {c}
<1>1. \A d \in Calls : d # c => acted'[d] = acted[d]
  BY DEF Bump
<1>2. QED
  BY <1>1 DEF Step, Journalled, Unknown, Untold

LEMMA NothingUnknown == Unknown' = {} /\ pc' # "feedbackPhase" => JournalLedgers'
  BY DEF JournalLedgers

LEMMA OneUnknown ==
    ASSUME NEW p, Unknown \subseteq {p}
    PROVE  Unknown \subseteq batch \/ \E c \in Calls : Unknown \subseteq {c}
  BY DEF Unknown, Untold

(* A run in the middle holds no handle, and what it suspends with is one. *)
LEMMA HandOver ==
    ASSUME RestartLedger, Live
    PROVE  ~Valid(held) /\ Valid(Snapshot(susp)) /\ Snapshot(susp).kind = susp.kind
           /\ Snapshot(susp).pending = susp.pending
<1>1. held \in Session /\ Kept!Handles /\ round \in Nat /\ round >= 1
  BY DEF RestartLedger, OwnTypes, HandlesOK, Kept!CallLedger, Kept!TypeOK, Kept!BatchOK, Lineage
<1>2. ~Valid(held)
  BY <1>1, HandleParts, KeptValid DEF Kept!Handles, Live, Kept!Live
<1>3. QED
  BY <1>1, <1>2 DEF Snapshot, Valid

(* At rest nothing is unknown to the journal, or was given up with its run. *)
LEMMA JournalStep == RestartLedger /\ JournalLedgers /\ Step => JournalLedgers'
<1> SUFFICES ASSUME RestartLedger, JournalLedgers, Step PROVE JournalLedgers'
  OBVIOUS
<1>1. LoopStep /\ acted \in [Calls -> Nat] /\ Kept!Passes
  BY DEF Step, RestartLedger, OwnTypes, Kept!CallLedger
<1>2. ASSUME Unknown = {}, acted' = acted, pc' # "feedbackPhase" PROVE JournalLedgers'
  BY <1>2, UnknownAtRest, UnknownShrinks, NothingUnknown
<1>3. CASE pc = "settle"
  BY <1>1, <1>3, StepAt, UnknownAtRest, NothingUnknown DEF CycleGuarantees, Silent
<1>4. CASE pc = "feedback"
  <2>1. Feedback /\ acted' = acted /\ pc' \notin {"idle", "feedbackPhase"} /\ cur \in Calls
    BY <1>1, <1>4, StepAt, CurIsCall
       DEF Feedback, RecordResult, AfterCall, Yield, histVars, RestartLedger
  <2>2. toolResults' = Bump(toolResults, cur) /\ toolResults \in [Calls -> Nat]
    BY <2>1, KeptEmpty DEF Feedback, RecordResult, RestartLedger, Kept!TypeOK, Kept!TracksOK
  <2>3. toolResults'[cur] > toolResults[cur]
    BY <2>1, <2>2 DEF Bump
  <2>4. Unknown \subseteq {cur}
    BY <1>4 DEF JournalLedgers
  <2>5. Unknown' = {}
    BY <2>1, <2>3, <2>4, UnknownShrinks
  <2>6. QED
    BY <2>1, <2>5, NothingUnknown
<1>5. CASE pc = "suspend"
  <2>1. Suspend /\ acted' = acted /\ UNCHANGED <<susp, held, batch>>
        /\ pc' \in {"waitInput", "settle"}
    BY <1>1, <1>5, StepAt DEF Suspend, Yield, histVars, batchVars, passVars, envVars
  <2>2. Unknown' \subseteq IF susp.kind = "tool" THEN {susp.pending} ELSE {}
    BY <1>5, <2>1, UnknownShrinks DEF JournalLedgers
  <2>3. ~Valid(held)'
    BY <1>5, <2>1, HandOver DEF Live, Valid
  <2>4. CASE pc' = "waitInput"
    BY <2>1, <2>2, <2>3, <2>4 DEF JournalLedgers
  <2>5. CASE pc' = "settle"
    <3>1. Unknown' \subseteq batch' \/ \E c \in Calls : Unknown' \subseteq {c}
      BY <2>2 DEF Unknown, Untold
    <3>2. QED
      BY <2>3, <2>5, <3>1 DEF JournalLedgers
  <2>6. QED
    BY <2>1, <2>4, <2>5
<1>6. CASE pc = "waitInput"
  <2>1. WaitInput /\ acted' = acted /\ held' = Snapshot(susp) /\ pc' = "settle"
    BY <1>1, <1>6, StepAt DEF WaitInput, Yield, histVars
  <2>2. held' # held /\ held'.kind = susp.kind /\ held'.pending = susp.pending
    BY <1>6, <2>1, HandOver DEF Live
  <2>3. Unknown \subseteq IF susp.kind = "tool" THEN {susp.pending} ELSE {}
    BY <1>6 DEF JournalLedgers
  <2>4. Unknown' = {}
    BY <2>1, <2>2, <2>3, UnknownShrinks
  <2>5. QED
    BY <2>1, <2>4, NothingUnknown
<1>7. CASE pc = "admit"
  <2>1. Unknown = {}
    BY <1>7 DEF JournalLedgers
  <2>2. CASE acted' = acted
    BY <1>1, <1>2, <1>7, <2>1, <2>2, StepAt
  <2>3. CASE acted' # acted
    <3>1. Admitted
      BY <1>1, <1>7, <2>3, OnlyTheseExecute DEF ExecStart
    <3>2. acted' = Bump(acted, cur) /\ UNCHANGED held /\ pc' \in {"suspend", "feedback"}
      BY <3>1 DEF Admitted, Executed, Silent
    <3>3. cur' = cur /\ (pc' = "suspend" => susp'.kind = "tool" /\ susp'.pending = cur)
      BY <3>1 DEF Admitted, Silent, Suspension, passVars
    <3>4. Unknown' \subseteq {cur}
      BY <1>1, <2>1, <3>2, UnknownGrows
    <3>5. ~Valid(held)'
      BY <1>7, <3>2, HandOver DEF Live, Valid
    <3>6. QED
      BY <3>2, <3>3, <3>4, <3>5 DEF JournalLedgers
  <2>4. QED
    BY <2>2, <2>3
<1>8. CASE pc = "exec"
  <2>1. Unknown \subseteq batch \ todo /\ todo \subseteq batch /\ suspendAt = NoCall
    BY <1>1, <1>8 DEF JournalLedgers, Kept!Passes, NoCall, Kept!NoCall
  <2>2. ~Valid(held)
    BY <1>8, HandOver DEF Live
  <2>3. CASE ExecOver
    <3>1. acted' = acted /\ pc' = "feedbackPhase" /\ UNCHANGED <<batch, suspendAt, held>>
          /\ todo' = batch
      BY <2>3 DEF ExecOver, Silent, histVars, envVars
    <3>2. Unknown' \subseteq batch
      BY <2>1, <3>1, UnknownShrinks
    <3>3. QED
      BY <2>1, <2>2, <3>1, <3>2 DEF JournalLedgers, NonZero, Valid
  <2>4. ASSUME NEW c \in Calls, ExecStart(c) PROVE JournalLedgers'
    <3>1. acted' = Bump(acted, c) /\ pc' = "exec" /\ UNCHANGED <<batch, held>>
          /\ todo' = todo \ {c} /\ c \in todo
      BY <1>8, <2>4 DEF ExecStart, Executed, yieldVars
    <3>2. Unknown' \subseteq Unknown \cup {c}
      BY <1>1, <3>1, UnknownGrows
    <3>3. QED
      BY <2>1, <2>2, <3>1, <3>2 DEF JournalLedgers, Valid
  <2>5. ASSUME NEW c \in Calls, ExecReturn(c) PROVE JournalLedgers'
    <3>1. acted' = acted /\ pc' = "exec" /\ UNCHANGED <<batch, todo, held>>
      BY <1>8, <2>5 DEF ExecReturn, yieldVars, histVars, envVars
    <3>2. Unknown' \subseteq Unknown
      BY <3>1, UnknownShrinks
    <3>3. QED
      BY <2>1, <2>2, <3>1, <3>2 DEF JournalLedgers, Valid
  <2>6. QED
    BY <1>1, <1>8, <2>3, <2>4, <2>5, StepAt
<1>9. CASE pc = "feedbackPhase"
  <2>1. /\ Unknown \subseteq todo \cup NonZero(suspendAt)
        /\ todo \cup NonZero(suspendAt) \subseteq batch
    BY <1>9 DEF JournalLedgers
  <2>2. ~Valid(held)
    BY <1>9, HandOver DEF Live
  <2>3. CASE FeedbackPhaseOver
    <3>1. acted' = acted /\ UNCHANGED <<held, batch>> /\ todo = {}
          /\ pc' \in {"round", "suspend"}
      BY <2>3 DEF FeedbackPhaseOver, BatchOver, Silent, histVars, envVars, passVars
    <3>2. CASE pc' = "round"
      <4>1. suspendAt = NoCall
        BY <2>3, <3>2 DEF FeedbackPhaseOver, Silent
      <4>2. Unknown = {}
        BY <2>1, <3>1, <4>1 DEF NonZero
      <4>3. QED
        BY <1>2, <3>1, <3>2, <4>2
    <3>3. CASE pc' = "suspend"
      <4>1. susp'.kind = "tool" /\ susp'.pending = suspendAt
        BY <2>3, <3>3 DEF FeedbackPhaseOver, BatchOver, Silent, Suspension
      <4>2. Unknown' \subseteq {suspendAt}
        BY <2>1, <3>1, UnknownShrinks DEF NonZero
      <4>3. QED
        BY <2>2, <3>1, <3>3, <4>1, <4>2 DEF JournalLedgers, Valid
    <3>4. QED
      BY <3>1, <3>2, <3>3
  <2>4. CASE FeedbackPhase
    <3>1. acted' = acted /\ UNCHANGED <<held, batch>> /\ pc' \in {"feedbackPhase", "settle"}
      BY <2>4 DEF FeedbackPhase, Silent, RecordResult, Yield, histVars, envVars
    <3>2. PICK c \in todo : todo' = todo \ {c}
             /\ \/ suspendAt = NoCall /\ suspendAt' = c
                \/ toolResults' = Bump(toolResults, c) /\ suspendAt' = suspendAt
      BY <2>4 DEF FeedbackPhase, TakeNext, RecordResult
    <3>3. c \in Calls /\ toolResults \in [Calls -> Nat]
      BY <3>2, KeptEmpty DEF RestartLedger, Kept!TypeOK, Kept!TracksOK, Kept!BatchOK
    <3>4. toolResults' = Bump(toolResults, c) => c \notin Unknown'
      <4>1. toolResults' = Bump(toolResults, c) => toolResults'[c] > toolResults[c]
        BY <3>3 DEF Bump
      <4>2. QED
        BY <3>1, <4>1, UnknownShrinks
    <3>5. c # NoCall
      BY <3>3 DEF Calls, NoCall
    <3>6. /\ Unknown' \subseteq todo' \cup NonZero(suspendAt')
          /\ todo' \cup NonZero(suspendAt') \subseteq batch'
      <4>1. Unknown' \subseteq todo \cup NonZero(suspendAt)
        BY <2>1, <3>1, UnknownShrinks
      <4>2. CASE suspendAt = NoCall /\ suspendAt' = c
        BY <2>1, <3>1, <3>2, <3>5, <4>1, <4>2 DEF NonZero
      <4>3. CASE toolResults' = Bump(toolResults, c) /\ suspendAt' = suspendAt
        BY <2>1, <3>1, <3>2, <3>4, <4>1, <4>3 DEF NonZero
      <4>4. QED
        BY <3>2, <4>2, <4>3
    <3>7. Unknown' \subseteq batch'
      BY <3>6
    <3>8. ~Valid(held)'
      BY <2>2, <3>1 DEF Valid
    <3>9. CASE pc' = "feedbackPhase"
      BY <3>6, <3>8, <3>9 DEF JournalLedgers, NonZero
    <3>10. CASE pc' = "settle"
      BY <3>7, <3>8, <3>10 DEF JournalLedgers
    <3>11. QED
      BY <3>1, <3>9, <3>10
  <2>5. QED
    BY <1>1, <1>9, <2>3, <2>4, StepAt
<1>10. CASE pc \notin {"settle", "feedback", "suspend", "waitInput", "admit", "exec",
                       "feedbackPhase"}
  <2>1. Unknown = {}
    BY <1>10 DEF JournalLedgers
  <2>2. acted' = acted /\ pc' # "feedbackPhase"
    BY <1>1, <1>10, OnlyTheseExecute, StepAt DEF Admitted, ExecStart
  <2>3. QED
    BY <1>2, <2>1, <2>2
<1>11. QED
  BY <1>3, <1>4, <1>5, <1>6, <1>7, <1>8, <1>9, <1>10

LEMMA JournalHostStep == JournalLedgers /\ (Host \/ Crash \/ UNCHANGED jvars) => JournalLedgers'
<1> SUFFICES ASSUME JournalLedgers, Host \/ Crash \/ UNCHANGED jvars PROVE JournalLedgers'
  OBVIOUS
<1>1. CASE Cycle
  <2>1. \A c \in Calls : acted'[c] = 0
    BY <1>1 DEF Cycle, NoneOf
  <2>2. QED
    BY <1>1, <2>1, NothingUnknown DEF Cycle, Unknown, Untold
<1>2. CASE (Resume \/ ResumeRefused) /\ UNCHANGED journalVars
  <2>1. pc = "idle" /\ pc' # "feedbackPhase" /\ UNCHANGED <<acted, told, forgone>>
    BY <1>2 DEF Resume, ResumeRefused, FreshRun, journalVars
  <2>2. Unknown' = {}
    BY <2>1 DEF JournalLedgers, Unknown, Untold
  <2>3. QED
    BY <2>1, <2>2, NothingUnknown
<1>3. CASE (Pause \/ Unpause \/ Cancel) /\ UNCHANGED journalVars
  <2>1. UNCHANGED <<pc, acted, told, forgone, cur, susp, batch, todo, suspendAt, held>>
    BY <1>3 DEF Pause, Unpause, Cancel, journalVars, yieldVars, batchVars, passVars, histVars
  <2>2. QED
    BY <2>1 DEF JournalLedgers, Unknown, Untold, NonZero, Valid
<1>4. CASE Crash
  <2>1. Unknown' = {}
    BY <1>4 DEF Crash, Unknown, Untold
  <2>2. QED
    BY <1>4, <2>1, NothingUnknown DEF Crash
<1>5. CASE UNCHANGED jvars
  <2>1. UNCHANGED <<pc, acted, told, forgone, cur, susp, batch, todo, suspendAt, held>>
    BY <1>5 DEF jvars, journalVars, vars, yieldVars, batchVars, passVars, envVars, histVars
  <2>2. QED
    BY <2>1 DEF JournalLedgers, Unknown, Untold, NonZero, Valid
<1>6. QED
  BY <1>1, <1>2, <1>3, <1>4, <1>5 DEF Host

(* However often the host dies, what the world has seen and the journal has *)
(* not is the call whose result is on its way or calls of the batch under   *)
(* way, and nothing wherever a handle is saved or the brain thinks (the     *)
(* yields of run and runParallel, snapshot).                                *)
THEOREM EffectsAreJournalled == JSpec => []UnjournalledWorkIsBounded
<1>1. JInit => JournalLedgers
  BY DEF JInit, Init, JournalLedgers, Unknown, Untold, NoneOf
<1>2. RestartLedger /\ JournalLedgers /\ [JNext]_jvars => JournalLedgers'
  BY JournalStep, JournalHostStep DEF JNext
<1>3. RestartLedger /\ JournalLedgers => UnjournalledWorkIsBounded
  <2> SUFFICES ASSUME RestartLedger, JournalLedgers PROVE UnjournalledWorkIsBounded
    OBVIOUS
  <2>1. batch \subseteq Calls /\ IsFiniteSet(Calls)
    BY FS_Interval, BoundsAssumption, KeptEmpty
       DEF RestartLedger, Kept!TypeOK, Kept!BatchOK, Calls
  <2>2. IsFiniteSet(batch)
    BY <2>1, FS_Subset
  <2>3. Cardinality(batch) \in Nat /\ (batch # {} => Cardinality(batch) >= 1)
    BY <2>2, FS_CardinalityType, FS_EmptySet
  <2>4. \/ Unknown \subseteq batch /\ batch # {}
        \/ Unknown = {}
        \/ \E c : Unknown \subseteq {c}
    <3>1. Unknown \subseteq batch \/ Unknown = {} \/ \E c : Unknown \subseteq {c}
      BY DEF JournalLedgers
    <3>2. QED
      BY <3>1
  <2>5. Cardinality(Unknown) <= IF batch = {} THEN 1 ELSE Cardinality(batch)
    <3>1. CASE Unknown \subseteq batch /\ batch # {}
      BY <2>2, <3>1, FS_Subset
    <3>2. CASE Unknown = {}
      BY <2>3, <3>2, FS_EmptySet
    <3>3. ASSUME NEW c, Unknown \subseteq {c}
          PROVE  Cardinality(Unknown) <= IF batch = {} THEN 1 ELSE Cardinality(batch)
      <4>1. Cardinality({c}) = 1 /\ IsFiniteSet({c})
        BY FS_Singleton
      <4>2. Cardinality(Unknown) <= 1 /\ Cardinality(Unknown) \in Nat
        BY <3>3, <4>1, FS_Subset, FS_CardinalityType
      <4>3. QED
        BY <2>3, <4>2
    <3>4. QED
      BY <2>4, <3>1, <3>2, <3>3
  <2>6. QED
    BY <2>5 DEF UnjournalledWorkIsBounded, JournalLedgers, Unknown
<1>4. QED
  BY <1>1, <1>2, <1>3, RestartsAccounted, PTL DEF JSpec

=============================================================================
