------------------------- MODULE DecisionLoopCalls -------------------------
(***************************************************************************)
(* Types and tool calls in the decision loop.  Types come part by part; a  *)
(* type alone is not inductive: that a pass never puts the absent call     *)
(* into a slice rests on Passes, which the ledger proves.  The ledger and  *)
(* the types together are an inductive invariant, and from it follow the   *)
(* safety of executions and of handles, for every bound and every set of   *)
(* configurations.                                                         *)
(***************************************************************************)
EXTENDS DecisionLoopLedger, TLAPS

-----------------------------------------------------------------------------
(* Types. *)

LEMMA Counting ==
    ASSUME NEW f \in [Calls -> Nat], NEW c
    PROVE  Bump(f, c) \in [Calls -> Nat]
<1>1. CASE c \in Calls
  BY <1>1 DEF Bump
<1>2. CASE c \notin Calls
  <2>1. \A x \in Calls : [f EXCEPT ![c] = f[c] + 1][x] = f[x]
    BY <1>2
  <2>2. QED
    BY <2>1 DEF Bump
<1>3. QED
  BY <1>1, <1>2

LEMMA Rulings ==
    /\ \A answer : NormalizeRuling(answer) \in Verdicts
    /\ \A resp : ResolveAsk(resp) \in Verdicts
  BY DEF NormalizeRuling, ResolveAsk, Verdicts

LEMMA EmptyText == << >> \in Seq(Utterances)
  OBVIOUS

LEMMA Saying ==
    ASSUME NEW text \in Seq(Utterances), NEW d \in Nat,
           NEW as \in {"draft", "denial"}
    PROVE  Append(text, [draft |-> d, as |-> as]) \in Seq(Utterances)
<1>1. [draft |-> d, as |-> as] \in Utterances
  BY DEF Utterances
<1>2. QED
  BY <1>1

LEMMA Nothing == NoneOf \in [Calls -> Nat] /\ ZeroSession \in Session
<1>1. NoneOf \in [Calls -> Nat]
  BY DEF NoneOf
<1>2. QED
  BY <1>1, EmptyText DEF ZeroSession, Session, WaitKinds

LEMMA DraftTypes == TypeOK => thinks \in Nat /\ sess.draft \in Nat
  BY DEF TypeOK, HistoryOK, HandlesOK, Session

LEMMA SuspensionTypes ==
    ASSUME NEW kind \in WaitKinds, NEW pending \in {NoCall} \cup Calls,
           NEW remaining \in SUBSET Calls
    PROVE  [kind |-> kind, pending |-> pending, remaining |-> remaining] \in Suspensions
  BY DEF Suspensions

LEMMA SnapshotTypes == TypeOK => Snapshot(susp) \in Session
  BY DraftTypes
     DEF TypeOK, TracksOK, BatchOK, TextsOK, Suspensions, Snapshot, Session

(* A count goes up by one for the call it is about. *)
LEMMA Bumped ==
    ASSUME NEW f \in [Calls -> Nat], NEW c \in Calls
    PROVE  \A d \in Calls : Bump(f, c)[d] = IF d = c THEN f[d] + 1 ELSE f[d]
  BY DEF Bump

LEMMA Numbers == TypeOK => issued \in Nat /\ Calls \subseteq Nat \ {NoCall}
  BY DEF TypeOK, HistoryOK, Calls, NoCall

-----------------------------------------------------------------------------
(* One lemma per part of TypeOK. *)

LEMMA TypeInit == Init => TypeOK
<1> SUFFICES ASSUME Init PROVE TypeOK
  OBVIOUS
<1>1. ControlOK
  BY BoundsAssumption DEF Init, ControlOK, PCs, States, Outcomes, Events
<1>2. TracksOK
  BY Nothing DEF Init, TracksOK
<1>3. BatchOK
  BY DEF Init, BatchOK, Suspensions, WaitKinds
<1>4. TextsOK
  BY EmptyText DEF Init, TextsOK
<1>5. HandlesOK
  BY Nothing DEF Init, HandlesOK
<1>6. HostOK
  BY DEF Init, HostOK
<1>7. HistoryOK
  <2>1. issued \in 0 .. MaxCalls /\ thinks \in 0 .. MaxThinks /\ thought \in Nat /\ late \in Nat
    BY BoundsAssumption DEF Init
  <2>2. /\ verdict \in [Calls -> Verdicts \cup {"none"}]
        /\ draftRuling \in [Drafts -> Verdicts \cup {"none"}]
    BY DEF Init
  <2>3. acted \in [Calls -> Nat]
    BY Nothing DEF Init
  <2>4. QED
    BY <2>1, <2>2, <2>3 DEF HistoryOK
<1>8. QED
  BY <1>1, <1>2, <1>3, <1>4, <1>5, <1>6, <1>7 DEF TypeOK

LEMMA ControlTypes == TypeOK /\ Next => ControlOK'
<1> SUFFICES ASSUME TypeOK, Next PROVE ControlOK'
  OBVIOUS
<1>1. CASE EmitAudit
  BY <1>1, BoundsAssumption
    DEF ControlOK, TypeOK, Events, PCs, EmitAudit, Yield, lcVars, loopVars,
       yieldVars
<1>2. CASE CycleGuarantees
  BY <1>2, BoundsAssumption
    DEF ControlOK, TypeOK, PCs, Outcomes, CycleGuarantees, EndWith, Silent,
       lcVars, loopVars, yieldVars
<1>3. CASE Cycle \/ Resume \/ ResumeRefused
  BY <1>3
    DEF ControlOK, TypeOK, PCs, States, Outcomes, Events, Cycle, FreshRun,
       Resume, ResumeRefused, lcVars, loopVars, yieldVars
<1>4. CASE OrganFails \/ EmitError \/ ErrorEvent
  BY <1>4
    DEF ControlOK, TypeOK, PCs, Events, States, Outcomes, OrganFails, Silent,
       EmitError, EndWith, Yield, ErrorEvent, lcVars, loopVars, yieldVars
<1>5. CASE CyclePrelude \/ EnterLoop
  BY <1>5
    DEF ControlOK, TypeOK, PCs, Events, States, Outcomes, CyclePrelude,
       Silent, EnterLoop, lcVars, loopVars, yieldVars
<1>6. CASE Parking
  BY <1>6
    DEF ControlOK, Parking, TypeOK, PCs, Events, States, Outcomes, Suspend,
       EndWith, Yield, WaitInput, PauseState, PausedEvent, lcVars, loopVars,
       yieldVars
<1>7. CASE Thinking
  BY <1>7
    DEF ControlOK, Thinking, TypeOK, PCs, Events, States, Outcomes, Round,
       GapPoint, Silent, EndWith, Prepare, Yield, Think, ReportUsage,
       EmitGate, UtterAsk, Utter, Say, Acting, AnnounceDone, DoneEvent,
       lcVars, loopVars, yieldVars
<1>8. CASE Resuming
  BY <1>8
    DEF ControlOK, Resuming, TypeOK, PCs, Events, States, Outcomes,
       ResolveCallAsk, Yield, Approved, ResolveUtteranceAsk, SayResolved, Say,
       Rest, Silent, lcVars, loopVars, yieldVars
<1>9. CASE Serial
  BY <1>9
    DEF ControlOK, Serial, TypeOK, PCs, Events, States, Outcomes, Run, Silent,
       SerialCall, Yield, SerialOver, BatchOver, SerialGap, GapPoint,
       SerialGate, Gate, SerialAsked, SerialRefused, AfterCall, Refuse,
       Admitted, Feedback, RecordResult, lcVars, loopVars, yieldVars
<1>10. CASE Parallel
  BY <1>10
    DEF ControlOK, Parallel, TypeOK, PCs, Events, States, Outcomes, Announce,
       Yield, BatchGap, GapPoint, Silent, GatePhase, Gate, GatePhaseOver,
       BatchAsked, AskTail, BatchRefused, Refuse, BatchAllowed, ExecStart,
       ExecReturn, ExecOver, FeedbackPhase, RecordResult, FeedbackPhaseOver,
       BatchOver, lcVars, loopVars, yieldVars
<1>11. CASE Pause \/ Unpause \/ Cancel
  BY <1>11
    DEF ControlOK, TypeOK, PCs, Events, States, Outcomes, Pause, Unpause,
       Cancel, lcVars, loopVars, yieldVars
<1>12. QED
  BY <1>1, <1>2, <1>3, <1>4, <1>5, <1>6, <1>7, <1>8, <1>9, <1>10, <1>11
    DEF Next, LoopStep, Settling, Entering, HostStep

LEMMA TrackTypes == TypeOK /\ Next => TracksOK'
<1> SUFFICES ASSUME TypeOK, Next PROVE TracksOK'
  OBVIOUS
<1>1. CASE SerialRefused \/ BatchRefused \/ Feedback \/ FeedbackPhase
  BY <1>1, Counting
    DEF TracksOK, TypeOK, SerialRefused, AfterCall, Refuse, BatchRefused,
       Feedback, RecordResult, FeedbackPhase, lcVars, trackVars
<1>2. CASE Utter \/ SayResolved
  BY <1>2, DraftTypes
    DEF TracksOK, TypeOK, Utter, Say, SayResolved, lcVars, trackVars
<1>3. CASE CycleGuarantees \/ Cycle \/ ResumeRefused
  BY <1>3, Nothing
    DEF TracksOK, TypeOK, CycleGuarantees, Cycle, ResumeRefused, lcVars,
       trackVars
<1>4. CASE Resume
  BY <1>4, Counting
    DEF TracksOK, TypeOK, HandlesOK, Session, Resume, lcVars, trackVars
<1>5. CASE OrganFails \/ EmitError \/ ErrorEvent
  BY <1>5
    DEF TracksOK, TypeOK, OrganFails, EmitError, ErrorEvent, lcVars, trackVars
<1>6. CASE Entering
  BY <1>6
    DEF TracksOK, Entering, TypeOK, CyclePrelude, EmitAudit, EnterLoop,
       lcVars, trackVars
<1>7. CASE Parking
  BY <1>7
    DEF TracksOK, Parking, TypeOK, Suspend, WaitInput, PauseState,
       PausedEvent, lcVars, trackVars
<1>8. CASE Round \/ Prepare \/ Think \/ ReportUsage \/ EmitGate \/ UtterAsk \/
          Acting \/ AnnounceDone \/ DoneEvent
  BY <1>8
    DEF TracksOK, TypeOK, Round, Prepare, Think, ReportUsage, EmitGate,
       UtterAsk, Acting, AnnounceDone, DoneEvent, lcVars, trackVars
<1>9. CASE ResolveCallAsk \/ Approved \/ ResolveUtteranceAsk \/ Rest
  BY <1>9
    DEF TracksOK, TypeOK, ResolveCallAsk, Approved, ResolveUtteranceAsk, Rest,
       lcVars, trackVars
<1>10. CASE Run \/ SerialCall \/ SerialOver \/ SerialGap \/ SerialGate \/
          SerialAsked \/ Admitted
  BY <1>10
    DEF TracksOK, TypeOK, Run, SerialCall, SerialOver, SerialGap, SerialGate,
       SerialAsked, Admitted, lcVars, trackVars
<1>11. CASE Announce \/ BatchGap \/ GatePhase \/ GatePhaseOver \/ BatchAsked
          \/ BatchAllowed \/ (\E c \in Calls : ExecStart(c) \/ ExecReturn(c))
          \/ ExecOver \/ FeedbackPhaseOver
  BY <1>11
    DEF TracksOK, TypeOK, Announce, BatchGap, GatePhase, GatePhaseOver,
       BatchAsked, AskTail, BatchAllowed, ExecStart, ExecReturn, ExecOver,
       FeedbackPhaseOver, lcVars, trackVars
<1>12. CASE Pause \/ Unpause \/ Cancel
  BY <1>12
    DEF TracksOK, TypeOK, Pause, Unpause, Cancel, lcVars, trackVars
<1>13. QED
  BY <1>1, <1>2, <1>3, <1>4, <1>5, <1>6, <1>7, <1>8, <1>9, <1>10, <1>11, <1>12
    DEF Next, LoopStep, Settling, Thinking, Resuming, Serial, Parallel,
       HostStep

LEMMA BatchTypes == TypeOK /\ Passes /\ Next => BatchOK'
<1> SUFFICES ASSUME TypeOK /\ Passes, Next PROVE BatchOK'
  OBVIOUS
<1>1. CASE Think
  BY <1>1, BoundsAssumption
    DEF BatchOK, TypeOK, HistoryOK, Calls, Think, batchVars, passVars
<1>2. CASE Round \/ UtterAsk \/ BatchGap
  BY <1>2, SuspensionTypes
    DEF BatchOK, TypeOK, WaitKinds, Round, GapPoint, Suspension, UtterAsk,
       BatchGap, batchVars, passVars
<1>3. CASE SerialGap \/ SerialAsked \/ Admitted
  BY <1>3, SuspensionTypes
    DEF BatchOK, TypeOK, Passes, WaitKinds, SerialGap, GapPoint, Suspension,
       SerialAsked, Admitted, batchVars, passVars
<1>4. CASE BatchAsked
  BY <1>4, SuspensionTypes
    DEF BatchOK, TypeOK, WaitKinds, BatchAsked, AskTail, Suspension,
       batchVars, passVars
<1>5. CASE BatchRefused \/ BatchAllowed
  BY <1>5
    DEF BatchOK, TypeOK, Passes, BatchRefused, BatchAllowed, batchVars,
       passVars
<1>6. CASE FeedbackPhaseOver \/ SerialOver
  BY <1>6, SuspensionTypes
    DEF BatchOK, TypeOK, WaitKinds, FeedbackPhaseOver, BatchOver, Suspension,
       SerialOver, batchVars, passVars
<1>7. CASE SerialCall \/ Announce \/ GatePhase \/ FeedbackPhase
  BY <1>7
    DEF BatchOK, TypeOK, SerialCall, TakeNext, Announce, GatePhase,
       FeedbackPhase, batchVars, passVars
<1>8. CASE ResolveCallAsk \/ Rest
  BY <1>8
    DEF BatchOK, TypeOK, HandlesOK, Session, ResolveCallAsk, Rest, batchVars,
       passVars
<1>9. CASE Resume
  BY <1>9
    DEF BatchOK, TypeOK, HandlesOK, Session, Resume, FreshRun, batchVars,
       passVars
<1>10. CASE Settling
  BY <1>10
    DEF BatchOK, Settling, TypeOK, Suspensions, WaitKinds, OrganFails,
       EmitError, ErrorEvent, CycleGuarantees, DropPass, Suspension,
       batchVars, passVars
<1>11. CASE Entering
  BY <1>11
    DEF BatchOK, Entering, TypeOK, Suspensions, WaitKinds, CyclePrelude,
       EmitAudit, EnterLoop, batchVars, passVars
<1>12. CASE Parking
  BY <1>12
    DEF BatchOK, Parking, TypeOK, Suspensions, WaitKinds, Suspend, WaitInput,
       PauseState, PausedEvent, batchVars, passVars
<1>13. CASE Prepare \/ ReportUsage \/ EmitGate \/ Utter \/ Acting \/
          AnnounceDone \/ DoneEvent
  BY <1>13
    DEF BatchOK, TypeOK, Suspensions, WaitKinds, Prepare, ReportUsage,
       EmitGate, Utter, Acting, AnnounceDone, DoneEvent, batchVars, passVars
<1>14. CASE Approved \/ ResolveUtteranceAsk \/ SayResolved
  BY <1>14
    DEF BatchOK, TypeOK, Suspensions, WaitKinds, Approved,
       ResolveUtteranceAsk, SayResolved, batchVars, passVars
<1>15. CASE Run \/ SerialGate \/ SerialRefused \/ Feedback
  BY <1>15
    DEF BatchOK, TypeOK, Suspensions, WaitKinds, Run, SerialGate,
       SerialRefused, AfterCall, Feedback, batchVars, passVars
<1>16. CASE GatePhaseOver \/ (\E c \in Calls : ExecStart(c) \/ ExecReturn(c))
          \/ ExecOver
  BY <1>16
    DEF BatchOK, TypeOK, Suspensions, WaitKinds, GatePhaseOver, ExecStart,
       ExecReturn, ExecOver, batchVars, passVars
<1>17. CASE Pause \/ Unpause \/ Cancel \/ Cycle \/ ResumeRefused
  BY <1>17
    DEF BatchOK, TypeOK, Suspensions, WaitKinds, Pause, Unpause, Cancel,
       Cycle, FreshRun, ResumeRefused, batchVars, passVars
<1>18. QED
  BY <1>1, <1>2, <1>3, <1>4, <1>5, <1>6, <1>7, <1>8, <1>9, <1>10, <1>11,
     <1>12, <1>13, <1>14, <1>15, <1>16, <1>17
    DEF Next, LoopStep, Thinking, Resuming, Serial, Parallel, HostStep

LEMMA TextTypes == TypeOK /\ Next => TextsOK'
<1> SUFFICES ASSUME TypeOK, Next PROVE TextsOK'
  OBVIOUS
<1>1. CASE Utter \/ SayResolved
  BY <1>1, Saying, DraftTypes
    DEF TextsOK, TypeOK, Utter, Say, SayResolved, histVars, loopVars, sayVars
<1>2. CASE CycleGuarantees \/ Cycle \/ ResumeRefused
  BY <1>2, EmptyText
    DEF TextsOK, TypeOK, CycleGuarantees, Cycle, FreshRun, ResumeRefused,
       histVars, loopVars, sayVars
<1>3. CASE Resume
  BY <1>3, EmptyText
    DEF TextsOK, TypeOK, HandlesOK, Session, Resume, FreshRun, histVars,
       loopVars, sayVars
<1>4. CASE OrganFails \/ EmitError \/ ErrorEvent
  BY <1>4
    DEF TextsOK, TypeOK, OrganFails, EmitError, ErrorEvent, histVars,
       loopVars, sayVars
<1>5. CASE Entering
  BY <1>5
    DEF TextsOK, Entering, TypeOK, CyclePrelude, EmitAudit, EnterLoop,
       histVars, loopVars, sayVars
<1>6. CASE Parking
  BY <1>6
    DEF TextsOK, Parking, TypeOK, Suspend, WaitInput, PauseState, PausedEvent,
       histVars, loopVars, sayVars
<1>7. CASE Round \/ Prepare \/ Think \/ ReportUsage \/ EmitGate \/ UtterAsk \/
          Acting \/ AnnounceDone \/ DoneEvent
  BY <1>7
    DEF TextsOK, TypeOK, Round, Prepare, Think, ReportUsage, EmitGate,
       UtterAsk, Acting, AnnounceDone, DoneEvent, histVars, loopVars, sayVars
<1>8. CASE ResolveCallAsk \/ Approved \/ ResolveUtteranceAsk \/ Rest
  BY <1>8
    DEF TextsOK, TypeOK, ResolveCallAsk, Approved, ResolveUtteranceAsk, Rest,
       histVars, loopVars, sayVars
<1>9. CASE Serial
  BY <1>9
    DEF TextsOK, Serial, TypeOK, Run, SerialCall, SerialOver, SerialGap,
       SerialGate, SerialAsked, SerialRefused, AfterCall, Admitted, Feedback,
       histVars, loopVars, sayVars
<1>10. CASE Parallel
  BY <1>10
    DEF TextsOK, Parallel, TypeOK, Announce, BatchGap, GatePhase,
       GatePhaseOver, BatchAsked, AskTail, BatchRefused, BatchAllowed,
       ExecStart, ExecReturn, ExecOver, FeedbackPhase, FeedbackPhaseOver,
       histVars, loopVars, sayVars
<1>11. CASE Pause \/ Unpause \/ Cancel
  BY <1>11
    DEF TextsOK, TypeOK, Pause, Unpause, Cancel, histVars, loopVars, sayVars
<1>12. QED
  BY <1>1, <1>2, <1>3, <1>4, <1>5, <1>6, <1>7, <1>8, <1>9, <1>10, <1>11
    DEF Next, LoopStep, Settling, Thinking, Resuming, HostStep

LEMMA HandleTypes == TypeOK /\ Next => HandlesOK'
<1> SUFFICES ASSUME TypeOK, Next PROVE HandlesOK'
  OBVIOUS
<1>1. CASE WaitInput \/ PausedEvent
  BY <1>1, SnapshotTypes
    DEF HandlesOK, TypeOK, WaitInput, PausedEvent, envVars, loopVars
<1>2. CASE CycleGuarantees \/ Cycle \/ Resume \/ ResumeRefused
  BY <1>2, Nothing
    DEF HandlesOK, TypeOK, CycleGuarantees, Cycle, Resume, ResumeRefused,
       envVars, loopVars
<1>3. CASE OrganFails \/ EmitError \/ ErrorEvent
  BY <1>3
    DEF HandlesOK, TypeOK, OrganFails, EmitError, ErrorEvent, envVars,
       loopVars
<1>4. CASE Entering
  BY <1>4
    DEF HandlesOK, Entering, TypeOK, CyclePrelude, EmitAudit, EnterLoop,
       envVars, loopVars
<1>5. CASE Suspend \/ PauseState
  BY <1>5
    DEF HandlesOK, TypeOK, Suspend, PauseState, envVars, loopVars
<1>6. CASE Thinking
  BY <1>6
    DEF HandlesOK, Thinking, TypeOK, Round, Prepare, Think, ReportUsage,
       EmitGate, UtterAsk, Utter, Acting, AnnounceDone, DoneEvent, envVars,
       loopVars
<1>7. CASE Resuming
  BY <1>7
    DEF HandlesOK, Resuming, TypeOK, ResolveCallAsk, Approved,
       ResolveUtteranceAsk, SayResolved, Rest, envVars, loopVars
<1>8. CASE Serial
  BY <1>8
    DEF HandlesOK, Serial, TypeOK, Run, SerialCall, SerialOver, SerialGap,
       SerialGate, SerialAsked, SerialRefused, AfterCall, Admitted, Feedback,
       envVars, loopVars
<1>9. CASE Parallel
  BY <1>9
    DEF HandlesOK, Parallel, TypeOK, Announce, BatchGap, GatePhase,
       GatePhaseOver, BatchAsked, AskTail, BatchRefused, BatchAllowed,
       ExecStart, ExecReturn, ExecOver, FeedbackPhase, FeedbackPhaseOver,
       envVars, loopVars
<1>10. CASE Pause \/ Unpause \/ Cancel
  BY <1>10
    DEF HandlesOK, TypeOK, Pause, Unpause, Cancel, envVars, loopVars
<1>11. QED
  BY <1>1, <1>2, <1>3, <1>4, <1>5, <1>6, <1>7, <1>8, <1>9, <1>10
    DEF Next, LoopStep, Settling, Parking, HostStep

LEMMA HostTypes == HostOK /\ Next => HostOK'
<1> SUFFICES ASSUME HostOK, Next PROVE HostOK'
  OBVIOUS
<1>1. CASE Settling
  BY <1>1, Zenon
    DEF HostOK, Settling, OrganFails, Silent, EmitError, Yield, ErrorEvent,
       CycleGuarantees, envVars, hostVars, yieldVars
<1>2. CASE Entering
  BY <1>2, Zenon
    DEF HostOK, Entering, CyclePrelude, Silent, EmitAudit, Yield, EnterLoop,
       envVars, hostVars, yieldVars
<1>3. CASE Parking
  BY <1>3, Zenon
    DEF HostOK, Parking, Suspend, Yield, WaitInput, PauseState, PausedEvent,
       envVars, hostVars, yieldVars
<1>4. CASE Thinking
  BY <1>4, Zenon
    DEF HostOK, Thinking, Round, GapPoint, Silent, Prepare, Yield, Think,
       ReportUsage, EmitGate, UtterAsk, Utter, Say, Acting, AnnounceDone,
       DoneEvent, envVars, hostVars, yieldVars
<1>5. CASE Resuming
  BY <1>5, Zenon
    DEF HostOK, Resuming, ResolveCallAsk, Yield, Approved,
       ResolveUtteranceAsk, SayResolved, Say, Rest, Silent, envVars, hostVars,
       yieldVars
<1>6. CASE Serial
  BY <1>6, Zenon
    DEF HostOK, Serial, Run, Silent, SerialCall, Yield, SerialOver, BatchOver,
       SerialGap, GapPoint, SerialGate, Gate, SerialAsked, SerialRefused,
       AfterCall, Refuse, Admitted, Feedback, RecordResult, envVars, hostVars,
       yieldVars
<1>7. CASE Parallel
  BY <1>7, Zenon
    DEF HostOK, Parallel, Announce, Yield, BatchGap, GapPoint, Silent,
       GatePhase, Gate, GatePhaseOver, BatchAsked, AskTail, BatchRefused,
       Refuse, BatchAllowed, ExecStart, ExecReturn, ExecOver, FeedbackPhase,
       RecordResult, FeedbackPhaseOver, BatchOver, envVars, hostVars,
       yieldVars
<1>8. CASE HostStep
  BY <1>8, Zenon
    DEF HostOK, HostStep, Pause, Unpause, Cancel, Cycle, FreshRun, Resume,
       ClearPauseRequest, ResumeRefused, envVars, hostVars, yieldVars
<1>9. QED
  BY <1>1, <1>2, <1>3, <1>4, <1>5, <1>6, <1>7, <1>8
    DEF Next, LoopStep

LEMMA HistoryTypes == TypeOK /\ Next => HistoryOK'
<1> SUFFICES ASSUME TypeOK, Next PROVE HistoryOK'
  OBVIOUS
<1>1. CASE Think
  BY <1>1, BoundsAssumption
    DEF HistoryOK, TypeOK, Think, auditVars, countVars, envVars, histVars
<1>2. CASE Cycle
  BY <1>2, BoundsAssumption, Nothing
    DEF HistoryOK, TypeOK, Cycle, FreshRun, auditVars, countVars, envVars,
       histVars
<1>3. CASE EmitGate \/ SerialGate \/ GatePhase \/ ResolveCallAsk \/ ResolveUtteranceAsk
  BY <1>3, Rulings
    DEF HistoryOK, TypeOK, EmitGate, SerialGate, Gate, GatePhase,
       ResolveCallAsk, ResolveUtteranceAsk, auditVars, countVars, envVars,
       histVars
<1>4. CASE Admitted \/ (\E c \in Calls : ExecStart(c))
  BY <1>4, Counting
    DEF HistoryOK, TypeOK, Admitted, Executed, ExecStart, auditVars,
       countVars, envVars, histVars
<1>5. CASE Settling
  BY <1>5
    DEF HistoryOK, Settling, TypeOK, OrganFails, EmitError, ErrorEvent,
       CycleGuarantees, auditVars, countVars, envVars, histVars
<1>6. CASE Entering
  BY <1>6
    DEF HistoryOK, Entering, TypeOK, CyclePrelude, EmitAudit, EnterLoop,
       auditVars, countVars, envVars, histVars
<1>7. CASE Parking
  BY <1>7
    DEF HistoryOK, Parking, TypeOK, Suspend, WaitInput, PauseState,
       PausedEvent, auditVars, countVars, envVars, histVars
<1>8. CASE Round \/ Prepare \/ ReportUsage \/ UtterAsk \/ Utter \/ Acting \/
          AnnounceDone \/ DoneEvent
  BY <1>8
    DEF HistoryOK, TypeOK, Round, Prepare, ReportUsage, UtterAsk, Utter,
       Acting, AnnounceDone, DoneEvent, auditVars, countVars, envVars,
       histVars
<1>9. CASE Approved \/ SayResolved \/ Rest
  BY <1>9
    DEF HistoryOK, TypeOK, Approved, SayResolved, Rest, auditVars, countVars,
       envVars, histVars
<1>10. CASE Run \/ SerialCall \/ SerialOver \/ SerialGap \/ SerialAsked \/
          SerialRefused \/ Feedback
  BY <1>10
    DEF HistoryOK, TypeOK, Run, SerialCall, SerialOver, SerialGap,
       SerialAsked, SerialRefused, AfterCall, Feedback, auditVars, countVars,
       envVars, histVars
<1>11. CASE Announce \/ BatchGap \/ GatePhaseOver \/ BatchAsked \/
          BatchRefused \/ BatchAllowed \/ (\E c \in Calls : ExecReturn(c)) \/
          ExecOver \/ FeedbackPhase \/ FeedbackPhaseOver
  BY <1>11
    DEF HistoryOK, TypeOK, Announce, BatchGap, GatePhaseOver, BatchAsked,
       AskTail, BatchRefused, BatchAllowed, ExecReturn, ExecOver,
       FeedbackPhase, FeedbackPhaseOver, auditVars, countVars, envVars,
       histVars
<1>12. CASE Pause \/ Unpause \/ Cancel \/ Resume \/ ResumeRefused
  BY <1>12
    DEF HistoryOK, TypeOK, Pause, Unpause, Cancel, Resume, FreshRun,
       ResumeRefused, auditVars, countVars, envVars, histVars
<1>13. QED
  BY <1>1, <1>2, <1>3, <1>4, <1>5, <1>6, <1>7, <1>8, <1>9, <1>10, <1>11, <1>12
    DEF Next, LoopStep, Thinking, Resuming, Serial, Parallel, HostStep

(* Every variable keeps its type while the passes hold what they should. *)
LEMMA TypeStep == TypeOK /\ Passes /\ Next => TypeOK'
  BY ControlTypes, TrackTypes, BatchTypes, TextTypes, HandleTypes, HostTypes,
     HistoryTypes DEF TypeOK

LEMMA TypeStutter == TypeOK /\ UNCHANGED vars => TypeOK'
  BY DEF vars, yieldVars, loopVars, lcVars, trackVars, batchVars, passVars,
         envVars, hostVars, histVars, countVars, auditVars, sayVars, TypeOK,
         ControlOK, TracksOK, BatchOK, TextsOK, HandlesOK, HostOK, HistoryOK

-----------------------------------------------------------------------------
(* What the steps that answer, execute, rule on and resume calls do. *)

LEMMA Answering ==
    ASSUME TypeOK, NEW c \in Calls,
           \/ toolResults' = Bump(toolResults, c) /\ refusals' = refusals
           \/ refusals' = Bump(refusals, c) /\ toolResults' = toolResults
    PROVE  \A d \in Calls : Settled(d)' = IF d = c THEN Settled(d) + 1 ELSE Settled(d)
<1>1. CASE toolResults' = Bump(toolResults, c) /\ refusals' = refusals
  <2>1. \A d \in Calls : toolResults'[d] = IF d = c THEN toolResults[d] + 1 ELSE toolResults[d]
    BY <1>1, Bumped DEF TypeOK, TracksOK
  <2>2. QED
    BY <1>1, <2>1 DEF TypeOK, TracksOK, Settled
<1>2. CASE refusals' = Bump(refusals, c) /\ toolResults' = toolResults
  <2>1. \A d \in Calls : refusals'[d] = IF d = c THEN refusals[d] + 1 ELSE refusals[d]
    BY <1>2, Bumped DEF TypeOK, TracksOK
  <2>2. QED
    BY <1>2, <2>1 DEF TypeOK, TracksOK, Settled
<1>3. QED
  BY <1>1, <1>2

LEMMA CurAnswered ==
    ASSUME TypeOK, CallLedger, SerialRefused \/ Feedback \/ BatchRefused
    PROVE  /\ cur \in Calls /\ Settled(cur) = 0 /\ cur <= issued
           /\ \A d \in Calls : Settled(d)' = IF d = cur THEN 1 ELSE Settled(d)
<1>1. pc \in {"refused", "declined", "feedback", "batchRefused"}
  BY DEF SerialRefused, Feedback, BatchRefused
<1>2. cur \in Calls
  BY <1>1 DEF CallLedger, Passes, TypeOK, BatchOK
<1>3. Settled(cur) = 0 /\ cur <= issued
  BY <1>1, <1>2 DEF CallLedger, OwesSerial, OwesBatch, Owes
<1>4. \A d \in Calls : Settled(d)' = IF d = cur THEN Settled(d) + 1 ELSE Settled(d)
  <2>1. \/ toolResults' = Bump(toolResults, cur) /\ refusals' = refusals
        \/ refusals' = Bump(refusals, cur) /\ toolResults' = toolResults
    BY DEF SerialRefused, Feedback, BatchRefused, Refuse, RecordResult
  <2>2. QED
    BY <1>2, <2>1, Answering
<1>5. QED
  BY <1>2, <1>3, <1>4

LEMMA FedBack ==
    ASSUME TypeOK, CallLedger, FeedbackPhase
    PROVE  /\ cur' \in todo /\ todo' = todo \ {cur'}
           /\ Settled(cur') = 0 /\ cur' <= issued
           /\ \/ /\ suspendAt = NoCall /\ suspendAt' = cur'
                 /\ UNCHANGED <<toolResults, refusals>>
              \/ /\ suspendAt' = suspendAt
                 /\ \A d \in Calls : Settled(d)' = IF d = cur' THEN 1 ELSE Settled(d)
<1>1. cur' \in todo /\ todo' = todo \ {cur'}
  BY DEF FeedbackPhase, TakeNext
<1>2. cur' \in Calls
  BY <1>1 DEF TypeOK, BatchOK
<1>3. Settled(cur') = 0 /\ cur' <= issued
  BY <1>1, <1>2 DEF CallLedger, OwesBatch, Owes, FeedbackPhase
<1>4. CASE suspendAt = NoCall /\ suspendAt' = cur' /\ UNCHANGED <<toolResults, refusals>>
  BY <1>1, <1>3, <1>4
<1>5. CASE /\ suspendAt' = suspendAt
           /\ toolResults' = Bump(toolResults, cur') /\ refusals' = refusals
  <2>1. \A d \in Calls : Settled(d)' = IF d = cur' THEN Settled(d) + 1 ELSE Settled(d)
    BY <1>2, <1>5, Answering
  <2>2. QED
    BY <1>1, <1>3, <1>5, <2>1
<1>6. QED
  BY <1>4, <1>5 DEF FeedbackPhase, TakeNext, RecordResult

LEMMA Resumed ==
    ASSUME TypeOK, CallLedger, Resume
    PROVE  /\ Valid(held) /\ UNCHANGED <<issued, acted>> /\ pc' = "beforeStimulate"
           /\ \A d \in Calls :
                 /\ d <= issued \/ held.toolResults[d] + held.refusals[d] = 0
                 /\ held.toolResults[d] + held.refusals[d] \in {0, 1}
                 /\ (held.kind = "tool" /\ d = held.pending) =>
                       held.toolResults[d] + held.refusals[d] = 0 /\ d <= issued
                 /\ Settled(d)' = held.toolResults[d] + held.refusals[d]
                            + (IF held.kind = "tool" /\ d = held.pending THEN 1 ELSE 0)
<1>1. held.toolResults \in [Calls -> Nat] /\ held.refusals \in [Calls -> Nat]
  BY DEF TypeOK, HandlesOK, Session
<1>2. Valid(held) /\ UNCHANGED <<issued, acted>> /\ pc' = "beforeStimulate"
  BY DEF Resume
<1>3. \A d \in Calls : Settled(d)' = held.toolResults[d] + held.refusals[d]
                            + (IF held.kind = "tool" /\ d = held.pending THEN 1 ELSE 0)
  <2>1. CASE held.kind = "tool"
    <3>1. held.pending \in Calls
      BY <2>1 DEF CallLedger, Shapes, Shape, TypeOK, HandlesOK, Session
    <3>2. \A d \in Calls : toolResults'[d] = IF d = held.pending THEN held.toolResults[d] + 1
                                             ELSE held.toolResults[d]
      BY <1>1, <2>1, <3>1, Bumped DEF Resume
    <3>3. QED
      BY <1>1, <2>1, <3>2 DEF Resume, Settled
  <2>2. CASE held.kind # "tool"
    BY <1>1, <2>2 DEF Resume, Settled
  <2>3. QED
    BY <2>1, <2>2
<1>4. \A d \in Calls : d = held.pending => d \in NonZero(held.pending) \cup held.remaining
  BY Numbers DEF NonZero
<1>5. \A d \in Calls : /\ d <= issued \/ held.toolResults[d] + held.refusals[d] = 0
                       /\ held.toolResults[d] + held.refusals[d] <= 1
                       /\ d = held.pending => held.toolResults[d] + held.refusals[d] = 0 /\ d <= issued
  BY <1>2, <1>4, Numbers DEF CallLedger, Handles
<1>6. QED
  BY <1>1, <1>2, <1>3, <1>5

LEMMA CurExecuted ==
    ASSUME TypeOK, CallLedger, Admitted
    PROVE  /\ cur \in Calls /\ acted[cur] = 0 /\ verdict[cur] = "Allow"
           /\ cur <= issued
           /\ \A d \in Calls : acted'[d] = IF d = cur THEN 1 ELSE acted[d]
<1>1. cur \in Calls
  BY DEF Admitted, CallLedger, Passes, TypeOK, BatchOK
<1>2. acted[cur] = 0 /\ cur <= issued /\ verdict[cur] = "Allow"
  BY <1>1 DEF Admitted, CallLedger, OwesSerial, Owes, Executions
<1>3. \A d \in Calls : acted'[d] = IF d = cur THEN acted[d] + 1 ELSE acted[d]
  BY <1>1, Bumped DEF Admitted, Executed, TypeOK, HistoryOK
<1>4. QED
  BY <1>1, <1>2, <1>3

LEMMA BatchExecuted ==
    ASSUME TypeOK, CallLedger, NEW c \in Calls, ExecStart(c)
    PROVE  /\ c \in todo /\ c \in batch /\ acted[c] = 0 /\ verdict[c] = "Allow"
           /\ c <= issued
           /\ \A d \in Calls : acted'[d] = IF d = c THEN 1 ELSE acted[d]
<1>1. c \in todo /\ c \in batch
  BY DEF ExecStart, CallLedger, Passes
<1>2. acted[c] = 0 /\ verdict[c] = "Allow" /\ c <= issued
  BY <1>1 DEF ExecStart, CallLedger, OwesBatch, Owes, Executions
<1>3. \A d \in Calls : acted'[d] = IF d = c THEN acted[d] + 1 ELSE acted[d]
  BY Bumped DEF ExecStart, Executed, TypeOK, HistoryOK
<1>4. QED
  BY <1>1, <1>2, <1>3

LEMMA CurRuled ==
    ASSUME TypeOK, CallLedger, SerialGate \/ ResolveCallAsk \/ GatePhase
    PROVE  /\ cur' \in Calls /\ acted[cur'] = 0
           /\ pc = "gatePhase" => cur' \in todo /\ todo' = todo \ {cur'}
           /\ \A d \in Calls \ {cur'} : verdict'[d] = verdict[d]
           /\ pc' \in {"approved", "admit", "batchAllowed"} => verdict'[cur'] = "Allow"
           /\ UNCHANGED <<acted, issued, batch>>
           /\ pc' \in CASE pc = "gate"      -> {"asked", "refused", "admit", "settle"}
                        [] pc = "gatePhase" -> {"batchAsked", "batchRefused", "batchAllowed", "settle"}
                        [] OTHER            -> {"approved", "declined", "settle"}
<1> USE DEF TypeOK, BatchOK, HistoryOK, HandlesOK
<1>1. CASE SerialGate
  <2>1. cur' = cur /\ cur \in Calls
    BY <1>1 DEF SerialGate, CallLedger, Passes, batchVars, passVars
  <2>2. acted[cur] = 0
    BY <1>1, <2>1 DEF SerialGate, CallLedger, OwesSerial, Owes
  <2>3. PICK answer \in SandboxAnswers :
            /\ verdict' = [verdict EXCEPT ![cur] = NormalizeRuling(answer)]
            /\ pc' = "admit" => NormalizeRuling(answer) = "Allow"
            /\ pc' \in {"asked", "refused", "admit", "settle"}
    BY <1>1 DEF SerialGate, Gate, Yield, NormalizeRuling, Verdicts
  <2>4. QED
    BY <1>1, <2>1, <2>2, <2>3 DEF SerialGate, countVars, batchVars, passVars
<1>2. CASE ResolveCallAsk
  <2>1. cur' = sess.pending /\ cur' \in Calls
    BY <1>2 DEF ResolveCallAsk, CallLedger, Shapes, Shape, Session
  <2>2. acted[cur'] = 0
    BY <1>2, <2>1 DEF ResolveCallAsk, CallLedger, OwesHandle, Owes
  <2>3. PICK resp \in Responses :
            /\ verdict' = [verdict EXCEPT ![sess.pending] = ResolveAsk(resp)]
            /\ pc' = "approved" => ResolveAsk(resp) = "Allow"
            /\ pc' \in {"approved", "declined", "settle"}
    BY <1>2 DEF ResolveCallAsk, Yield
  <2>4. QED
    BY <1>2, <2>1, <2>2, <2>3 DEF ResolveCallAsk, countVars
<1>3. CASE GatePhase
  <2>1. cur' \in todo /\ cur' \in Calls /\ todo' = todo \ {cur'}
    BY <1>3 DEF GatePhase, TakeNext
  <2>2. acted[cur'] = 0
    BY <1>3, <2>1 DEF GatePhase, CallLedger, OwesBatch, Owes
  <2>3. PICK answer \in SandboxAnswers :
            /\ verdict' = [verdict EXCEPT ![cur'] = NormalizeRuling(answer)]
            /\ pc' = "batchAllowed" => NormalizeRuling(answer) = "Allow"
            /\ pc' \in {"batchAsked", "batchRefused", "batchAllowed", "settle"}
    BY <1>3 DEF GatePhase, TakeNext, Gate, Yield, NormalizeRuling, Verdicts
  <2>4. QED
    BY <1>3, <2>1, <2>2, <2>3 DEF GatePhase, countVars
<1>4. QED
  BY <1>1, <1>2, <1>3

-----------------------------------------------------------------------------
(* One lemma per part of the ledger. *)

LEMMA OwesNothingStep == TypeOK /\ CallLedger /\ Next => OwesNothing'
<1> SUFFICES ASSUME TypeOK /\ CallLedger, Next PROVE OwesNothing'
  OBVIOUS
<1>1. CASE Pause \/ Unpause \/ Cancel
  BY <1>1
    DEF OwesNothing, CallLedger, Owes, Settled, Pause, Unpause, Cancel,
       countVars, histVars, lcVars, trackVars, yieldVars
<1>2. CASE EnterLoop
  BY <1>2
    DEF OwesNothing, CallLedger, Owes, Settled, OwesHandle, Valid, EnterLoop,
       Silent, countVars, histVars, lcVars, trackVars, yieldVars
<1>3. CASE Rest \/ SayResolved
  BY <1>3
    DEF OwesNothing, CallLedger, Owes, Settled, OwesHandle, Rest, Silent,
       Yield, SayResolved, Say, countVars, histVars, lcVars, trackVars,
       yieldVars
<1>4. CASE SerialOver
  BY <1>4
    DEF OwesNothing, CallLedger, Owes, Settled, OwesSerial, SerialOver,
       BatchOver, Silent, countVars, histVars, lcVars, trackVars, yieldVars
<1>5. CASE FeedbackPhaseOver
  BY <1>5
    DEF OwesNothing, CallLedger, Owes, Settled, OwesBatch, NonZero,
       FeedbackPhaseOver, BatchOver, Silent, countVars, histVars, lcVars,
       trackVars, yieldVars
<1>6. CASE Utter
  BY <1>6
    DEF OwesNothing, CallLedger, Owes, Settled, OwesRound, Utter, Say, Yield,
       countVars, histVars, lcVars, trackVars, yieldVars
<1>7. CASE Round \/ Prepare \/ AnnounceDone
  BY <1>7
    DEF OwesNothing, CallLedger, Owes, Settled, Round, GapPoint, Silent,
       Prepare, Yield, AnnounceDone, countVars, histVars, lcVars, trackVars,
       yieldVars
<1>8. CASE Settling
  BY <1>8
    DEF OwesNothing, Settling, CallLedger, OrganFails, Silent, EmitError,
       Yield, ErrorEvent, CycleGuarantees, countVars, histVars, lcVars,
       trackVars, yieldVars
<1>9. CASE CyclePrelude \/ EmitAudit
  BY <1>9
    DEF OwesNothing, CallLedger, CyclePrelude, Silent, EmitAudit, Yield,
       countVars, histVars, lcVars, trackVars, yieldVars
<1>10. CASE Parking
  BY <1>10
    DEF OwesNothing, Parking, CallLedger, Suspend, Yield, WaitInput,
       PauseState, PausedEvent, countVars, histVars, lcVars, trackVars,
       yieldVars
<1>11. CASE Think \/ ReportUsage \/ EmitGate \/ UtterAsk \/ Acting \/
          DoneEvent
  BY <1>11
    DEF OwesNothing, CallLedger, Think, Silent, ReportUsage, Yield, EmitGate,
       UtterAsk, Acting, DoneEvent, countVars, histVars, lcVars, trackVars,
       yieldVars
<1>12. CASE ResolveCallAsk \/ Approved \/ ResolveUtteranceAsk
  BY <1>12
    DEF OwesNothing, CallLedger, ResolveCallAsk, Yield, Approved,
       ResolveUtteranceAsk, countVars, histVars, lcVars, trackVars, yieldVars
<1>13. CASE Run \/ SerialCall \/ SerialGap \/ SerialGate \/ SerialAsked \/
          SerialRefused \/ Admitted \/ Feedback
  BY <1>13
    DEF OwesNothing, CallLedger, Run, Silent, SerialCall, Yield, SerialGap,
       GapPoint, SerialGate, Gate, SerialAsked, SerialRefused, AfterCall,
       Refuse, Admitted, Executed, Feedback, RecordResult, countVars,
       histVars, lcVars, trackVars, yieldVars
<1>14. CASE Announce \/ BatchGap \/ GatePhase \/ GatePhaseOver \/ BatchAsked
          \/ BatchRefused \/ BatchAllowed \/ (\E c \in Calls : ExecStart(c) \/
          ExecReturn(c)) \/ ExecOver \/ FeedbackPhase
  BY <1>14
    DEF OwesNothing, CallLedger, Announce, Yield, BatchGap, GapPoint, Silent,
       GatePhase, Gate, GatePhaseOver, BatchAsked, AskTail, BatchRefused,
       Refuse, BatchAllowed, ExecStart, Executed, ExecReturn, ExecOver,
       FeedbackPhase, RecordResult, countVars, histVars, lcVars, trackVars,
       yieldVars
<1>15. CASE Cycle \/ Resume \/ ResumeRefused
  BY <1>15
    DEF OwesNothing, CallLedger, Cycle, Resume, ResumeRefused, countVars,
       histVars, lcVars, trackVars, yieldVars
<1>16. QED
  BY <1>1, <1>2, <1>3, <1>4, <1>5, <1>6, <1>7, <1>8, <1>9, <1>10, <1>11,
     <1>12, <1>13, <1>14, <1>15
    DEF Next, LoopStep, Entering, Thinking, Resuming, Serial, Parallel,
       HostStep

LEMMA OwesHandleStep == TypeOK /\ CallLedger /\ Next => OwesHandle'
<1> SUFFICES ASSUME TypeOK /\ CallLedger, Next PROVE OwesHandle'
  OBVIOUS
<1>1. CASE Pause \/ Unpause \/ Cancel
  BY <1>1
    DEF OwesHandle, CallLedger, Owes, Settled, Pause, Unpause, Cancel,
       countVars, histVars, lcVars, loopVars, trackVars, yieldVars
<1>2. CASE Cycle
  BY <1>2, Numbers, BoundsAssumption
    DEF OwesHandle, CallLedger, Owes, Settled, NoneOf, ZeroSession, Valid,
       Calls, Cycle, countVars, histVars, lcVars, loopVars, trackVars,
       yieldVars
<1>3. CASE Resume
  BY <1>3, Resumed, Numbers
    DEF OwesHandle, Owes, CallLedger, Handles, Shapes, Shape, Valid, NonZero,
       Resume
<1>4. CASE CyclePrelude \/ EmitAudit
  BY <1>4
    DEF OwesHandle, CallLedger, Owes, Settled, CyclePrelude, Silent,
       EmitAudit, Yield, countVars, histVars, lcVars, loopVars, trackVars,
       yieldVars
<1>5. CASE EnterLoop
  BY <1>5
    DEF OwesHandle, CallLedger, Owes, Settled, NonZero, Shapes, Shape,
       EnterLoop, Silent, countVars, histVars, lcVars, loopVars, trackVars,
       yieldVars
<1>6. CASE ResolveUtteranceAsk \/ SayResolved
  BY <1>6
    DEF OwesHandle, CallLedger, Owes, Settled, ResolveUtteranceAsk, Yield,
       SayResolved, Say, countVars, histVars, lcVars, loopVars, trackVars,
       yieldVars
<1>7. CASE SerialRefused \/ Feedback
  <2>1. pc \in {"refused", "declined", "feedback"} /\ cur \notin todo
    BY <1>7 DEF SerialRefused, Feedback, CallLedger, Passes
  <2>2. \A c \in Calls : /\ c \in {cur} \cup todo <=> c <= issued /\ Settled(c) = 0
                         /\ c \in todo => acted[c] = 0
    BY <2>1 DEF CallLedger, OwesSerial, Owes
  <2>3. \A c \in Calls : c \in todo <=> c <= issued /\ Settled(c)' = 0
    BY <1>7, <2>1, <2>2, CurAnswered
  <2>4. /\ UNCHANGED <<issued, acted, todo, sess>>
        /\ pc' \in {AfterCall, "settle"}
    BY <1>7 DEF SerialRefused, Feedback, Refuse, RecordResult, Yield, histVars,
                countVars, batchVars, passVars, loopVars
  <2>5. pc' = "rest" => todo = sess.remaining
    BY <2>1, <2>4 DEF AfterCall, CallLedger, Stages
  <2>6. QED
    BY <2>2, <2>3, <2>4, <2>5 DEF AfterCall, OwesHandle, Owes
<1>8. CASE Settling
  BY <1>8
    DEF OwesHandle, Settling, CallLedger, OrganFails, Silent, EmitError,
       Yield, ErrorEvent, CycleGuarantees, countVars, histVars, lcVars,
       loopVars, trackVars, yieldVars
<1>9. CASE Parking
  BY <1>9
    DEF OwesHandle, Parking, CallLedger, Suspend, Yield, WaitInput,
       PauseState, PausedEvent, countVars, histVars, lcVars, loopVars,
       trackVars, yieldVars
<1>10. CASE Thinking
  BY <1>10
    DEF OwesHandle, Thinking, CallLedger, Round, GapPoint, Silent, Prepare,
       Yield, Think, ReportUsage, EmitGate, UtterAsk, Utter, Say, Acting,
       AnnounceDone, DoneEvent, countVars, histVars, lcVars, loopVars,
       trackVars, yieldVars
<1>11. CASE ResolveCallAsk \/ Approved \/ Rest
  BY <1>11
    DEF OwesHandle, CallLedger, ResolveCallAsk, Yield, Approved, Rest, Silent,
       countVars, histVars, lcVars, loopVars, trackVars, yieldVars
<1>12. CASE Run \/ SerialCall \/ SerialOver \/ SerialGap \/ SerialGate \/
          SerialAsked \/ Admitted
  BY <1>12
    DEF OwesHandle, CallLedger, Run, Silent, SerialCall, Yield, SerialOver,
       BatchOver, SerialGap, GapPoint, SerialGate, Gate, SerialAsked,
       Admitted, Executed, countVars, histVars, lcVars, loopVars, trackVars,
       yieldVars
<1>13. CASE Parallel
  BY <1>13
    DEF OwesHandle, Parallel, CallLedger, Announce, Yield, BatchGap, GapPoint,
       Silent, GatePhase, Gate, GatePhaseOver, BatchAsked, AskTail,
       BatchRefused, Refuse, BatchAllowed, ExecStart, Executed, ExecReturn,
       ExecOver, FeedbackPhase, RecordResult, FeedbackPhaseOver, BatchOver,
       countVars, histVars, lcVars, loopVars, trackVars, yieldVars
<1>14. CASE ResumeRefused
  BY <1>14
    DEF OwesHandle, CallLedger, ResumeRefused, countVars, histVars, lcVars,
       loopVars, trackVars, yieldVars
<1>15. QED
  BY <1>1, <1>2, <1>3, <1>4, <1>5, <1>6, <1>7, <1>8, <1>9, <1>10, <1>11,
     <1>12, <1>13, <1>14
    DEF Next, LoopStep, Entering, Resuming, Serial, HostStep

LEMMA OwesRoundStep == TypeOK /\ CallLedger /\ Next => OwesRound'
<1> SUFFICES ASSUME TypeOK /\ CallLedger, Next PROVE OwesRound'
  OBVIOUS
<1>1. CASE Pause \/ Unpause \/ Cancel
  BY <1>1
    DEF OwesRound, CallLedger, Owes, Settled, Pause, Unpause, Cancel,
       batchVars, countVars, histVars, lcVars, trackVars, yieldVars
<1>2. CASE Think
  BY <1>2, BoundsAssumption, Numbers
    DEF OwesRound, CallLedger, Owes, Settled, OwesNothing, Answers,
       Executions, Live, Calls, TypeOK, HistoryOK, Think, Silent, batchVars,
       countVars, histVars, lcVars, trackVars, yieldVars
<1>3. CASE ReportUsage \/ EmitGate \/ Utter \/ Acting \/ Announce \/ Run
  BY <1>3
    DEF OwesRound, CallLedger, Owes, Settled, ReportUsage, Yield, EmitGate,
       Utter, Say, Acting, Announce, Run, Silent, batchVars, countVars,
       histVars, lcVars, trackVars, yieldVars
<1>4. CASE Rest
  BY <1>4
    DEF OwesRound, CallLedger, Owes, Settled, OwesHandle, Rest, Silent, Yield,
       batchVars, countVars, histVars, lcVars, trackVars, yieldVars
<1>5. CASE Settling
  BY <1>5
    DEF OwesRound, Settling, CallLedger, OrganFails, Silent, EmitError, Yield,
       ErrorEvent, CycleGuarantees, batchVars, countVars, histVars, lcVars,
       trackVars, yieldVars
<1>6. CASE Entering
  BY <1>6
    DEF OwesRound, Entering, CallLedger, CyclePrelude, Silent, EmitAudit,
       Yield, EnterLoop, batchVars, countVars, histVars, lcVars, trackVars,
       yieldVars
<1>7. CASE Parking
  BY <1>7
    DEF OwesRound, Parking, CallLedger, Suspend, Yield, WaitInput, PauseState,
       PausedEvent, batchVars, countVars, histVars, lcVars, trackVars,
       yieldVars
<1>8. CASE Round \/ Prepare \/ UtterAsk \/ AnnounceDone \/ DoneEvent
  BY <1>8
    DEF OwesRound, CallLedger, Round, GapPoint, Silent, Prepare, Yield,
       UtterAsk, AnnounceDone, DoneEvent, batchVars, countVars, histVars,
       lcVars, trackVars, yieldVars
<1>9. CASE ResolveCallAsk \/ Approved \/ ResolveUtteranceAsk \/ SayResolved
  BY <1>9
    DEF OwesRound, CallLedger, ResolveCallAsk, Yield, Approved,
       ResolveUtteranceAsk, SayResolved, Say, batchVars, countVars, histVars,
       lcVars, trackVars, yieldVars
<1>10. CASE SerialCall \/ SerialOver \/ SerialGap \/ SerialGate \/ SerialAsked
          \/ SerialRefused \/ Admitted \/ Feedback
  BY <1>10
    DEF OwesRound, CallLedger, SerialCall, Yield, SerialOver, BatchOver,
       Silent, SerialGap, GapPoint, SerialGate, Gate, SerialAsked,
       SerialRefused, AfterCall, Refuse, Admitted, Executed, Feedback,
       RecordResult, batchVars, countVars, histVars, lcVars, trackVars,
       yieldVars
<1>11. CASE BatchGap \/ GatePhase \/ GatePhaseOver \/ BatchAsked \/
          BatchRefused \/ BatchAllowed \/ (\E c \in Calls : ExecStart(c) \/
          ExecReturn(c)) \/ ExecOver \/ FeedbackPhase \/ FeedbackPhaseOver
  BY <1>11
    DEF OwesRound, CallLedger, BatchGap, GapPoint, Silent, GatePhase, Gate,
       Yield, GatePhaseOver, BatchAsked, AskTail, BatchRefused, Refuse,
       BatchAllowed, ExecStart, Executed, ExecReturn, ExecOver, FeedbackPhase,
       RecordResult, FeedbackPhaseOver, BatchOver, batchVars, countVars,
       histVars, lcVars, trackVars, yieldVars
<1>12. CASE Cycle \/ Resume \/ ResumeRefused
  BY <1>12
    DEF OwesRound, CallLedger, Cycle, FreshRun, Resume, ResumeRefused,
       batchVars, countVars, histVars, lcVars, trackVars, yieldVars
<1>13. QED
  BY <1>1, <1>2, <1>3, <1>4, <1>5, <1>6, <1>7, <1>8, <1>9, <1>10, <1>11, <1>12
    DEF Next, LoopStep, Thinking, Resuming, Serial, Parallel, HostStep

LEMMA OwesSerialStep == TypeOK /\ CallLedger /\ Next => OwesSerial'
<1> SUFFICES ASSUME TypeOK /\ CallLedger, Next PROVE OwesSerial'
  OBVIOUS
<1>1. CASE Pause \/ Unpause \/ Cancel
  BY <1>1
    DEF OwesSerial, CallLedger, Owes, Settled, Pause, Unpause, Cancel,
       batchVars, countVars, histVars, lcVars, passVars, trackVars, yieldVars
<1>2. CASE Run
  BY <1>2
    DEF OwesSerial, CallLedger, Owes, Settled, OwesRound, Run, Silent,
       batchVars, countVars, histVars, lcVars, passVars, trackVars, yieldVars
<1>3. CASE SerialCall
  BY <1>3
    DEF OwesSerial, CallLedger, Owes, Settled, SerialCall, TakeNext, Yield,
       batchVars, countVars, histVars, lcVars, passVars, trackVars, yieldVars
<1>4. CASE SerialGap \/ SerialGate \/ Approved
  BY <1>4
    DEF OwesSerial, CallLedger, Owes, Settled, SerialGap, GapPoint, Silent,
       SerialGate, Gate, Yield, Approved, batchVars, countVars, histVars,
       lcVars, passVars, trackVars, yieldVars
<1>5. CASE ResolveCallAsk
  BY <1>5
    DEF OwesSerial, CallLedger, Owes, Settled, OwesHandle, ResolveCallAsk,
       Yield, batchVars, countVars, histVars, lcVars, passVars, trackVars,
       yieldVars
<1>6. CASE SerialRefused \/ Feedback
  <2>1. pc \in {"refused", "declined", "feedback"} /\ cur \notin todo
    BY <1>6 DEF SerialRefused, Feedback, CallLedger, Passes
  <2>2. \A c \in Calls : /\ c \in {cur} \cup todo <=> c <= issued /\ Settled(c) = 0
                         /\ c \in todo => acted[c] = 0
    BY <2>1 DEF CallLedger, OwesSerial, Owes
  <2>3. \A c \in Calls : c \in todo <=> c <= issued /\ Settled(c)' = 0
    BY <1>6, <2>1, <2>2, CurAnswered
  <2>4. /\ UNCHANGED <<issued, acted, todo, sess>>
        /\ pc' \in {AfterCall, "settle"}
    BY <1>6 DEF SerialRefused, Feedback, Refuse, RecordResult, Yield, histVars,
                countVars, batchVars, passVars, loopVars
  <2>5. QED
    BY <2>2, <2>3, <2>4 DEF AfterCall, OwesSerial, Owes
<1>7. CASE Admitted
  BY <1>7, CurExecuted
    DEF OwesSerial, CallLedger, Owes, Settled, Passes, Admitted, Executed,
       Silent, batchVars, countVars, histVars, lcVars, passVars, trackVars,
       yieldVars
<1>8. CASE Settling
  BY <1>8
    DEF OwesSerial, Settling, CallLedger, OrganFails, Silent, EmitError,
       Yield, ErrorEvent, CycleGuarantees, DropPass, batchVars, countVars,
       histVars, lcVars, passVars, trackVars, yieldVars
<1>9. CASE Entering
  BY <1>9
    DEF OwesSerial, Entering, CallLedger, CyclePrelude, Silent, EmitAudit,
       Yield, EnterLoop, batchVars, countVars, histVars, lcVars, passVars,
       trackVars, yieldVars
<1>10. CASE Parking
  BY <1>10
    DEF OwesSerial, Parking, CallLedger, Suspend, Yield, WaitInput,
       PauseState, PausedEvent, batchVars, countVars, histVars, lcVars,
       passVars, trackVars, yieldVars
<1>11. CASE Thinking
  BY <1>11
    DEF OwesSerial, Thinking, CallLedger, Round, GapPoint, Silent, Prepare,
       Yield, Think, ReportUsage, EmitGate, UtterAsk, Utter, Say, Acting,
       AnnounceDone, DoneEvent, batchVars, countVars, histVars, lcVars,
       passVars, trackVars, yieldVars
<1>12. CASE ResolveUtteranceAsk \/ SayResolved \/ Rest
  BY <1>12
    DEF OwesSerial, CallLedger, ResolveUtteranceAsk, Yield, SayResolved, Say,
       Rest, Silent, batchVars, countVars, histVars, lcVars, passVars,
       trackVars, yieldVars
<1>13. CASE SerialOver \/ SerialAsked
  BY <1>13
    DEF OwesSerial, CallLedger, SerialOver, BatchOver, Silent, SerialAsked,
       batchVars, countVars, histVars, lcVars, passVars, trackVars, yieldVars
<1>14. CASE Parallel
  BY <1>14
    DEF OwesSerial, Parallel, CallLedger, Announce, TakeNext, Yield, BatchGap,
       GapPoint, Silent, GatePhase, Gate, GatePhaseOver, BatchAsked, AskTail,
       BatchRefused, Refuse, BatchAllowed, ExecStart, Executed, ExecReturn,
       ExecOver, FeedbackPhase, RecordResult, FeedbackPhaseOver, BatchOver,
       batchVars, countVars, histVars, lcVars, passVars, trackVars, yieldVars
<1>15. CASE Cycle \/ Resume \/ ResumeRefused
  BY <1>15
    DEF OwesSerial, CallLedger, Cycle, Resume, ResumeRefused, batchVars,
       countVars, histVars, lcVars, passVars, trackVars, yieldVars
<1>16. QED
  BY <1>1, <1>2, <1>3, <1>4, <1>5, <1>6, <1>7, <1>8, <1>9, <1>10, <1>11,
     <1>12, <1>13, <1>14, <1>15
    DEF Next, LoopStep, Resuming, Serial, HostStep

LEMMA OwesBatchStep == TypeOK /\ CallLedger /\ Next => OwesBatch'
<1> SUFFICES ASSUME TypeOK /\ CallLedger, Next PROVE OwesBatch'
  OBVIOUS
<1>1. CASE Pause \/ Unpause \/ Cancel
  BY <1>1
    DEF OwesBatch, CallLedger, Owes, Settled, Pause, Unpause, Cancel,
       batchVars, countVars, histVars, lcVars, passVars, trackVars, yieldVars
<1>2. CASE BatchGap
  BY <1>2
    DEF OwesBatch, CallLedger, Owes, Settled, OwesRound, Passes, BatchGap,
       GapPoint, Silent, batchVars, countVars, histVars, lcVars, passVars,
       trackVars, yieldVars
<1>3. CASE GatePhase
  BY <1>3
    DEF OwesBatch, CallLedger, Owes, Settled, GatePhase, Gate, Yield,
       TakeNext, batchVars, countVars, histVars, lcVars, passVars, trackVars,
       yieldVars
<1>4. CASE GatePhaseOver
  BY <1>4
    DEF OwesBatch, CallLedger, Owes, Settled, GatePhaseOver, Silent,
       batchVars, countVars, histVars, lcVars, passVars, trackVars, yieldVars
<1>5. CASE BatchRefused
  <2>1. pc = "batchRefused" /\ cur \notin batch \cup todo
    BY <1>5 DEF BatchRefused, CallLedger, Passes
  <2>2. \A c \in Calls :
           /\ c \in {cur} \cup batch \cup todo <=> c <= issued /\ Settled(c) = 0
           /\ c \in batch \cup todo => acted[c] = 0
    BY <2>1 DEF CallLedger, OwesBatch, Owes
  <2>3. \A c \in Calls : c \in batch \cup todo <=> c <= issued /\ Settled(c)' = 0
    BY <1>5, <2>1, <2>2, CurAnswered
  <2>4. UNCHANGED <<issued, acted, todo, batch>> /\ pc' \in {"gatePhase", "settle"}
    BY <1>5 DEF BatchRefused, Refuse, Yield, histVars, countVars
  <2>5. QED
    BY <2>2, <2>3, <2>4 DEF OwesBatch, Owes
<1>6. CASE BatchAllowed
  BY <1>6
    DEF OwesBatch, CallLedger, Owes, Settled, BatchAllowed, Silent, batchVars,
       countVars, histVars, lcVars, passVars, trackVars, yieldVars
<1>7. CASE (\E c \in Calls : ExecStart(c))
  BY <1>7, BatchExecuted
    DEF OwesBatch, CallLedger, Owes, Settled, Passes, ExecStart, Executed,
       batchVars, countVars, histVars, lcVars, passVars, trackVars, yieldVars
<1>8. CASE (\E c \in Calls : ExecReturn(c))
  BY <1>8
    DEF OwesBatch, CallLedger, Owes, Settled, ExecReturn, batchVars,
       countVars, histVars, lcVars, passVars, trackVars, yieldVars
<1>9. CASE ExecOver
  BY <1>9
    DEF OwesBatch, CallLedger, Owes, Settled, Passes, NonZero, ExecOver,
       Silent, batchVars, countVars, histVars, lcVars, passVars, trackVars,
       yieldVars
<1>10. CASE FeedbackPhase
  <2>1. \A c \in Calls :
           /\ c \in todo \cup NonZero(suspendAt) <=> c <= issued /\ Settled(c) = 0
           /\ c \in todo \cup NonZero(suspendAt) => acted[c] = 1
    BY <1>10 DEF FeedbackPhase, CallLedger, OwesBatch, Owes
  <2>2. cur' \in Calls /\ NoCall \notin Calls /\ suspendAt \notin todo
    BY <1>10, FedBack, Numbers DEF FeedbackPhase, CallLedger, Passes, TypeOK, BatchOK
  <2>3. \A c \in Calls : c \in todo' \cup NonZero(suspendAt') <=> c <= issued /\ Settled(c)' = 0
    <3>1. CASE suspendAt = NoCall /\ suspendAt' = cur' /\ UNCHANGED <<toolResults, refusals>>
      BY <1>10, <2>1, <2>2, <3>1, FedBack DEF NonZero, Settled
    <3>2. CASE /\ suspendAt' = suspendAt
               /\ \A d \in Calls : Settled(d)' = IF d = cur' THEN 1 ELSE Settled(d)
      BY <1>10, <2>1, <2>2, <3>2, FedBack DEF NonZero
    <3>3. QED
      BY <1>10, <3>1, <3>2, FedBack
  <2>4. /\ UNCHANGED <<issued, acted>> /\ pc' \in {"feedbackPhase", "settle"}
        /\ \A c \in todo' \cup NonZero(suspendAt') : c \in todo \cup NonZero(suspendAt)
    BY <1>10, FedBack DEF FeedbackPhase, RecordResult, Silent, Yield, NonZero, histVars, countVars
  <2>5. QED
    BY <2>1, <2>3, <2>4 DEF OwesBatch, Owes
<1>11. CASE Settling
  BY <1>11
    DEF OwesBatch, Settling, CallLedger, OrganFails, Silent, EmitError, Yield,
       ErrorEvent, CycleGuarantees, DropPass, batchVars, countVars, histVars,
       lcVars, passVars, trackVars, yieldVars
<1>12. CASE Entering
  BY <1>12
    DEF OwesBatch, Entering, CallLedger, CyclePrelude, Silent, EmitAudit,
       Yield, EnterLoop, batchVars, countVars, histVars, lcVars, passVars,
       trackVars, yieldVars
<1>13. CASE Parking
  BY <1>13
    DEF OwesBatch, Parking, CallLedger, Suspend, Yield, WaitInput, PauseState,
       PausedEvent, batchVars, countVars, histVars, lcVars, passVars,
       trackVars, yieldVars
<1>14. CASE Thinking
  BY <1>14
    DEF OwesBatch, Thinking, CallLedger, Round, GapPoint, Silent, Prepare,
       Yield, Think, ReportUsage, EmitGate, UtterAsk, Utter, Say, Acting,
       AnnounceDone, DoneEvent, batchVars, countVars, histVars, lcVars,
       passVars, trackVars, yieldVars
<1>15. CASE Resuming
  BY <1>15
    DEF OwesBatch, Resuming, CallLedger, ResolveCallAsk, Yield, Approved,
       ResolveUtteranceAsk, SayResolved, Say, Rest, Silent, batchVars,
       countVars, histVars, lcVars, passVars, trackVars, yieldVars
<1>16. CASE Serial
  BY <1>16
    DEF OwesBatch, Serial, CallLedger, Run, Silent, SerialCall, TakeNext,
       Yield, SerialOver, BatchOver, SerialGap, GapPoint, SerialGate, Gate,
       SerialAsked, SerialRefused, AfterCall, Refuse, Admitted, Executed,
       Feedback, RecordResult, batchVars, countVars, histVars, lcVars,
       passVars, trackVars, yieldVars
<1>17. CASE Announce \/ BatchAsked \/ FeedbackPhaseOver
  BY <1>17
    DEF OwesBatch, CallLedger, Announce, TakeNext, Yield, BatchAsked, AskTail,
       Silent, FeedbackPhaseOver, BatchOver, batchVars, countVars, histVars,
       lcVars, passVars, trackVars, yieldVars
<1>18. CASE Cycle \/ Resume \/ ResumeRefused
  BY <1>18
    DEF OwesBatch, CallLedger, Cycle, Resume, ResumeRefused, batchVars,
       countVars, histVars, lcVars, passVars, trackVars, yieldVars
<1>19. QED
  BY <1>1, <1>2, <1>3, <1>4, <1>5, <1>6, <1>7, <1>8, <1>9, <1>10, <1>11,
     <1>12, <1>13, <1>14, <1>15, <1>16, <1>17, <1>18
    DEF Next, LoopStep, Parallel, HostStep

LEMMA OwesSuspensionStep == TypeOK /\ CallLedger /\ Next => OwesSuspension'
<1> SUFFICES ASSUME TypeOK /\ CallLedger, Next PROVE OwesSuspension'
  OBVIOUS
<1>1. CASE Pause \/ Unpause \/ Cancel
  BY <1>1
    DEF OwesSuspension, CallLedger, Owes, Settled, Pause, Unpause, Cancel,
       batchVars, countVars, histVars, lcVars, trackVars, yieldVars
<1>2. CASE Suspend \/ PauseState
  BY <1>2
    DEF OwesSuspension, CallLedger, Owes, Settled, Suspend, Yield, PauseState,
       batchVars, countVars, histVars, lcVars, trackVars, yieldVars
<1>3. CASE Round
  BY <1>3
    DEF OwesSuspension, CallLedger, Owes, Settled, OwesNothing, NonZero,
       Round, GapPoint, Suspension, Silent, batchVars, countVars, histVars,
       lcVars, trackVars, yieldVars
<1>4. CASE UtterAsk
  BY <1>4
    DEF OwesSuspension, CallLedger, Owes, Settled, OwesRound, NonZero,
       UtterAsk, Suspension, Silent, batchVars, countVars, histVars, lcVars,
       trackVars, yieldVars
<1>5. CASE SerialGap \/ SerialAsked
  BY <1>5, Numbers
    DEF OwesSuspension, CallLedger, Owes, Settled, OwesSerial, NonZero,
       Passes, SerialGap, GapPoint, Suspension, Silent, SerialAsked,
       batchVars, countVars, histVars, lcVars, trackVars, yieldVars
<1>6. CASE Admitted
  BY <1>6, CurExecuted, Numbers
    DEF OwesSuspension, CallLedger, Owes, Settled, OwesSerial, NonZero,
       Passes, Admitted, Executed, Suspension, Silent, batchVars, countVars,
       histVars, lcVars, trackVars, yieldVars
<1>7. CASE BatchGap
  BY <1>7
    DEF OwesSuspension, CallLedger, Owes, Settled, OwesRound, NonZero,
       BatchGap, GapPoint, Suspension, Silent, batchVars, countVars, histVars,
       lcVars, trackVars, yieldVars
<1>8. CASE BatchAsked
  BY <1>8, Numbers
    DEF OwesSuspension, CallLedger, Owes, Settled, OwesBatch, Passes, NonZero,
       BatchAsked, AskTail, Suspension, Silent, batchVars, countVars,
       histVars, lcVars, trackVars, yieldVars
<1>9. CASE FeedbackPhaseOver
  BY <1>9
    DEF OwesSuspension, CallLedger, Owes, Settled, OwesBatch, NonZero,
       FeedbackPhaseOver, BatchOver, Silent, Suspension, batchVars, countVars,
       histVars, lcVars, trackVars, yieldVars
<1>10. CASE Settling
  BY <1>10
    DEF OwesSuspension, Settling, CallLedger, OrganFails, Silent, EmitError,
       Yield, ErrorEvent, CycleGuarantees, Suspension, batchVars, countVars,
       histVars, lcVars, trackVars, yieldVars
<1>11. CASE Entering
  BY <1>11
    DEF OwesSuspension, Entering, CallLedger, CyclePrelude, Silent, EmitAudit,
       Yield, EnterLoop, batchVars, countVars, histVars, lcVars, trackVars,
       yieldVars
<1>12. CASE WaitInput \/ PausedEvent
  BY <1>12
    DEF OwesSuspension, CallLedger, WaitInput, Yield, PausedEvent, batchVars,
       countVars, histVars, lcVars, trackVars, yieldVars
<1>13. CASE Prepare \/ Think \/ ReportUsage \/ EmitGate \/ Utter \/ Acting \/
          AnnounceDone \/ DoneEvent
  BY <1>13
    DEF OwesSuspension, CallLedger, Prepare, Yield, Think, Silent,
       ReportUsage, EmitGate, Utter, Say, Acting, AnnounceDone, DoneEvent,
       batchVars, countVars, histVars, lcVars, trackVars, yieldVars
<1>14. CASE Resuming
  BY <1>14
    DEF OwesSuspension, Resuming, CallLedger, ResolveCallAsk, Yield, Approved,
       ResolveUtteranceAsk, SayResolved, Say, Rest, Silent, batchVars,
       countVars, histVars, lcVars, trackVars, yieldVars
<1>15. CASE Run \/ SerialCall \/ SerialOver \/ SerialGate \/ SerialRefused \/
          Feedback
  BY <1>15
    DEF OwesSuspension, CallLedger, Run, Silent, SerialCall, Yield,
       SerialOver, BatchOver, SerialGate, Gate, SerialRefused, AfterCall,
       Refuse, Feedback, RecordResult, batchVars, countVars, histVars, lcVars,
       trackVars, yieldVars
<1>16. CASE Announce \/ GatePhase \/ GatePhaseOver \/ BatchRefused \/
          BatchAllowed \/ (\E c \in Calls : ExecStart(c) \/ ExecReturn(c)) \/
          ExecOver \/ FeedbackPhase
  BY <1>16
    DEF OwesSuspension, CallLedger, Announce, Yield, GatePhase, Gate,
       GatePhaseOver, Silent, BatchRefused, Refuse, BatchAllowed, ExecStart,
       Executed, ExecReturn, ExecOver, FeedbackPhase, RecordResult, batchVars,
       countVars, histVars, lcVars, trackVars, yieldVars
<1>17. CASE Cycle \/ Resume \/ ResumeRefused
  BY <1>17
    DEF OwesSuspension, CallLedger, Cycle, FreshRun, Resume, ResumeRefused,
       batchVars, countVars, histVars, lcVars, trackVars, yieldVars
<1>18. QED
  BY <1>1, <1>2, <1>3, <1>4, <1>5, <1>6, <1>7, <1>8, <1>9, <1>10, <1>11,
     <1>12, <1>13, <1>14, <1>15, <1>16, <1>17
    DEF Next, LoopStep, Parking, Thinking, Serial, Parallel, HostStep

LEMMA ShapesStep == TypeOK /\ CallLedger /\ Next => Shapes'
<1> SUFFICES ASSUME TypeOK /\ CallLedger, Next PROVE Shapes'
  OBVIOUS
<1>1. CASE CycleGuarantees \/ Cycle \/ Resume \/ ResumeRefused
  BY <1>1
    DEF Shapes, CallLedger, Shape, ZeroSession, Valid, CycleGuarantees,
       Suspension, Silent, Cycle, FreshRun, Resume, ResumeRefused, batchVars,
       envVars, loopVars, yieldVars
<1>2. CASE WaitInput \/ PausedEvent
  BY <1>2
    DEF Shapes, CallLedger, Shape, Snapshot, WaitInput, Yield, PausedEvent,
       batchVars, envVars, loopVars, yieldVars
<1>3. CASE Round \/ UtterAsk
  BY <1>3
    DEF Shapes, CallLedger, Shape, TypeOK, BatchOK, Calls, NoCall, Round,
       GapPoint, Suspension, Silent, UtterAsk, batchVars, envVars, loopVars,
       yieldVars
<1>4. CASE SerialGap \/ SerialAsked \/ Admitted
  BY <1>4
    DEF Shapes, CallLedger, Shape, Passes, TypeOK, BatchOK, Calls, NoCall,
       SerialGap, GapPoint, Suspension, Silent, SerialAsked, Admitted,
       batchVars, envVars, loopVars, yieldVars
<1>5. CASE BatchGap \/ BatchAsked \/ FeedbackPhaseOver
  BY <1>5
    DEF Shapes, CallLedger, Shape, Passes, TypeOK, BatchOK, Calls, NoCall,
       BatchGap, GapPoint, Suspension, Silent, BatchAsked, AskTail,
       FeedbackPhaseOver, BatchOver, batchVars, envVars, loopVars, yieldVars
<1>6. CASE OrganFails \/ EmitError \/ ErrorEvent
  BY <1>6
    DEF Shapes, CallLedger, Shape, OrganFails, Silent, EmitError, Yield,
       ErrorEvent, batchVars, envVars, loopVars, yieldVars
<1>7. CASE Entering
  BY <1>7
    DEF Shapes, Entering, CallLedger, Shape, CyclePrelude, Silent, EmitAudit,
       Yield, EnterLoop, batchVars, envVars, loopVars, yieldVars
<1>8. CASE Suspend \/ PauseState
  BY <1>8
    DEF Shapes, CallLedger, Shape, Suspend, Yield, PauseState, batchVars,
       envVars, loopVars, yieldVars
<1>9. CASE Prepare \/ Think \/ ReportUsage \/ EmitGate \/ Utter \/ Acting \/
          AnnounceDone \/ DoneEvent
  BY <1>9
    DEF Shapes, CallLedger, Shape, Prepare, Yield, Think, Silent, ReportUsage,
       EmitGate, Utter, Say, Acting, AnnounceDone, DoneEvent, batchVars,
       envVars, loopVars, yieldVars
<1>10. CASE Resuming
  BY <1>10
    DEF Shapes, Resuming, CallLedger, Shape, ResolveCallAsk, Yield, Approved,
       ResolveUtteranceAsk, SayResolved, Say, Rest, Silent, batchVars,
       envVars, loopVars, yieldVars
<1>11. CASE Run \/ SerialCall \/ SerialOver \/ SerialGate \/ SerialRefused \/
          Feedback
  BY <1>11
    DEF Shapes, CallLedger, Shape, Run, Silent, SerialCall, Yield, SerialOver,
       BatchOver, SerialGate, Gate, SerialRefused, AfterCall, Refuse,
       Feedback, RecordResult, batchVars, envVars, loopVars, yieldVars
<1>12. CASE Announce \/ GatePhase \/ GatePhaseOver \/ BatchRefused \/
          BatchAllowed \/ (\E c \in Calls : ExecStart(c) \/ ExecReturn(c)) \/
          ExecOver \/ FeedbackPhase
  BY <1>12
    DEF Shapes, CallLedger, Shape, Announce, Yield, GatePhase, Gate,
       GatePhaseOver, Silent, BatchRefused, Refuse, BatchAllowed, ExecStart,
       ExecReturn, ExecOver, FeedbackPhase, RecordResult, batchVars, envVars,
       loopVars, yieldVars
<1>13. CASE Pause \/ Unpause \/ Cancel
  BY <1>13
    DEF Shapes, CallLedger, Shape, Pause, Unpause, Cancel, batchVars, envVars,
       loopVars, yieldVars
<1>14. QED
  BY <1>1, <1>2, <1>3, <1>4, <1>5, <1>6, <1>7, <1>8, <1>9, <1>10, <1>11,
     <1>12, <1>13
    DEF Next, LoopStep, Settling, Parking, Thinking, Serial, Parallel,
       HostStep

LEMMA PassesStep == TypeOK /\ CallLedger /\ Next => Passes'
<1> SUFFICES ASSUME TypeOK /\ CallLedger, Next PROVE Passes'
  OBVIOUS
<1>1. CASE SerialCall \/ FeedbackPhase
  BY <1>1
    DEF Passes, CallLedger, TypeOK, BatchOK, TracksOK, Calls, NoCall,
       SerialCall, TakeNext, Yield, FeedbackPhase, RecordResult, Silent,
       batchVars, lcVars, passVars, trackVars, yieldVars
<1>2. CASE GatePhase
  BY <1>2
    DEF Passes, CallLedger, Settled, TypeOK, BatchOK, TracksOK, Calls, NoCall,
       GatePhase, Gate, Yield, TakeNext, batchVars, lcVars, passVars,
       trackVars, yieldVars
<1>3. CASE ResolveCallAsk
  BY <1>3
    DEF Passes, CallLedger, Shapes, Shape, ResolveCallAsk, Yield, batchVars,
       lcVars, passVars, trackVars, yieldVars
<1>4. CASE BatchRefused
  BY <1>4, CurAnswered
    DEF Passes, CallLedger, TypeOK, BatchOK, TracksOK, Calls, NoCall,
       BatchRefused, Refuse, Yield, batchVars, lcVars, passVars, trackVars,
       yieldVars
<1>5. CASE BatchAllowed
  BY <1>5
    DEF Passes, CallLedger, Settled, TypeOK, BatchOK, TracksOK, Calls, NoCall,
       BatchAllowed, Silent, batchVars, lcVars, passVars, trackVars, yieldVars
<1>6. CASE Run \/ BatchGap
  BY <1>6
    DEF Passes, CallLedger, TypeOK, BatchOK, TracksOK, Calls, NoCall, Run,
       Silent, BatchGap, GapPoint, batchVars, lcVars, passVars, trackVars,
       yieldVars
<1>7. CASE GatePhaseOver
  BY <1>7
    DEF Passes, CallLedger, GatePhaseOver, Silent, batchVars, lcVars,
       passVars, trackVars, yieldVars
<1>8. CASE ExecOver
  BY <1>8
    DEF Passes, CallLedger, TypeOK, BatchOK, TracksOK, Calls, NoCall,
       ExecOver, Silent, batchVars, lcVars, passVars, trackVars, yieldVars
<1>9. CASE (\E c \in Calls : ExecStart(c))
  BY <1>9
    DEF Passes, CallLedger, Settled, ExecStart, batchVars, lcVars, passVars,
       trackVars, yieldVars
<1>10. CASE Settling
  BY <1>10
    DEF Passes, Settling, CallLedger, Settled, OrganFails, Silent, EmitError,
       Yield, ErrorEvent, CycleGuarantees, DropPass, batchVars, lcVars,
       passVars, trackVars, yieldVars
<1>11. CASE Entering
  BY <1>11
    DEF Passes, Entering, CallLedger, Settled, CyclePrelude, Silent,
       EmitAudit, Yield, EnterLoop, batchVars, lcVars, passVars, trackVars,
       yieldVars
<1>12. CASE Parking
  BY <1>12
    DEF Passes, Parking, CallLedger, Settled, Suspend, Yield, WaitInput,
       PauseState, PausedEvent, batchVars, lcVars, passVars, trackVars,
       yieldVars
<1>13. CASE Thinking
  BY <1>13
    DEF Passes, Thinking, CallLedger, Settled, Round, GapPoint, Silent,
       Prepare, Yield, Think, ReportUsage, EmitGate, UtterAsk, Utter, Say,
       Acting, AnnounceDone, DoneEvent, batchVars, lcVars, passVars,
       trackVars, yieldVars
<1>14. CASE Approved \/ ResolveUtteranceAsk \/ SayResolved \/ Rest
  BY <1>14
    DEF Passes, CallLedger, Settled, Approved, Yield, ResolveUtteranceAsk,
       SayResolved, Say, Rest, Silent, batchVars, lcVars, passVars, trackVars,
       yieldVars
<1>15. CASE SerialOver \/ SerialGap \/ SerialGate \/ SerialAsked \/
          SerialRefused \/ Admitted \/ Feedback
  BY <1>15
    DEF Passes, CallLedger, Settled, SerialOver, BatchOver, Silent, SerialGap,
       GapPoint, SerialGate, Gate, Yield, SerialAsked, SerialRefused,
       AfterCall, Refuse, Admitted, Feedback, RecordResult, batchVars, lcVars,
       passVars, trackVars, yieldVars
<1>16. CASE Announce \/ BatchAsked \/ (\E c \in Calls : ExecReturn(c)) \/
          FeedbackPhaseOver
  BY <1>16
    DEF Passes, CallLedger, Settled, Announce, TakeNext, Yield, BatchAsked,
       AskTail, Silent, ExecReturn, FeedbackPhaseOver, BatchOver, batchVars,
       lcVars, passVars, trackVars, yieldVars
<1>17. CASE HostStep
  BY <1>17
    DEF Passes, HostStep, CallLedger, Settled, Pause, Unpause, Cancel, Cycle,
       FreshRun, Resume, ResumeRefused, batchVars, lcVars, passVars,
       trackVars, yieldVars
<1>18. QED
  BY <1>1, <1>2, <1>3, <1>4, <1>5, <1>6, <1>7, <1>8, <1>9, <1>10, <1>11,
     <1>12, <1>13, <1>14, <1>15, <1>16, <1>17
    DEF Next, LoopStep, Resuming, Serial, Parallel

LEMMA StagesStep == TypeOK /\ CallLedger /\ Next => Stages'
<1> SUFFICES ASSUME TypeOK /\ CallLedger, Next PROVE Stages'
  OBVIOUS
<1>1. CASE Settling
  BY <1>1
    DEF Stages, Settling, CallLedger, Shapes, OrganFails, Silent, EmitError,
       Yield, ErrorEvent, CycleGuarantees, DropPass, batchVars, loopVars,
       passVars, yieldVars
<1>2. CASE Entering
  BY <1>2
    DEF Stages, Entering, CallLedger, Shapes, CyclePrelude, Silent, EmitAudit,
       Yield, EnterLoop, batchVars, loopVars, passVars, yieldVars
<1>3. CASE Parking
  BY <1>3
    DEF Stages, Parking, CallLedger, Shapes, Suspend, Yield, WaitInput,
       PauseState, PausedEvent, batchVars, loopVars, passVars, yieldVars
<1>4. CASE Thinking
  BY <1>4
    DEF Stages, Thinking, CallLedger, Shapes, Round, GapPoint, Silent,
       Prepare, Yield, Think, ReportUsage, EmitGate, UtterAsk, Utter, Say,
       Acting, AnnounceDone, DoneEvent, batchVars, loopVars, passVars,
       yieldVars
<1>5. CASE Resuming
  BY <1>5
    DEF Stages, Resuming, CallLedger, Shapes, ResolveCallAsk, Yield, Approved,
       ResolveUtteranceAsk, SayResolved, Say, Rest, Silent, batchVars,
       loopVars, passVars, yieldVars
<1>6. CASE Serial
  BY <1>6
    DEF Stages, Serial, CallLedger, Shapes, Run, Silent, SerialCall, TakeNext,
       Yield, SerialOver, BatchOver, SerialGap, GapPoint, SerialGate, Gate,
       SerialAsked, SerialRefused, AfterCall, Refuse, Admitted, Feedback,
       RecordResult, batchVars, loopVars, passVars, yieldVars
<1>7. CASE Parallel
  BY <1>7
    DEF Stages, Parallel, CallLedger, Shapes, Announce, TakeNext, Yield,
       BatchGap, GapPoint, Silent, GatePhase, Gate, GatePhaseOver, BatchAsked,
       AskTail, BatchRefused, Refuse, BatchAllowed, ExecStart, ExecReturn,
       ExecOver, FeedbackPhase, RecordResult, FeedbackPhaseOver, BatchOver,
       batchVars, loopVars, passVars, yieldVars
<1>8. CASE HostStep
  BY <1>8
    DEF Stages, HostStep, CallLedger, Shapes, Pause, Unpause, Cancel, Cycle,
       Resume, ResumeRefused, batchVars, loopVars, passVars, yieldVars
<1>9. QED
  BY <1>1, <1>2, <1>3, <1>4, <1>5, <1>6, <1>7, <1>8
    DEF Next, LoopStep

LEMMA AnswersStep == TypeOK /\ CallLedger /\ Next => Answers'
<1> SUFFICES ASSUME TypeOK /\ CallLedger, Next PROVE Answers'
  OBVIOUS
<1>1. CASE Think
  BY <1>1
    DEF Answers, CallLedger, Live, Settled, TypeOK, HistoryOK, Calls, Think,
       Silent, countVars, histVars, lcVars, trackVars, yieldVars
<1>2. CASE SerialRefused \/ Feedback \/ BatchRefused
  BY <1>2, CurAnswered, Numbers
    DEF CallLedger, Answers, Live, SerialRefused, Feedback, BatchRefused,
       histVars, countVars
<1>3. CASE FeedbackPhase
  BY <1>3, FedBack, Numbers
    DEF CallLedger, Answers, Live, Settled, FeedbackPhase, histVars, countVars
<1>4. CASE Cycle
  BY <1>4
    DEF Answers, CallLedger, Live, Settled, NoneOf, TypeOK, HistoryOK, Cycle,
       countVars, histVars, lcVars, trackVars, yieldVars
<1>5. CASE Resume
  BY <1>5, Resumed, Numbers
    DEF Answers
<1>6. CASE Settling
  BY <1>6
    DEF Answers, Settling, CallLedger, Live, Settled, OrganFails, Silent,
       EmitError, Yield, ErrorEvent, CycleGuarantees, countVars, histVars,
       lcVars, trackVars, yieldVars
<1>7. CASE Entering
  BY <1>7
    DEF Answers, Entering, CallLedger, Live, Settled, CyclePrelude, Silent,
       EmitAudit, Yield, EnterLoop, countVars, histVars, lcVars, trackVars,
       yieldVars
<1>8. CASE Parking
  BY <1>8
    DEF Answers, Parking, CallLedger, Live, Settled, Suspend, Yield,
       WaitInput, PauseState, PausedEvent, countVars, histVars, lcVars,
       trackVars, yieldVars
<1>9. CASE Round \/ Prepare \/ ReportUsage \/ EmitGate \/ UtterAsk \/ Utter \/
          Acting \/ AnnounceDone \/ DoneEvent
  BY <1>9
    DEF Answers, CallLedger, Live, Settled, Round, GapPoint, Silent, Prepare,
       Yield, ReportUsage, EmitGate, UtterAsk, Utter, Say, Acting,
       AnnounceDone, DoneEvent, countVars, histVars, lcVars, trackVars,
       yieldVars
<1>10. CASE Resuming
  BY <1>10
    DEF Answers, Resuming, CallLedger, Live, Settled, ResolveCallAsk, Yield,
       Approved, ResolveUtteranceAsk, SayResolved, Say, Rest, Silent,
       countVars, histVars, lcVars, trackVars, yieldVars
<1>11. CASE Run \/ SerialCall \/ SerialOver \/ SerialGap \/ SerialGate \/
          SerialAsked \/ Admitted
  BY <1>11
    DEF Answers, CallLedger, Live, Settled, Run, Silent, SerialCall, Yield,
       SerialOver, BatchOver, SerialGap, GapPoint, SerialGate, Gate,
       SerialAsked, Admitted, countVars, histVars, lcVars, trackVars,
       yieldVars
<1>12. CASE Announce \/ BatchGap \/ GatePhase \/ GatePhaseOver \/ BatchAsked
          \/ BatchAllowed \/ (\E c \in Calls : ExecStart(c) \/ ExecReturn(c))
          \/ ExecOver \/ FeedbackPhaseOver
  BY <1>12
    DEF Answers, CallLedger, Live, Settled, Announce, Yield, BatchGap,
       GapPoint, Silent, GatePhase, Gate, GatePhaseOver, BatchAsked, AskTail,
       BatchAllowed, ExecStart, ExecReturn, ExecOver, FeedbackPhaseOver,
       BatchOver, countVars, histVars, lcVars, trackVars, yieldVars
<1>13. CASE Pause \/ Unpause \/ Cancel \/ ResumeRefused
  BY <1>13
    DEF Answers, CallLedger, Live, Settled, Pause, Unpause, Cancel,
       ResumeRefused, countVars, histVars, lcVars, trackVars, yieldVars
<1>14. QED
  BY <1>1, <1>2, <1>3, <1>4, <1>5, <1>6, <1>7, <1>8, <1>9, <1>10, <1>11,
     <1>12, <1>13
    DEF Next, LoopStep, Thinking, Serial, Parallel, HostStep

LEMMA ExecutionsStep == TypeOK /\ CallLedger /\ Next => Executions'
<1> SUFFICES ASSUME TypeOK /\ CallLedger, Next PROVE Executions'
  OBVIOUS
<1>1. CASE Think
  BY <1>1
    DEF Executions, CallLedger, TypeOK, HistoryOK, BatchOK, Calls, NoCall,
       Think, Silent, auditVars, batchVars, countVars, histVars, passVars,
       yieldVars
<1>2. CASE EmitGate \/ ResolveUtteranceAsk
  BY <1>2
    DEF Executions, CallLedger, EmitGate, Yield, ResolveUtteranceAsk,
       auditVars, batchVars, countVars, histVars, passVars, yieldVars
<1>3. CASE ResolveCallAsk \/ SerialGate
  BY <1>3, CurRuled, Numbers
    DEF CallLedger, Executions, ResolveCallAsk, SerialGate
<1>4. CASE GatePhase
  BY <1>4, CurRuled, Numbers
    DEF CallLedger, Executions, GatePhase, TypeOK, BatchOK, Passes
<1>5. CASE Admitted
  BY <1>5, CurExecuted, Numbers
    DEF CallLedger, Executions, Admitted, Silent, countVars, auditVars
<1>6. CASE (\E c \in Calls : ExecStart(c))
  BY <1>6, BatchExecuted, Numbers
    DEF CallLedger, Executions, ExecStart, countVars, auditVars, yieldVars
<1>7. CASE BatchAllowed
  BY <1>7
    DEF Executions, CallLedger, BatchAllowed, Silent, auditVars, batchVars,
       countVars, histVars, passVars, yieldVars
<1>8. CASE Run \/ BatchGap
  BY <1>8
    DEF Executions, CallLedger, Passes, Run, Silent, BatchGap, GapPoint,
       auditVars, batchVars, countVars, histVars, passVars, yieldVars
<1>9. CASE Cycle
  BY <1>9
    DEF Executions, CallLedger, NoneOf, TypeOK, HistoryOK, Cycle, auditVars,
       batchVars, countVars, histVars, passVars, yieldVars
<1>10. CASE Settling
  BY <1>10
    DEF Executions, Settling, CallLedger, OrganFails, Silent, EmitError,
       Yield, ErrorEvent, CycleGuarantees, DropPass, auditVars, batchVars,
       countVars, histVars, passVars, yieldVars
<1>11. CASE Entering
  BY <1>11
    DEF Executions, Entering, CallLedger, CyclePrelude, Silent, EmitAudit,
       Yield, EnterLoop, auditVars, batchVars, countVars, histVars, passVars,
       yieldVars
<1>12. CASE Parking
  BY <1>12
    DEF Executions, Parking, CallLedger, Suspend, Yield, WaitInput,
       PauseState, PausedEvent, auditVars, batchVars, countVars, histVars,
       passVars, yieldVars
<1>13. CASE Round \/ Prepare \/ ReportUsage \/ UtterAsk \/ Utter \/ Acting \/
          AnnounceDone \/ DoneEvent
  BY <1>13
    DEF Executions, CallLedger, Round, GapPoint, Silent, Prepare, Yield,
       ReportUsage, UtterAsk, Utter, Say, Acting, AnnounceDone, DoneEvent,
       auditVars, batchVars, countVars, histVars, passVars, yieldVars
<1>14. CASE Approved \/ SayResolved \/ Rest
  BY <1>14
    DEF Executions, CallLedger, Approved, Yield, SayResolved, Say, Rest,
       Silent, auditVars, batchVars, countVars, histVars, passVars, yieldVars
<1>15. CASE SerialCall \/ SerialOver \/ SerialGap \/ SerialAsked \/
          SerialRefused \/ Feedback
  BY <1>15
    DEF Executions, CallLedger, SerialCall, TakeNext, Yield, SerialOver,
       BatchOver, Silent, SerialGap, GapPoint, SerialAsked, SerialRefused,
       AfterCall, Refuse, Feedback, RecordResult, auditVars, batchVars,
       countVars, histVars, passVars, yieldVars
<1>16. CASE Announce \/ GatePhaseOver \/ BatchAsked \/ BatchRefused \/ (\E c
          \in Calls : ExecReturn(c)) \/ ExecOver \/ FeedbackPhase \/
          FeedbackPhaseOver
  BY <1>16
    DEF Executions, CallLedger, Announce, TakeNext, Yield, GatePhaseOver,
       Silent, BatchAsked, AskTail, BatchRefused, Refuse, ExecReturn,
       ExecOver, FeedbackPhase, RecordResult, FeedbackPhaseOver, BatchOver,
       auditVars, batchVars, countVars, histVars, passVars, yieldVars
<1>17. CASE Pause \/ Unpause \/ Cancel \/ Resume \/ ResumeRefused
  BY <1>17
    DEF Executions, CallLedger, Pause, Unpause, Cancel, Resume, ResumeRefused,
       auditVars, batchVars, countVars, histVars, passVars, yieldVars
<1>18. QED
  BY <1>1, <1>2, <1>3, <1>4, <1>5, <1>6, <1>7, <1>8, <1>9, <1>10, <1>11,
     <1>12, <1>13, <1>14, <1>15, <1>16, <1>17
    DEF Next, LoopStep, Thinking, Resuming, Serial, Parallel, HostStep

LEMMA HandlesStep == TypeOK /\ CallLedger /\ Next => Handles'
<1> SUFFICES ASSUME TypeOK /\ CallLedger, Next PROVE Handles'
  OBVIOUS
<1>1. CASE WaitInput \/ PausedEvent
  BY <1>1, Numbers
    DEF Handles, CallLedger, Owes, Settled, OwesSuspension, Answers, Live,
       Snapshot, TypeOK, TracksOK, WaitInput, Yield, PausedEvent, countVars,
       envVars, histVars, yieldVars
<1>2. CASE Cycle \/ Resume
  BY <1>2
    DEF Handles, Valid, ZeroSession, Cycle, Resume, countVars, envVars,
       histVars, yieldVars
<1>3. CASE ResumeRefused \/ CycleGuarantees \/ ErrorEvent \/ EmitError
  BY <1>3
    DEF Handles, CallLedger, Live, ResumeRefused, CycleGuarantees, Silent,
       ErrorEvent, Yield, EmitError, countVars, envVars, histVars, yieldVars
<1>4. CASE OrganFails
  BY <1>4
    DEF Handles, CallLedger, Live, OrganFails, Silent, countVars, envVars,
       histVars, yieldVars
<1>5. CASE Entering
  BY <1>5
    DEF Handles, Entering, CallLedger, Live, CyclePrelude, Silent, EmitAudit,
       Yield, EnterLoop, countVars, envVars, histVars, yieldVars
<1>6. CASE Suspend \/ PauseState
  BY <1>6
    DEF Handles, CallLedger, Live, Suspend, Yield, PauseState, countVars,
       envVars, histVars, yieldVars
<1>7. CASE Thinking
  BY <1>7
    DEF Handles, Thinking, CallLedger, Live, Round, GapPoint, Silent, Prepare,
       Yield, Think, ReportUsage, EmitGate, UtterAsk, Utter, Say, Acting,
       AnnounceDone, DoneEvent, countVars, envVars, histVars, yieldVars
<1>8. CASE Resuming
  BY <1>8
    DEF Handles, Resuming, CallLedger, Live, ResolveCallAsk, Yield, Approved,
       ResolveUtteranceAsk, SayResolved, Say, Rest, Silent, countVars,
       envVars, histVars, yieldVars
<1>9. CASE Serial
  BY <1>9
    DEF Handles, Serial, CallLedger, Live, Run, Silent, SerialCall, Yield,
       SerialOver, BatchOver, SerialGap, GapPoint, SerialGate, Gate,
       SerialAsked, SerialRefused, AfterCall, Refuse, Admitted, Executed,
       Feedback, RecordResult, countVars, envVars, histVars, yieldVars
<1>10. CASE Parallel
  BY <1>10
    DEF Handles, Parallel, CallLedger, Live, Announce, Yield, BatchGap,
       GapPoint, Silent, GatePhase, Gate, GatePhaseOver, BatchAsked, AskTail,
       BatchRefused, Refuse, BatchAllowed, ExecStart, Executed, ExecReturn,
       ExecOver, FeedbackPhase, RecordResult, FeedbackPhaseOver, BatchOver,
       countVars, envVars, histVars, yieldVars
<1>11. CASE Pause \/ Unpause \/ Cancel
  BY <1>11
    DEF Handles, CallLedger, Live, Pause, Unpause, Cancel, countVars, envVars,
       histVars, yieldVars
<1>12. QED
  BY <1>1, <1>2, <1>3, <1>4, <1>5, <1>6, <1>7, <1>8, <1>9, <1>10, <1>11
    DEF Next, LoopStep, Settling, Parking, HostStep

-----------------------------------------------------------------------------

LEMMA LedgerInit == Init => CallLedger
<1> SUFFICES ASSUME Init PROVE CallLedger
  OBVIOUS
<1>1. \A c \in Calls : acted[c] = 0
  BY DEF Init, NoneOf
<1>2. QED
  BY <1>1 DEF Init, CallLedger, OwesNothing, OwesHandle, OwesRound, OwesSerial,
     OwesBatch, OwesSuspension, Shapes, Shape, Passes, Stages, Answers, Live,
     Executions, Handles, ZeroSession, Valid

LEMMA LedgerStep == TypeOK /\ CallLedger /\ Next => CallLedger'
  BY OwesNothingStep, OwesHandleStep, OwesRoundStep, OwesSerialStep, OwesBatchStep, OwesSuspensionStep, ShapesStep, PassesStep, StagesStep, AnswersStep, ExecutionsStep, HandlesStep DEF CallLedger

LEMMA LedgerStutter == CallLedger /\ UNCHANGED vars => CallLedger'
<1> SUFFICES ASSUME CallLedger, UNCHANGED vars PROVE CallLedger'
  OBVIOUS
<1> USE DEF vars, yieldVars, loopVars, lcVars, trackVars, batchVars, passVars,
            envVars, hostVars, histVars, countVars
<1>1. (OwesNothing /\ OwesHandle /\ OwesRound)'
  BY DEF CallLedger, OwesNothing, OwesHandle, OwesRound, Owes, Settled
<1>2. (OwesSerial /\ OwesBatch /\ OwesSuspension)'
  BY DEF CallLedger, OwesSerial, OwesBatch, OwesSuspension, Owes, Settled
<1>3. (Shapes /\ Passes /\ Stages)'
  BY DEF CallLedger, Shapes, Shape, Passes, Settled, Stages
<1>4. (Answers /\ Executions /\ Handles)'
  BY DEF CallLedger, Answers, Live, Settled, Executions, auditVars, Handles
<1>5. QED
  BY <1>1, <1>2, <1>3, <1>4 DEF CallLedger

(* The ledger and the types are one inductive invariant. *)
THEOREM LedgerInvariant == Spec => [](TypeOK /\ CallLedger)
<1>1. Init => TypeOK /\ CallLedger
  BY TypeInit, LedgerInit
<1>2. TypeOK /\ CallLedger /\ [Next]_vars => (TypeOK /\ CallLedger)'
  <2> SUFFICES ASSUME TypeOK, CallLedger, [Next]_vars PROVE TypeOK' /\ CallLedger'
    OBVIOUS
  <2>1. CASE Next
    BY <2>1, TypeStep, LedgerStep DEF CallLedger
  <2>2. CASE UNCHANGED vars
    BY <2>2, TypeStutter, LedgerStutter
  <2>3. QED
    BY <2>1, <2>2
<1>3. QED
  BY <1>1, <1>2, PTL DEF Spec

(* Type correctness: every variable of the loop keeps its type, so a pause  *)
(* tail or a batch never holds the absent call (run, runParallel).          *)
THEOREM TypeCorrect == Spec => []TypeOK
  BY LedgerInvariant, PTL

(* At every control point the unanswered calls of the chain are exactly     *)
(* those the run, or the handle it left, has in hand (run, runParallel,     *)
(* snapshot, Resume).                                                       *)
THEOREM LedgerKept == Spec => []CallLedger
  BY LedgerInvariant, PTL

(* A tool executes at most once in a chain, and only under an Allow as the  *)
(* last audit record of its call (admitted, execPhase), whatever suspends   *)
(* the chain.                                                               *)
THEOREM ExecutesOnce == Spec => []ExecutesOnceUnderAllow
<1>1. TypeOK /\ CallLedger => ExecutesOnceUnderAllow
  BY DEF TypeOK, HistoryOK, CallLedger, Executions, ExecutesOnceUnderAllow
<1>2. QED
  BY <1>1, LedgerInvariant, PTL

(* A handle carries exactly the unanswered calls of its chain, and none of  *)
(* the ones it replays has executed (askTail, suspend, snapshot).           *)
THEOREM HandlesCarryOpenCalls == Spec => []HandleCarriesOpenCalls
<1>1. ASSUME TypeOK, CallLedger, Valid(held) PROVE
        /\ held.pending \notin held.remaining
        /\ {c \in Issued : held.toolResults[c] + held.refusals[c] = 0}
              = NonZero(held.pending) \cup held.remaining
        /\ \A c \in held.remaining : acted[c] = 0
        /\ held.pending # NoCall =>
              acted[held.pending] = IF held.kind = "tool" THEN 1 ELSE 0
  <2>1. held.pending \in {NoCall} \cup Calls /\ held.remaining \subseteq Calls
    BY <1>1 DEF TypeOK, HandlesOK, Session
  <2>2. \A c : c \in Issued <=> c \in Calls /\ c <= issued
    BY <1>1, BoundsAssumption DEF Issued, Calls, TypeOK, HistoryOK
  <2>3. held.pending \notin held.remaining
    BY <1>1 DEF CallLedger, Shapes, Shape
  <2>4. \A c \in Calls :
           c \in NonZero(held.pending) \cup held.remaining =>
              acted[c] = IF held.kind = "tool" /\ c = held.pending THEN 1 ELSE 0
    BY <1>1 DEF CallLedger, Handles
  <2>5. \A c \in Calls :
           c \in NonZero(held.pending) \cup held.remaining
              <=> c <= issued /\ held.toolResults[c] + held.refusals[c] = 0
    BY <1>1 DEF CallLedger, Handles
  <2>6. {c \in Issued : held.toolResults[c] + held.refusals[c] = 0}
           = NonZero(held.pending) \cup held.remaining
    BY <2>1, <2>2, <2>5 DEF NonZero
  <2>7. QED
    BY <2>1, <2>3, <2>4, <2>6 DEF NonZero
<1>2. TypeOK /\ CallLedger => HandleCarriesOpenCalls
  BY <1>1 DEF HandleCarriesOpenCalls, NonZero
<1>3. QED
  BY <1>2, LedgerInvariant, PTL
=============================================================================
