------------------------- MODULE DecisionLoopProofs -------------------------
(***************************************************************************)
(* The rest of what the decision loop guarantees: that its drafts, its     *)
(* stream, its rounds, its pause requests and its window are kept, and     *)
(* that it implements the contract about calls.  Each ledger of            *)
(* DecisionLoopLedger is shown inductive on top of the ledger of calls,    *)
(* one lemma per part and one case per group of actions; the theorems at   *)
(* the end read the properties off the ledgers.                            *)
(***************************************************************************)
EXTENDS DecisionLoopCalls, FiniteSetTheorems

-----------------------------------------------------------------------------
(* Drafts. *)

LEMMA HeldNotLive == CallLedger => (Valid(held) => ~Live)
  BY DEF CallLedger, Handles

LEMMA HeardTypes ==
    ASSUME TypeOK
    PROVE  /\ Len(heard) \in Nat /\ DOMAIN heard = 1 .. Len(heard)
           /\ \A i \in DOMAIN heard : heard[i] \in Utterances /\ heard[i].draft \in Nat
<1>1. heard \in Seq(Utterances)
  BY DEF TypeOK, TextsOK
<1>2. \A u \in Utterances : u.draft \in Nat
  BY DEF Utterances
<1>3. QED
  BY <1>1, <1>2

(* What is said is the waiting draft, or its denial, and it is said last. *)
LEMMA Said ==
    ASSUME TypeOK, DraftLedger, Utter \/ SayResolved
    PROVE  LET n == Len(heard)
               as == IF pc \in {"utterDraft", "sayDraft"} THEN "draft" ELSE "denial"
           IN  /\ n \in Nat /\ DOMAIN heard = 1 .. n /\ DOMAIN heard' = 1 .. n + 1
               /\ heard' = Append(heard, [draft |-> thinks, as |-> as])
               /\ out' = Append(out, [draft |-> thinks, as |-> as])
               /\ heard'[n + 1] = [draft |-> thinks, as |-> as]
               /\ \A i \in 1 .. n : heard'[i] = heard[i]
               /\ vetoes' = IF as = "denial" THEN vetoes \cup {thinks} ELSE vetoes
<1> DEFINE n == Len(heard)
           as == IF pc \in {"utterDraft", "sayDraft"} THEN "draft" ELSE "denial"
           said == [draft |-> thinks, as |-> as]
<1>1. /\ heard' = Append(heard, said) /\ out' = Append(out, said)
      /\ vetoes' = IF as = "denial" THEN vetoes \cup {thinks} ELSE vetoes
  BY DEF Utter, SayResolved, Say, DraftLedger, Waiting
<1>2. heard \in Seq(Utterances) /\ said \in Utterances
  BY DraftTypes DEF TypeOK, TextsOK, Utterances
<1>3. /\ n \in Nat /\ DOMAIN heard = 1 .. n /\ DOMAIN Append(heard, said) = 1 .. n + 1
      /\ Append(heard, said)[n + 1] = said
      /\ \A i \in 1 .. n : Append(heard, said)[i] = heard[i]
  BY <1>2
<1>4. QED
  BY <1>1, <1>3

(* A ruling on a draft, by the membrane or by the host, is about the one    *)
(* waiting.                                                                 *)
LEMMA DraftRuled ==
    ASSUME TypeOK, DraftLedger, EmitGate \/ ResolveUtteranceAsk
    PROVE  /\ thinks \in Drafts /\ UNCHANGED <<thinks, heard, out, vetoes, held>>
           /\ \A d \in Drafts \ {thinks} : draftRuling'[d] = draftRuling[d]
           /\ Vetoed' \ {thinks} = Vetoed \ {thinks}
           /\ thinks \notin Vetoed
           /\ pc' \in {"utterDraft", "sayDraft"} => draftRuling'[thinks] = "Allow"
           /\ pc' \in {"utterDenial", "sayDenial"} => draftRuling'[thinks] = "Deny"
           /\ pc' = "utterAsk" => draftRuling'[thinks] = "Ask"
           /\ pc' \in IF pc = "emitGate" THEN {"utterAsk", "utterDraft", "utterDenial", "settle"}
                                         ELSE {"sayDraft", "sayDenial", "settle"}
<1>1. thinks \in Drafts /\ UNCHANGED <<thinks, heard, out, vetoes, held>>
  BY DEF EmitGate, ResolveUtteranceAsk, DraftLedger, Waiting, DraftWaits, countVars,
         sayVars, lcVars, trackVars, envVars
<1>2. thinks \notin Vetoed
  BY DEF EmitGate, ResolveUtteranceAsk, DraftLedger, Waiting, DraftWaits
<1>3. draftRuling \in [Drafts -> Verdicts \cup {"none"}]
  BY DEF TypeOK, HistoryOK
<1>4. \E r \in Verdicts :
        /\ draftRuling' = [draftRuling EXCEPT ![thinks] = r]
        /\ pc' \in {"utterDraft", "sayDraft"} => r = "Allow"
        /\ pc' \in {"utterDenial", "sayDenial"} => r = "Deny"
        /\ pc' = "utterAsk" => r = "Ask"
        /\ pc' \in IF pc = "emitGate" THEN {"utterAsk", "utterDraft", "utterDenial", "settle"}
                                      ELSE {"sayDraft", "sayDenial", "settle"}
  <2>1. CASE EmitGate
    BY <2>1, Rulings DEF EmitGate, Yield, Verdicts
  <2>2. CASE ResolveUtteranceAsk
    <3>1. sess.draft = thinks
      BY <2>2 DEF ResolveUtteranceAsk, DraftLedger, Waiting
    <3>2. PICK resp \in Responses :
             /\ draftRuling' = [draftRuling EXCEPT ![thinks] = ResolveAsk(resp)]
             /\ pc' \in {IF ResolveAsk(resp) = "Allow" THEN "sayDraft" ELSE "sayDenial", "settle"}
      BY <2>2, <3>1 DEF ResolveUtteranceAsk, Yield
    <3>3. ResolveAsk(resp) \in {"Allow", "Deny"} /\ pc = "resolveSay"
      BY <2>2 DEF ResolveAsk, ResolveUtteranceAsk
    <3>4. QED
      BY <3>2, <3>3 DEF Verdicts
  <2>3. QED
    BY <2>1, <2>2
<1>5. \A d \in Drafts \ {thinks} : draftRuling'[d] = draftRuling[d]
  BY <1>3, <1>4
<1>6. QED
  BY <1>1, <1>2, <1>3, <1>4, <1>5 DEF Vetoed


LEMMA WaitingStep == TypeOK /\ CallLedger /\ DraftLedger /\ Next => Waiting'
<1> SUFFICES ASSUME TypeOK /\ CallLedger /\ DraftLedger, Next PROVE Waiting'
  OBVIOUS
<1>1. CASE Think
  <2>1. thinks' \in Drafts /\ thinks < thinks' /\ thinks \in Nat
    BY <1>1, BoundsAssumption DEF Think, TypeOK, HistoryOK, Drafts
  <2>2. thinks' \notin Vetoed'
    BY <1>1, <2>1, DraftTypes DEF DraftLedger, Waiting, Vetoed, Think, auditVars, Drafts
  <2>3. \A i \in DOMAIN heard : heard[i].draft <= thinks /\ heard[i].draft \in Nat
    BY HeardTypes DEF DraftLedger, Heard
  <2>4. \A i \in DOMAIN heard' : heard'[i].draft < thinks'
    BY <1>1, <2>1, <2>3 DEF Think, sayVars
  <2>5. QED
    BY <1>1, <2>1, <2>2, <2>4, HeldNotLive
      DEF DraftLedger, Waiting, DraftWaits, Pending, Withheld, Vetoed, Think, Silent,
          loopVars, envVars, auditVars, Live, Drafts
<1>2. CASE EmitGate \/ ResolveUtteranceAsk
  <2>1. pc' \in {"utterAsk", "utterDraft", "utterDenial", "sayDraft", "sayDenial", "settle"}
    BY <1>2, DraftRuled
  <2>2. \A d \in Vetoed' : d <= thinks'
    BY <1>2, DraftRuled, DraftTypes DEF DraftLedger, Waiting
  <2>3. ~Valid(held) /\ ~Valid(held') /\ thinks \in Drafts /\ thinks' = thinks /\ heard' = heard
    BY <1>2, HeldNotLive, DraftRuled DEF EmitGate, ResolveUtteranceAsk, Live
  <2>4. \A i \in DOMAIN heard : heard[i].draft < thinks
    BY <1>2 DEF DraftLedger, Waiting, DraftWaits, EmitGate, ResolveUtteranceAsk
  <2>5. thinks \in Vetoed' => pc' \in {"utterDenial", "sayDenial", "settle"}
    BY <1>2, <2>1, DraftRuled DEF Vetoed
  <2>6. pc' \in {"sayDraft", "sayDenial"} => Pending' /\ sess'.draft = thinks
    BY <1>2, <2>1, DraftRuled
      DEF DraftLedger, Waiting, Pending, EmitGate, ResolveUtteranceAsk, loopVars
  <2>7. QED
    BY <2>1, <2>2, <2>3, <2>4, <2>5, <2>6
      DEF Waiting, DraftWaits, Pending, Withheld
<1>3. CASE Utter \/ SayResolved
  <2>1. pc' \in {"done", "acting", "rest", "settle"} /\ ~Valid(held)
    BY <1>3, HeldNotLive DEF Utter, SayResolved, Say, Yield, Live
  <2>2. QED
    BY <1>3, <2>1
      DEF DraftLedger, Waiting, DraftWaits, Pending, Withheld, Vetoed, Utter, SayResolved,
          envVars, auditVars, countVars
<1>4. CASE WaitInput \/ PausedEvent
  BY <1>4, HeldNotLive
    DEF DraftLedger, Waiting, DraftWaits, Pending, Withheld, Vetoed, Snapshot,
       WaitInput, PausedEvent, Yield, loopVars, lcVars, batchVars, histVars,
       trackVars, countVars, auditVars, sayVars
<1>5. CASE Suspend \/ PauseState
  BY <1>5, HeldNotLive
    DEF DraftLedger, Waiting, DraftWaits, Pending, Withheld, Vetoed, Live,
       Suspend, PauseState, Yield, loopVars, trackVars, batchVars, envVars,
       histVars, countVars, auditVars, sayVars
<1>6. CASE Cycle \/ ResumeRefused
  <2>1. ~Valid(sess') /\ pc' \in {"beforeStimulate", "error"} /\ DOMAIN heard' \subseteq DOMAIN heard
    BY <1>6 DEF Cycle, ResumeRefused, Valid, ZeroSession
  <2>2. CASE Cycle
    <3>1. Vetoed' = {} /\ ~Valid(held') /\ pc' = "beforeStimulate"
      BY <2>2 DEF Vetoed, Cycle, Valid, ZeroSession
    <3>2. ~DraftWaits' /\ ~Pending'
      BY <2>1, <3>1 DEF DraftWaits, Pending, Withheld
    <3>3. QED
      BY <3>1, <3>2 DEF Waiting
  <2>3. CASE ResumeRefused
    BY <2>1, <2>3 DEF DraftLedger, Waiting, DraftWaits, Pending, Withheld, Vetoed, ResumeRefused,
       FreshRun, auditVars
  <2>4. QED
    BY <1>6, <2>2, <2>3
<1>7. CASE Resume
  BY <1>7
    DEF DraftLedger, Waiting, DraftWaits, Pending, Withheld, Vetoed, Valid,
       ZeroSession, Resume, FreshRun, auditVars
<1>8. CASE OrganFails \/ EmitError \/ ErrorEvent \/ CycleGuarantees
  BY <1>8, HeldNotLive
    DEF DraftLedger, Waiting, DraftWaits, Pending, Withheld, Vetoed,
       OrganFails, EmitError, ErrorEvent, CycleGuarantees, Silent, loopVars,
       lcVars, batchVars, envVars, histVars, Yield, trackVars, Suspension,
       countVars, auditVars, sayVars
<1>9. CASE CyclePrelude \/ EmitAudit \/ EnterLoop
  BY <1>9, HeldNotLive
    DEF DraftLedger, Waiting, DraftWaits, Pending, Withheld, Vetoed,
       CyclePrelude, EmitAudit, EnterLoop, Silent, loopVars, lcVars,
       batchVars, envVars, histVars, Yield, trackVars, countVars, auditVars,
       sayVars
<1>10. CASE Round \/ Prepare \/ ReportUsage \/ UtterAsk \/ Acting \/
          AnnounceDone \/ DoneEvent
  BY <1>10, HeldNotLive
    DEF DraftLedger, Waiting, DraftWaits, Pending, Withheld, Vetoed, Round,
       Prepare, ReportUsage, UtterAsk, Acting, AnnounceDone, DoneEvent,
       Silent, GapPoint, trackVars, envVars, histVars, Thinking, Yield,
       loopVars, batchVars, lcVars, Suspension, countVars, auditVars, sayVars,
       Think, EmitGate, Utter, Say
<1>11. CASE ResolveCallAsk \/ Approved \/ Rest
  BY <1>11, HeldNotLive
    DEF DraftLedger, Waiting, DraftWaits, Pending, Withheld, Vetoed,
       ResolveCallAsk, Approved, Rest, Yield, loopVars, lcVars, envVars,
       countVars, sayVars, Acting, trackVars, batchVars, histVars, Silent,
       auditVars
<1>12. CASE Run \/ SerialCall \/ SerialOver \/ SerialGap \/ SerialGate \/
          SerialAsked \/ SerialRefused \/ Admitted \/ Feedback
  BY <1>12, HeldNotLive
    DEF DraftLedger, Waiting, DraftWaits, Pending, Withheld, Vetoed, Run,
       SerialCall, SerialOver, SerialGap, SerialGate, SerialAsked,
       SerialRefused, Admitted, Feedback, Silent, loopVars, lcVars, envVars,
       histVars, Yield, BatchOver, GapPoint, Gate, batchVars, countVars,
       sayVars, Suspension, Refuse, AfterCall, auditVars, RecordResult,
       trackVars
<1>13. CASE Announce \/ BatchGap \/ GatePhase \/ GatePhaseOver \/ BatchAsked
          \/ BatchRefused \/ BatchAllowed \/ ExecOver \/ FeedbackPhase \/
          FeedbackPhaseOver \/ (\E c \in Calls : ExecStart(c) \/
          ExecReturn(c))
  BY <1>13, HeldNotLive
    DEF DraftLedger, Waiting, DraftWaits, Pending, Withheld, Vetoed, Announce,
       BatchGap, GatePhase, GatePhaseOver, BatchAsked, BatchRefused,
       BatchAllowed, ExecStart, ExecReturn, ExecOver, FeedbackPhase,
       FeedbackPhaseOver, Yield, loopVars, lcVars, envVars, histVars,
       GapPoint, Gate, countVars, sayVars, Silent, Suspension, Refuse,
       auditVars, yieldVars, RecordResult, BatchOver, trackVars
<1>14. CASE Pause \/ Unpause \/ Cancel
  BY <1>14, HeldNotLive
    DEF DraftLedger, Waiting, DraftWaits, Pending, Withheld, Vetoed, Pause,
       Unpause, Cancel, loopVars, lcVars, batchVars, histVars, yieldVars,
       trackVars, countVars, auditVars, sayVars
<1>15. QED
  BY <1>1, <1>2, <1>3, <1>4, <1>5, <1>6, <1>7, <1>8, <1>9, <1>10, <1>11,
     <1>12, <1>13, <1>14
    DEF Next, LoopStep, Settling, Entering, Parking, Thinking, Resuming, Serial,
        Parallel, HostStep

LEMMA RuledStep == TypeOK /\ CallLedger /\ DraftLedger /\ Next => Ruled'
<1> SUFFICES ASSUME TypeOK /\ CallLedger /\ DraftLedger, Next PROVE Ruled'
  OBVIOUS
<1>1. CASE EmitGate \/ ResolveUtteranceAsk
  BY <1>1, DraftRuled
    DEF DraftLedger, Ruled, EmitGate, ResolveUtteranceAsk, Yield, loopVars,
       lcVars, batchVars, envVars, countVars, sayVars, trackVars
<1>2. CASE OrganFails \/ EmitError \/ ErrorEvent \/ CycleGuarantees
  BY <1>2
    DEF DraftLedger, Ruled, OrganFails, EmitError, ErrorEvent,
       CycleGuarantees, Silent, loopVars, lcVars, batchVars, envVars,
       histVars, Yield, trackVars, Suspension, countVars, auditVars, sayVars
<1>3. CASE CyclePrelude \/ EmitAudit \/ EnterLoop
  BY <1>3
    DEF DraftLedger, Ruled, CyclePrelude, EmitAudit, EnterLoop, Silent,
       loopVars, lcVars, batchVars, envVars, histVars, Yield, trackVars,
       countVars, auditVars, sayVars
<1>4. CASE Suspend \/ WaitInput \/ PauseState \/ PausedEvent
  BY <1>4
    DEF DraftLedger, Ruled, Suspend, WaitInput, PauseState, PausedEvent,
       Yield, loopVars, trackVars, batchVars, envVars, histVars, lcVars,
       countVars, auditVars, sayVars
<1>5. CASE Round \/ Prepare \/ Think \/ ReportUsage \/ UtterAsk \/ Utter \/
          Acting \/ AnnounceDone \/ DoneEvent
  BY <1>5
    DEF DraftLedger, Ruled, Round, Prepare, Think, ReportUsage, UtterAsk,
       Utter, Acting, AnnounceDone, DoneEvent, Silent, GapPoint, trackVars,
       envVars, histVars, Thinking, Yield, loopVars, batchVars, lcVars,
       auditVars, sayVars, Suspension, Say, countVars, EmitGate
<1>6. CASE ResolveCallAsk \/ Approved \/ SayResolved \/ Rest
  BY <1>6
    DEF DraftLedger, Ruled, ResolveCallAsk, Approved, SayResolved, Rest,
       Yield, loopVars, lcVars, envVars, countVars, sayVars, Acting,
       trackVars, batchVars, histVars, Say, auditVars, Silent
<1>7. CASE Run \/ SerialCall \/ SerialOver \/ SerialGap \/ SerialGate \/
          SerialAsked \/ SerialRefused \/ Admitted \/ Feedback
  BY <1>7
    DEF DraftLedger, Ruled, Run, SerialCall, SerialOver, SerialGap,
       SerialGate, SerialAsked, SerialRefused, Admitted, Feedback, Silent,
       loopVars, lcVars, envVars, histVars, Yield, BatchOver, GapPoint, Gate,
       batchVars, countVars, sayVars, Suspension, Refuse, AfterCall,
       auditVars, RecordResult, trackVars
<1>8. CASE Announce \/ BatchGap \/ GatePhase \/ GatePhaseOver \/ BatchAsked \/
          BatchRefused \/ BatchAllowed \/ ExecOver \/ FeedbackPhase \/
          FeedbackPhaseOver \/ (\E c \in Calls : ExecStart(c) \/
          ExecReturn(c))
  BY <1>8
    DEF DraftLedger, Ruled, Announce, BatchGap, GatePhase, GatePhaseOver,
       BatchAsked, BatchRefused, BatchAllowed, ExecStart, ExecReturn,
       ExecOver, FeedbackPhase, FeedbackPhaseOver, Yield, loopVars, lcVars,
       envVars, histVars, GapPoint, Gate, countVars, sayVars, Silent,
       Suspension, Refuse, auditVars, yieldVars, RecordResult, BatchOver,
       trackVars
<1>9. CASE Pause \/ Unpause \/ Cancel \/ Cycle \/ Resume \/ ResumeRefused
  BY <1>9
    DEF DraftLedger, Ruled, Pause, Unpause, Cancel, Cycle, Resume,
       ResumeRefused, loopVars, lcVars, batchVars, histVars, yieldVars,
       FreshRun, auditVars, trackVars, countVars, sayVars
<1>10. QED
  BY <1>1, <1>2, <1>3, <1>4, <1>5, <1>6, <1>7, <1>8, <1>9
    DEF Next, LoopStep, Settling, Entering, Parking, Thinking, Resuming, Serial,
        Parallel, HostStep

LEMMA HeardStep == TypeOK /\ CallLedger /\ DraftLedger /\ Next => Heard'
<1> SUFFICES ASSUME TypeOK /\ CallLedger /\ DraftLedger, Next PROVE Heard'
  OBVIOUS
<1>1. CASE EmitGate \/ ResolveUtteranceAsk
  <2>1. \A i \in DOMAIN heard : heard[i].draft < thinks /\ heard[i].draft \in Nat
    BY <1>1, HeardTypes DEF DraftLedger, Waiting, DraftWaits, EmitGate, ResolveUtteranceAsk
  <2>2. thinks \in Nat /\ UNCHANGED <<thinks, heard>>
    BY <1>1, DraftTypes, DraftRuled
  <2>3. \A i \in DOMAIN heard : draftRuling'[heard[i].draft] = draftRuling[heard[i].draft]
    BY <1>1, <2>1, <2>2, DraftRuled DEF DraftLedger, Heard
  <2>4. QED
    BY <2>2, <2>3 DEF DraftLedger, Heard
<1>2. CASE Utter \/ SayResolved
  <2> DEFINE n == Len(heard)
             as == IF pc \in {"utterDraft", "sayDraft"} THEN "draft" ELSE "denial"
  <2>1. /\ n \in Nat /\ DOMAIN heard = 1 .. n /\ DOMAIN heard' = 1 .. n + 1
        /\ heard'[n + 1] = [draft |-> thinks, as |-> as]
        /\ \A i \in 1 .. n : heard'[i] = heard[i]
    BY <1>2, Said
  <2>2. UNCHANGED <<thinks, draftRuling>> /\ thinks \in Nat
    BY <1>2, DraftTypes DEF Utter, SayResolved, countVars, auditVars
  <2>3. /\ \A i \in 1 .. n : heard[i].draft < thinks /\ heard[i].draft \in Nat
        /\ draftRuling[thinks] = IF as = "draft" THEN "Allow" ELSE "Deny"
    BY <1>2, <2>1, HeardTypes
      DEF DraftLedger, Waiting, DraftWaits, Ruled, Utter, SayResolved
  <2>4. \A i \in 1 .. n : draftRuling[heard[i].draft] =
                IF heard[i].as = "draft" THEN "Allow" ELSE "Deny"
    BY <2>1 DEF DraftLedger, Heard
  <2>5. \A i, j \in 1 .. n : i < j => heard[i].draft < heard[j].draft
    BY <2>1 DEF DraftLedger, Heard
  <2>6. \A i \in 1 .. n + 1 : i \in 1 .. n \/ i = n + 1
    BY <2>1
  <2>7. \A i \in DOMAIN heard' :
          /\ heard'[i].draft \in Drafts /\ heard'[i].draft <= thinks'
          /\ draftRuling'[heard'[i].draft] = IF heard'[i].as = "draft" THEN "Allow" ELSE "Deny"
    BY <1>2, <2>1, <2>2, <2>3, <2>4, <2>6
      DEF DraftLedger, Heard, Waiting, DraftWaits, Utter, SayResolved
  <2>8. \A i, j \in DOMAIN heard' : i < j => heard'[i].draft < heard'[j].draft
    BY <2>1, <2>2, <2>3, <2>5, <2>6
  <2>9. QED
    BY <2>7, <2>8 DEF Heard
<1>3. CASE Think
  <2>1. thinks' = thinks + 1 /\ UNCHANGED <<heard, draftRuling>> /\ thinks \in Nat
    BY <1>3, DraftTypes DEF Think, auditVars, sayVars
  <2>2. \A i \in DOMAIN heard : heard[i].draft <= thinks + 1
    BY <2>1, HeardTypes DEF DraftLedger, Heard
  <2>3. QED
    BY <2>1, <2>2 DEF DraftLedger, Heard
<1>4. CASE OrganFails \/ EmitError \/ ErrorEvent \/ CycleGuarantees
  BY <1>4
    DEF DraftLedger, Heard, OrganFails, EmitError, ErrorEvent,
       CycleGuarantees, Silent, loopVars, lcVars, batchVars, envVars,
       histVars, Yield, trackVars, Suspension, countVars, auditVars, sayVars
<1>5. CASE CyclePrelude \/ EmitAudit \/ EnterLoop
  BY <1>5
    DEF DraftLedger, Heard, CyclePrelude, EmitAudit, EnterLoop, Silent,
       loopVars, lcVars, batchVars, envVars, histVars, Yield, trackVars,
       countVars, auditVars, sayVars
<1>6. CASE Suspend \/ WaitInput \/ PauseState \/ PausedEvent
  BY <1>6
    DEF DraftLedger, Heard, Suspend, WaitInput, PauseState, PausedEvent,
       Yield, loopVars, trackVars, batchVars, envVars, histVars, lcVars,
       countVars, auditVars, sayVars
<1>7. CASE Round \/ Prepare \/ ReportUsage \/ UtterAsk \/ Acting \/
          AnnounceDone \/ DoneEvent
  BY <1>7
    DEF DraftLedger, Heard, Round, Prepare, ReportUsage, UtterAsk, Acting,
       AnnounceDone, DoneEvent, Silent, GapPoint, trackVars, envVars,
       histVars, Thinking, Yield, loopVars, batchVars, lcVars, Suspension,
       countVars, auditVars, sayVars, Think, EmitGate, Utter, Say
<1>8. CASE ResolveCallAsk \/ Approved \/ Rest
  BY <1>8
    DEF DraftLedger, Heard, ResolveCallAsk, Approved, Rest, Yield, loopVars,
       lcVars, envVars, countVars, sayVars, Acting, trackVars, batchVars,
       histVars, Silent, auditVars
<1>9. CASE Run \/ SerialCall \/ SerialOver \/ SerialGap \/ SerialGate \/
          SerialAsked \/ SerialRefused \/ Admitted \/ Feedback
  BY <1>9
    DEF DraftLedger, Heard, Run, SerialCall, SerialOver, SerialGap,
       SerialGate, SerialAsked, SerialRefused, Admitted, Feedback, Silent,
       loopVars, lcVars, envVars, histVars, Yield, BatchOver, GapPoint, Gate,
       batchVars, countVars, sayVars, Suspension, Refuse, AfterCall,
       auditVars, RecordResult, trackVars
<1>10. CASE Announce \/ BatchGap \/ GatePhase \/ GatePhaseOver \/ BatchAsked
          \/ BatchRefused \/ BatchAllowed \/ ExecOver \/ FeedbackPhase \/
          FeedbackPhaseOver \/ (\E c \in Calls : ExecStart(c) \/
          ExecReturn(c))
  BY <1>10
    DEF DraftLedger, Heard, Announce, BatchGap, GatePhase, GatePhaseOver,
       BatchAsked, BatchRefused, BatchAllowed, ExecStart, ExecReturn,
       ExecOver, FeedbackPhase, FeedbackPhaseOver, Yield, loopVars, lcVars,
       envVars, histVars, GapPoint, Gate, countVars, sayVars, Silent,
       Suspension, Refuse, auditVars, yieldVars, RecordResult, BatchOver,
       trackVars
<1>11. CASE Pause \/ Unpause \/ Cancel \/ Cycle \/ Resume \/ ResumeRefused
  BY <1>11
    DEF DraftLedger, Heard, Pause, Unpause, Cancel, Cycle, Resume,
       ResumeRefused, loopVars, lcVars, batchVars, histVars, yieldVars,
       FreshRun, auditVars, trackVars, countVars, sayVars
<1>12. QED
  BY <1>1, <1>2, <1>3, <1>4, <1>5, <1>6, <1>7, <1>8, <1>9, <1>10, <1>11
    DEF Next, LoopStep, Settling, Entering, Parking, Thinking, Resuming, Serial,
        Parallel, HostStep

LEMMA ToldStep == TypeOK /\ CallLedger /\ DraftLedger /\ Next => Told'
<1> SUFFICES ASSUME TypeOK /\ CallLedger /\ DraftLedger, Next PROVE Told'
  OBVIOUS
<1>1. CASE EmitGate \/ ResolveUtteranceAsk
  <2>1. ~Valid(held) /\ ~Valid(held')
    BY <1>1, HeldNotLive, DraftRuled DEF EmitGate, ResolveUtteranceAsk, Live
  <2>2. out' = heard' /\ vetoes' = Vetoed /\ thinks' = thinks
    BY <1>1, DraftRuled DEF DraftLedger, Told, Live, EmitGate, ResolveUtteranceAsk
  <2>3. Live' => Vetoed = IF pc' \in {"utterDenial", "sayDenial"} THEN Vetoed' \ {thinks} ELSE Vetoed'
    <3>1. Vetoed' \ {thinks} = Vetoed
      BY <1>1, DraftRuled
    <3>2. pc' \in {"utterAsk", "utterDraft", "sayDraft"} => thinks \notin Vetoed'
      BY <1>1, DraftRuled DEF Vetoed
    <3>3. Live' => pc' \in {"utterAsk", "utterDraft", "sayDraft", "utterDenial", "sayDenial"}
      BY <1>1, DraftRuled DEF Live
    <3>4. QED
      BY <3>1, <3>2, <3>3
  <2>4. QED
    BY <2>1, <2>2, <2>3 DEF Told
<1>2. CASE Utter \/ SayResolved
  <2>1. ~Valid(held) /\ ~Valid(held') /\ Vetoed' = Vetoed
    BY <1>2, HeldNotLive DEF Utter, SayResolved, Live, envVars, auditVars, Vetoed
  <2>2. pc' \notin {"utterDenial", "sayDenial"}
    BY <1>2 DEF Utter, SayResolved, Say, Yield
  <2>3. out' = heard'
    BY <1>2, Said DEF DraftLedger, Told, Live, Utter, SayResolved
  <2>4. vetoes' = Vetoed
    BY <1>2, Said
      DEF DraftLedger, Told, Live, Utter, SayResolved, Ruled, Vetoed, Waiting, DraftWaits
  <2>5. QED
    BY <2>1, <2>2, <2>3, <2>4 DEF Told
<1>3. CASE WaitInput \/ PausedEvent
  BY <1>3, HeldNotLive
    DEF DraftLedger, Told, Vetoed, Live, Snapshot, WaitInput, PausedEvent,
       Yield, loopVars, lcVars, batchVars, histVars, trackVars, countVars,
       auditVars, sayVars
<1>4. CASE Cycle \/ ResumeRefused
  BY <1>4
    DEF DraftLedger, Told, Vetoed, Live, ZeroSession, Valid, Cycle,
       ResumeRefused, FreshRun, auditVars
<1>5. CASE Resume
  BY <1>5
    DEF DraftLedger, Told, Vetoed, Live, ZeroSession, Valid, Resume, FreshRun,
       auditVars
<1>6. CASE OrganFails \/ EmitError \/ ErrorEvent \/ CycleGuarantees
  BY <1>6, HeldNotLive
    DEF DraftLedger, Told, Vetoed, Live, OrganFails, EmitError, ErrorEvent,
       CycleGuarantees, Silent, loopVars, lcVars, batchVars, envVars,
       histVars, Yield, trackVars, Suspension, countVars, auditVars, sayVars
<1>7. CASE CyclePrelude \/ EmitAudit \/ EnterLoop
  BY <1>7, HeldNotLive
    DEF DraftLedger, Told, Vetoed, Live, CyclePrelude, EmitAudit, EnterLoop,
       Silent, loopVars, lcVars, batchVars, envVars, histVars, Yield,
       trackVars, countVars, auditVars, sayVars
<1>8. CASE Suspend \/ PauseState
  BY <1>8, HeldNotLive
    DEF DraftLedger, Told, Vetoed, Live, Suspend, PauseState, Yield, loopVars,
       trackVars, batchVars, envVars, histVars, countVars, auditVars, sayVars
<1>9. CASE Round \/ Prepare \/ Think \/ ReportUsage \/ UtterAsk \/ Acting \/
          AnnounceDone \/ DoneEvent
  BY <1>9, HeldNotLive
    DEF DraftLedger, Told, Vetoed, Live, Round, Prepare, Think, ReportUsage,
       UtterAsk, Acting, AnnounceDone, DoneEvent, Silent, GapPoint, trackVars,
       envVars, histVars, Thinking, Yield, loopVars, batchVars, lcVars,
       auditVars, sayVars, Suspension, countVars, EmitGate, Utter, Say
<1>10. CASE ResolveCallAsk \/ Approved \/ Rest
  BY <1>10, HeldNotLive
    DEF DraftLedger, Told, Vetoed, Live, ResolveCallAsk, Approved, Rest,
       Yield, loopVars, lcVars, envVars, countVars, sayVars, Acting,
       trackVars, batchVars, histVars, Silent, auditVars
<1>11. CASE Run \/ SerialCall \/ SerialOver \/ SerialGap \/ SerialGate \/
          SerialAsked \/ SerialRefused \/ Admitted \/ Feedback
  BY <1>11, HeldNotLive
    DEF DraftLedger, Told, Vetoed, Live, Run, SerialCall, SerialOver,
       SerialGap, SerialGate, SerialAsked, SerialRefused, Admitted, Feedback,
       Silent, loopVars, lcVars, envVars, histVars, Yield, BatchOver,
       GapPoint, Gate, batchVars, countVars, sayVars, Suspension, Refuse,
       AfterCall, auditVars, RecordResult, trackVars
<1>12. CASE Announce \/ BatchGap \/ GatePhase \/ GatePhaseOver \/ BatchAsked
          \/ BatchRefused \/ BatchAllowed \/ ExecOver \/ FeedbackPhase \/
          FeedbackPhaseOver \/ (\E c \in Calls : ExecStart(c) \/
          ExecReturn(c))
  BY <1>12, HeldNotLive
    DEF DraftLedger, Told, Vetoed, Live, Announce, BatchGap, GatePhase,
       GatePhaseOver, BatchAsked, BatchRefused, BatchAllowed, ExecStart,
       ExecReturn, ExecOver, FeedbackPhase, FeedbackPhaseOver, Yield,
       loopVars, lcVars, envVars, histVars, GapPoint, Gate, countVars,
       sayVars, Silent, Suspension, Refuse, auditVars, yieldVars,
       RecordResult, BatchOver, trackVars
<1>13. CASE Pause \/ Unpause \/ Cancel
  BY <1>13, HeldNotLive
    DEF DraftLedger, Told, Vetoed, Live, Pause, Unpause, Cancel, loopVars,
       lcVars, batchVars, histVars, yieldVars, trackVars, countVars,
       auditVars, sayVars
<1>14. QED
  BY <1>1, <1>2, <1>3, <1>4, <1>5, <1>6, <1>7, <1>8, <1>9, <1>10, <1>11,
     <1>12, <1>13
    DEF Next, LoopStep, Settling, Entering, Parking, Thinking, Resuming, Serial,
        Parallel, HostStep

-----------------------------------------------------------------------------
(* The stream. *)

LEMMA OutcomeStep == StreamLedger /\ Next => Outcome'
<1> SUFFICES ASSUME StreamLedger, Next PROVE Outcome'
  OBVIOUS
<1>1. CASE OrganFails \/ EmitError \/ ErrorEvent \/ CycleGuarantees
  BY <1>1
    DEF StreamLedger, Outcome, Live, OrganFails, EmitError, ErrorEvent,
       CycleGuarantees, Silent, loopVars, lcVars, batchVars, envVars,
       histVars, EndWith, Yield, trackVars, DropPass, Suspension, hostVars,
       countVars, auditVars, passVars, sayVars
<1>2. CASE CyclePrelude \/ EmitAudit \/ EnterLoop
  BY <1>2
    DEF StreamLedger, Outcome, Live, CyclePrelude, EmitAudit, EnterLoop,
       Silent, loopVars, lcVars, batchVars, envVars, histVars, Yield,
       trackVars, passVars, hostVars, countVars, auditVars, sayVars
<1>3. CASE Suspend \/ WaitInput \/ PauseState \/ PausedEvent
  BY <1>3
    DEF StreamLedger, Outcome, Live, Suspend, WaitInput, PauseState,
       PausedEvent, EndWith, Yield, loopVars, trackVars, batchVars, envVars,
       histVars, lcVars, hostVars, passVars, countVars, auditVars, sayVars
<1>4. CASE Round \/ Prepare \/ Think \/ ReportUsage \/ EmitGate \/ UtterAsk \/
          Utter \/ Acting \/ AnnounceDone \/ DoneEvent
  BY <1>4
    DEF StreamLedger, Outcome, Live, Round, Prepare, Think, ReportUsage,
       EmitGate, UtterAsk, Utter, Acting, AnnounceDone, DoneEvent, EndWith,
       Silent, GapPoint, trackVars, passVars, envVars, histVars, Thinking,
       Yield, loopVars, batchVars, lcVars, auditVars, sayVars, countVars,
       Suspension, Say, hostVars
<1>5. CASE ResolveCallAsk \/ Approved \/ ResolveUtteranceAsk \/ SayResolved \/
          Rest
  BY <1>5
    DEF StreamLedger, Outcome, Live, ResolveCallAsk, Approved,
       ResolveUtteranceAsk, SayResolved, Rest, Yield, loopVars, lcVars,
       envVars, countVars, sayVars, Acting, trackVars, batchVars, histVars,
       Say, auditVars, Silent, passVars, hostVars
<1>6. CASE Run \/ SerialCall \/ SerialOver \/ SerialGap \/ SerialGate \/
          SerialAsked \/ SerialRefused \/ Admitted \/ Feedback
  BY <1>6
    DEF StreamLedger, Outcome, Live, Run, SerialCall, SerialOver, SerialGap,
       SerialGate, SerialAsked, SerialRefused, Admitted, Feedback, Silent,
       loopVars, lcVars, envVars, histVars, TakeNext, Yield, BatchOver,
       passVars, GapPoint, Gate, batchVars, countVars, sayVars, Suspension,
       Refuse, AfterCall, Executed, hostVars, auditVars, RecordResult,
       trackVars
<1>7. CASE Announce \/ BatchGap \/ GatePhase \/ GatePhaseOver \/ BatchAsked \/
          BatchRefused \/ BatchAllowed \/ ExecOver \/ FeedbackPhase \/
          FeedbackPhaseOver \/ (\E c \in Calls : ExecStart(c) \/
          ExecReturn(c))
  BY <1>7
    DEF StreamLedger, Outcome, Live, Announce, BatchGap, GatePhase,
       GatePhaseOver, BatchAsked, BatchRefused, BatchAllowed, ExecStart,
       ExecReturn, ExecOver, FeedbackPhase, FeedbackPhaseOver, TakeNext,
       Yield, loopVars, lcVars, envVars, histVars, GapPoint, Gate, countVars,
       sayVars, Silent, Suspension, passVars, Refuse, Executed, hostVars,
       auditVars, yieldVars, RecordResult, BatchOver, trackVars
<1>8. CASE Pause \/ Unpause \/ Cancel \/ Cycle \/ Resume \/ ResumeRefused
  BY <1>8
    DEF StreamLedger, Outcome, Live, Pause, Unpause, Cancel, Cycle, Resume,
       ResumeRefused, loopVars, lcVars, batchVars, histVars, yieldVars,
       FreshRun, ClearPauseRequest, auditVars, trackVars, passVars, countVars,
       sayVars
<1>9. QED
  BY <1>1, <1>2, <1>3, <1>4, <1>5, <1>6, <1>7, <1>8
    DEF Next, LoopStep, Settling, Entering, Parking, Thinking, Resuming, Serial,
        Parallel, HostStep

LEMMA LastEventStep == StreamLedger /\ Next => LastEvent'
<1> SUFFICES ASSUME StreamLedger, Next PROVE LastEvent'
  OBVIOUS
<1>1. CASE OrganFails \/ EmitError \/ ErrorEvent \/ CycleGuarantees
  BY <1>1
    DEF StreamLedger, LastEvent, Closing, Announced, OrganFails, EmitError,
       ErrorEvent, CycleGuarantees, Silent, loopVars, lcVars, batchVars,
       envVars, histVars, EndWith, Yield, trackVars, DropPass, Suspension,
       hostVars, countVars, auditVars, passVars, sayVars
<1>2. CASE CyclePrelude \/ EmitAudit \/ EnterLoop
  BY <1>2
    DEF StreamLedger, LastEvent, Closing, Announced, CyclePrelude, EmitAudit,
       EnterLoop, Silent, loopVars, lcVars, batchVars, envVars, histVars,
       Yield, trackVars, passVars, hostVars, countVars, auditVars, sayVars
<1>3. CASE Suspend \/ WaitInput \/ PauseState \/ PausedEvent
  BY <1>3
    DEF StreamLedger, LastEvent, Closing, Announced, Suspend, WaitInput,
       PauseState, PausedEvent, EndWith, Yield, loopVars, trackVars,
       batchVars, envVars, histVars, lcVars, hostVars, passVars, countVars,
       auditVars, sayVars
<1>4. CASE Round \/ Prepare \/ Think \/ ReportUsage \/ EmitGate \/ UtterAsk \/
          Utter \/ Acting \/ AnnounceDone \/ DoneEvent
  BY <1>4
    DEF StreamLedger, LastEvent, Closing, Announced, Round, Prepare, Think,
       ReportUsage, EmitGate, UtterAsk, Utter, Acting, AnnounceDone,
       DoneEvent, EndWith, Silent, GapPoint, trackVars, passVars, envVars,
       histVars, Thinking, Yield, loopVars, batchVars, lcVars, auditVars,
       sayVars, countVars, Suspension, Say, hostVars
<1>5. CASE ResolveCallAsk \/ Approved \/ ResolveUtteranceAsk \/ SayResolved \/
          Rest
  BY <1>5
    DEF StreamLedger, LastEvent, Closing, Announced, ResolveCallAsk, Approved,
       ResolveUtteranceAsk, SayResolved, Rest, Yield, loopVars, lcVars,
       envVars, countVars, sayVars, Acting, trackVars, batchVars, histVars,
       Say, auditVars, Silent, passVars, hostVars
<1>6. CASE Run \/ SerialCall \/ SerialOver \/ SerialGap \/ SerialGate \/
          SerialAsked \/ SerialRefused \/ Admitted \/ Feedback
  BY <1>6
    DEF StreamLedger, LastEvent, Closing, Announced, Run, SerialCall,
       SerialOver, SerialGap, SerialGate, SerialAsked, SerialRefused,
       Admitted, Feedback, Silent, loopVars, lcVars, envVars, histVars,
       TakeNext, Yield, BatchOver, passVars, GapPoint, Gate, batchVars,
       countVars, sayVars, Suspension, Refuse, AfterCall, Executed, hostVars,
       auditVars, RecordResult, trackVars
<1>7. CASE Announce \/ BatchGap \/ GatePhase \/ GatePhaseOver \/ BatchAsked \/
          BatchRefused \/ BatchAllowed \/ ExecOver \/ FeedbackPhase \/
          FeedbackPhaseOver \/ (\E c \in Calls : ExecStart(c) \/
          ExecReturn(c))
  BY <1>7
    DEF StreamLedger, LastEvent, Closing, Announced, Announce, BatchGap,
       GatePhase, GatePhaseOver, BatchAsked, BatchRefused, BatchAllowed,
       ExecStart, ExecReturn, ExecOver, FeedbackPhase, FeedbackPhaseOver,
       TakeNext, Yield, loopVars, lcVars, envVars, histVars, GapPoint, Gate,
       countVars, sayVars, Silent, Suspension, passVars, Refuse, Executed,
       hostVars, auditVars, yieldVars, RecordResult, BatchOver, trackVars
<1>8. CASE Pause \/ Unpause \/ Cancel \/ Cycle \/ Resume \/ ResumeRefused
  BY <1>8
    DEF StreamLedger, LastEvent, Closing, Announced, Pause, Unpause, Cancel,
       Cycle, Resume, ResumeRefused, loopVars, lcVars, batchVars, histVars,
       yieldVars, FreshRun, ClearPauseRequest, auditVars, trackVars, passVars,
       countVars, sayVars
<1>9. QED
  BY <1>1, <1>2, <1>3, <1>4, <1>5, <1>6, <1>7, <1>8
    DEF Next, LoopStep, Settling, Entering, Parking, Thinking, Resuming, Serial,
        Parallel, HostStep

LEMMA EndedStep == StreamLedger /\ Next => Ended'
<1> SUFFICES ASSUME StreamLedger, Next PROVE Ended'
  OBVIOUS
<1>1. CASE OrganFails \/ EmitError \/ ErrorEvent \/ CycleGuarantees
  BY <1>1
    DEF StreamLedger, Ended, Outcome, LastEvent, Closing, Announced, Live,
       OrganFails, EmitError, ErrorEvent, CycleGuarantees, Silent, loopVars,
       lcVars, batchVars, envVars, histVars, EndWith, Yield, trackVars,
       DropPass, Suspension, hostVars, countVars, auditVars, passVars, sayVars
<1>2. CASE CyclePrelude \/ EmitAudit \/ EnterLoop
  BY <1>2
    DEF StreamLedger, Ended, Outcome, LastEvent, Closing, Announced, Live,
       CyclePrelude, EmitAudit, EnterLoop, Silent, loopVars, lcVars,
       batchVars, envVars, histVars, Yield, trackVars, passVars, hostVars,
       countVars, auditVars, sayVars
<1>3. CASE Suspend \/ WaitInput \/ PauseState \/ PausedEvent
  BY <1>3
    DEF StreamLedger, Ended, Outcome, LastEvent, Closing, Announced, Live,
       Suspend, WaitInput, PauseState, PausedEvent, EndWith, Yield, loopVars,
       trackVars, batchVars, envVars, histVars, lcVars, hostVars, passVars,
       countVars, auditVars, sayVars
<1>4. CASE Round \/ Prepare \/ Think \/ ReportUsage \/ EmitGate \/ UtterAsk \/
          Utter \/ Acting \/ AnnounceDone \/ DoneEvent
  BY <1>4
    DEF StreamLedger, Ended, Outcome, LastEvent, Closing, Announced, Live,
       Round, Prepare, Think, ReportUsage, EmitGate, UtterAsk, Utter, Acting,
       AnnounceDone, DoneEvent, EndWith, Silent, GapPoint, trackVars,
       passVars, envVars, histVars, Thinking, Yield, loopVars, batchVars,
       lcVars, auditVars, sayVars, countVars, Suspension, Say, hostVars
<1>5. CASE ResolveCallAsk \/ Approved \/ ResolveUtteranceAsk \/ SayResolved \/
          Rest
  BY <1>5
    DEF StreamLedger, Ended, Outcome, LastEvent, Closing, Announced, Live,
       ResolveCallAsk, Approved, ResolveUtteranceAsk, SayResolved, Rest,
       Yield, loopVars, lcVars, envVars, countVars, sayVars, Acting,
       trackVars, batchVars, histVars, Say, auditVars, Silent, passVars,
       hostVars
<1>6. CASE Run \/ SerialCall \/ SerialOver \/ SerialGap \/ SerialGate \/
          SerialAsked \/ SerialRefused \/ Admitted \/ Feedback
  BY <1>6
    DEF StreamLedger, Ended, Outcome, LastEvent, Closing, Announced, Live,
       Run, SerialCall, SerialOver, SerialGap, SerialGate, SerialAsked,
       SerialRefused, Admitted, Feedback, Silent, loopVars, lcVars, envVars,
       histVars, TakeNext, Yield, BatchOver, passVars, GapPoint, Gate,
       batchVars, countVars, sayVars, Suspension, Refuse, AfterCall, Executed,
       hostVars, auditVars, RecordResult, trackVars
<1>7. CASE Announce \/ BatchGap \/ GatePhase \/ GatePhaseOver \/ BatchAsked \/
          BatchRefused \/ BatchAllowed \/ ExecOver \/ FeedbackPhase \/
          FeedbackPhaseOver \/ (\E c \in Calls : ExecStart(c) \/
          ExecReturn(c))
  BY <1>7
    DEF StreamLedger, Ended, Outcome, LastEvent, Closing, Announced, Live,
       Announce, BatchGap, GatePhase, GatePhaseOver, BatchAsked, BatchRefused,
       BatchAllowed, ExecStart, ExecReturn, ExecOver, FeedbackPhase,
       FeedbackPhaseOver, TakeNext, Yield, loopVars, lcVars, envVars,
       histVars, GapPoint, Gate, countVars, sayVars, Silent, Suspension,
       passVars, Refuse, Executed, hostVars, auditVars, yieldVars,
       RecordResult, BatchOver, trackVars
<1>8. CASE Pause \/ Unpause \/ Cancel \/ Cycle \/ Resume \/ ResumeRefused
  BY <1>8
    DEF StreamLedger, Ended, Outcome, LastEvent, Closing, Announced, Live,
       Pause, Unpause, Cancel, Cycle, Resume, ResumeRefused, loopVars, lcVars,
       batchVars, histVars, yieldVars, FreshRun, ClearPauseRequest, auditVars,
       trackVars, passVars, countVars, sayVars
<1>9. QED
  BY <1>1, <1>2, <1>3, <1>4, <1>5, <1>6, <1>7, <1>8
    DEF Next, LoopStep, Settling, Entering, Parking, Thinking, Resuming, Serial,
        Parallel, HostStep

LEMMA FinalStep == StreamLedger /\ DraftLedger /\ Next => Final'
<1> SUFFICES ASSUME StreamLedger /\ DraftLedger, Next PROVE Final'
  OBVIOUS
<1>1. CASE OrganFails \/ EmitError \/ ErrorEvent \/ CycleGuarantees
  BY <1>1
    DEF StreamLedger, Final, Outcome, Live, DraftLedger, Told, OrganFails,
       EmitError, ErrorEvent, CycleGuarantees, Silent, loopVars, lcVars,
       batchVars, envVars, histVars, EndWith, Yield, trackVars, DropPass,
       Suspension, hostVars, countVars, auditVars, passVars, sayVars
<1>2. CASE CyclePrelude \/ EmitAudit \/ EnterLoop
  BY <1>2
    DEF StreamLedger, Final, Outcome, Live, DraftLedger, Told, CyclePrelude,
       EmitAudit, EnterLoop, Silent, loopVars, lcVars, batchVars, envVars,
       histVars, Yield, trackVars, passVars, hostVars, countVars, auditVars,
       sayVars
<1>3. CASE Suspend \/ WaitInput \/ PauseState \/ PausedEvent
  BY <1>3
    DEF StreamLedger, Final, Outcome, Live, DraftLedger, Told, Suspend,
       WaitInput, PauseState, PausedEvent, EndWith, Yield, loopVars,
       trackVars, batchVars, envVars, histVars, lcVars, hostVars, passVars,
       countVars, auditVars, sayVars
<1>4. CASE Round \/ Prepare \/ Think \/ ReportUsage \/ EmitGate \/ UtterAsk \/
          Utter \/ Acting \/ AnnounceDone \/ DoneEvent
  BY <1>4
    DEF StreamLedger, Final, Outcome, Live, DraftLedger, Told, Round, Prepare,
       Think, ReportUsage, EmitGate, UtterAsk, Utter, Acting, AnnounceDone,
       DoneEvent, EndWith, Silent, GapPoint, trackVars, passVars, envVars,
       histVars, Thinking, Yield, loopVars, batchVars, lcVars, auditVars,
       sayVars, countVars, Suspension, Say, hostVars
<1>5. CASE ResolveCallAsk \/ Approved \/ ResolveUtteranceAsk \/ SayResolved \/
          Rest
  BY <1>5
    DEF StreamLedger, Final, Outcome, Live, DraftLedger, Told, ResolveCallAsk,
       Approved, ResolveUtteranceAsk, SayResolved, Rest, Yield, loopVars,
       lcVars, envVars, countVars, sayVars, Acting, trackVars, batchVars,
       histVars, Say, auditVars, Silent, passVars, hostVars
<1>6. CASE Run \/ SerialCall \/ SerialOver \/ SerialGap \/ SerialGate \/
          SerialAsked \/ SerialRefused \/ Admitted \/ Feedback
  BY <1>6
    DEF StreamLedger, Final, Outcome, Live, DraftLedger, Told, Run,
       SerialCall, SerialOver, SerialGap, SerialGate, SerialAsked,
       SerialRefused, Admitted, Feedback, Silent, loopVars, lcVars, envVars,
       histVars, TakeNext, Yield, BatchOver, passVars, GapPoint, Gate,
       batchVars, countVars, sayVars, Suspension, Refuse, AfterCall, Executed,
       hostVars, auditVars, RecordResult, trackVars
<1>7. CASE Announce \/ BatchGap \/ GatePhase \/ GatePhaseOver \/ BatchAsked \/
          BatchRefused \/ BatchAllowed \/ ExecOver \/ FeedbackPhase \/
          FeedbackPhaseOver \/ (\E c \in Calls : ExecStart(c) \/
          ExecReturn(c))
  BY <1>7
    DEF StreamLedger, Final, Outcome, Live, DraftLedger, Told, Announce,
       BatchGap, GatePhase, GatePhaseOver, BatchAsked, BatchRefused,
       BatchAllowed, ExecStart, ExecReturn, ExecOver, FeedbackPhase,
       FeedbackPhaseOver, TakeNext, Yield, loopVars, lcVars, envVars,
       histVars, GapPoint, Gate, countVars, sayVars, Silent, Suspension,
       passVars, Refuse, Executed, hostVars, auditVars, yieldVars,
       RecordResult, BatchOver, trackVars
<1>8. CASE Pause \/ Unpause \/ Cancel \/ Cycle \/ Resume \/ ResumeRefused
  BY <1>8
    DEF StreamLedger, Final, Outcome, Live, DraftLedger, Told, Pause, Unpause,
       Cancel, Cycle, Resume, ResumeRefused, loopVars, lcVars, batchVars,
       histVars, yieldVars, FreshRun, ClearPauseRequest, auditVars, trackVars,
       passVars, countVars, sayVars
<1>9. QED
  BY <1>1, <1>2, <1>3, <1>4, <1>5, <1>6, <1>7, <1>8
    DEF Next, LoopStep, Settling, Entering, Parking, Thinking, Resuming, Serial,
        Parallel, HostStep

-----------------------------------------------------------------------------
(* Rounds. *)

LEMMA BudgetTypes ==
    ASSUME TypeOK
    PROVE  /\ Budget \in Int /\ First \in Nat /\ First >= 1 /\ Allowed \in Nat
           /\ round \in Nat /\ thought \in Nat
<1>1. cfg.maxRounds \in Int
  BY ConfigsAssumption DEF TypeOK, ControlOK
<1>2. Budget \in Int
  BY <1>1 DEF Budget, EffectiveMaxRounds, DefaultMaxRounds
<1>3. First \in Nat /\ First >= 1
  BY DEF First, Valid, TypeOK, HandlesOK, Session
<1>4. QED
  BY <1>2, <1>3 DEF Allowed, TypeOK, BatchOK, HistoryOK

LEMMA AllowedNext == TypeOK /\ CallLedger /\ Next => Allowed' \in Nat
<1>1. TypeOK' => Allowed' \in Nat
  <2>1. TypeOK' => cfg'.maxRounds \in Int /\ sess' \in Session
    BY ConfigsAssumption DEF TypeOK, ControlOK, HandlesOK
  <2>2. TypeOK' => Budget' \in Int /\ First' \in Nat
    BY <2>1 DEF Budget, EffectiveMaxRounds, DefaultMaxRounds, First, Session
  <2>3. QED
    BY <2>2 DEF Allowed
<1>2. QED
  BY <1>1, TypeStep DEF CallLedger

(* The allowance is fixed by what the invocation started with. *)
LEMMA AllowanceKept == UNCHANGED <<cfg, sess>> => UNCHANGED <<Budget, First, Allowed>>
  BY DEF Budget, First, Allowed

LEMMA StageRest == TypeOK /\ CallLedger /\ pc \in {"serial", "feedbackPhase"} => stage \in {"rest", "rounds"}
  BY DEF CallLedger, Stages, TypeOK, ControlOK

LEMMA NothingOpen ==
    ASSUME TypeOK, CallLedger, pc \in {"round", "prepare", "think", "done", "doneEvent"}
    PROVE  \A c \in Issued : Settled(c) = 1
<1>1. \A c : c \in Issued => c \in Calls /\ c <= issued
  BY BoundsAssumption DEF Issued, Calls, TypeOK, HistoryOK
<1>2. \A c \in Calls : c <= issued => Settled(c) # 0
  BY DEF CallLedger, OwesNothing, Owes
<1>3. \A c \in Calls : Settled(c) <= 1 /\ Settled(c) \in Nat
  BY DEF CallLedger, Answers, Live, Settled, TypeOK, TracksOK
<1>4. QED
  BY <1>1, <1>2, <1>3


LEMMA RoundsStep == TypeOK /\ CallLedger /\ RoundLedger /\ Next => Rounds'
<1> SUFFICES ASSUME TypeOK /\ CallLedger /\ RoundLedger, Next PROVE Rounds'
  OBVIOUS
<1>1. CASE Round
  <2>1. UNCHANGED <<round, thought, cfg, sess>> /\ stage' = "rounds" /\ pc = "round"
    BY <1>1 DEF Round, histVars, countVars
  <2>2. pc' = "prepare" => round <= Budget
    BY <1>1, BudgetTypes DEF Round, Budget, Silent, GapPoint, TypeOK, BatchOK
  <2>3. pc' \in {"error", "pausing", "prepare"}
    BY <1>1 DEF Round, Silent, GapPoint
  <2>4. UNCHANGED <<Budget, First, Allowed>>
    BY <2>1, AllowanceKept
  <2>5. QED
    BY <2>1, <2>2, <2>3, <2>4 DEF RoundLedger, Rounds, Entered, Decided, InBatch, Live
<1>2. CASE Think
  <2>1. /\ UNCHANGED <<round, cfg, sess, stage>> /\ pc = "think" /\ pc' \in {"usage", "emitGate"}
        /\ thought' = thought + 1
    BY <1>2 DEF Think, Silent, loopVars
  <2>2. round <= Budget /\ stage = "rounds" /\ thought = round - First /\ round >= 1
    BY <2>1 DEF RoundLedger, Rounds, Entered, Live
  <2>3. UNCHANGED <<Budget, First, Allowed>>
    BY <2>1, AllowanceKept
  <2>4. thought + 1 = round - First + 1 /\ thought + 1 <= Allowed
    BY <2>2, BudgetTypes DEF Allowed
  <2>5. QED
    BY <2>1, <2>2, <2>3, <2>4 DEF Rounds, Entered, Decided, InBatch, Live
<1>3. CASE SerialOver \/ FeedbackPhaseOver
  <2>1. /\ UNCHANGED <<thought, cfg, sess, stage>> /\ pc \in {"serial", "feedbackPhase"}
        /\ \/ pc' = "suspend" /\ round' = round
           \/ pc' = "round" /\ stage = "rounds" /\ round' = round + 1
           \/ pc' = "round" /\ stage # "rounds" /\ round' = round
    BY <1>3, StageRest DEF SerialOver, FeedbackPhaseOver, BatchOver, Silent, loopVars, histVars, countVars
  <2>2. UNCHANGED <<Budget, First, Allowed>>
    BY <2>1, AllowanceKept
  <2>3. thought <= Allowed /\ round >= 1 /\ thought = IF stage = "rounds" THEN round - First + 1 ELSE round - First
    BY <2>1 DEF RoundLedger, Rounds, InBatch, Live
  <2>4. (round + 1 >= 1) /\ (round - First + 1 = (round + 1) - First)
    BY <2>3, BudgetTypes
  <2>5. CASE pc' = "suspend" /\ round' = round
    BY <2>1, <2>2, <2>3, <2>5 DEF Rounds, Entered, Decided, InBatch, Live
  <2>6. CASE pc' = "round" /\ stage = "rounds" /\ round' = round + 1
    BY <2>1, <2>2, <2>3, <2>4, <2>6 DEF Rounds, Entered, Decided, InBatch, Live
  <2>7. CASE pc' = "round" /\ stage # "rounds" /\ round' = round
    BY <2>1, <2>2, <2>3, <2>7 DEF Rounds, Entered, Decided, InBatch, Live
  <2>8. QED
    BY <2>1, <2>5, <2>6, <2>7
<1>4. CASE CycleGuarantees
  BY <1>4
    DEF RoundLedger, Rounds, Entered, Decided, InBatch, Live, CycleGuarantees,
       EndWith, Silent, countVars
<1>5. CASE EnterLoop \/ EmitAudit
  BY <1>5, AllowanceKept
    DEF RoundLedger, Rounds, Entered, Decided, InBatch, Live, CallLedger,
       Shapes, EnterLoop, EmitAudit, Silent, loopVars, lcVars, batchVars,
       envVars, histVars, Yield, trackVars, passVars, countVars, auditVars
<1>6. CASE Cycle \/ Resume \/ ResumeRefused
  <2>1. thought' = 0 /\ pc' \in {"beforeStimulate", "error"} /\ Allowed' \in Nat
    BY <1>6, AllowedNext DEF Cycle, Resume, ResumeRefused, FreshRun
  <2>2. pc' = "beforeStimulate" => round' = First' /\ round' \in Nat /\ round' >= 1
    BY <1>6
      DEF Cycle, Resume, ResumeRefused, First, Valid, ZeroSession, TypeOK, HandlesOK, Session
  <2>3. QED
    BY <2>1, <2>2 DEF Rounds, Entered, Decided, InBatch, Live
<1>7. CASE SerialRefused \/ Feedback
  BY <1>7, AllowanceKept
    DEF RoundLedger, Rounds, Entered, Decided, InBatch, Live, CallLedger,
       Stages, SerialRefused, Feedback, Refuse, AfterCall, loopVars,
       batchVars, envVars, histVars, RecordResult, Yield, passVars, countVars,
       auditVars
<1>8. CASE BatchRefused \/ FeedbackPhase \/ ExecOver \/ BatchAsked \/
          BatchAllowed \/ BatchGap
  BY <1>8, AllowanceKept
    DEF RoundLedger, Rounds, Entered, Decided, InBatch, Live, BatchRefused,
       FeedbackPhase, ExecOver, BatchAsked, BatchAllowed, BatchGap, Refuse,
       loopVars, histVars, Silent, RecordResult, lcVars, GapPoint, Yield,
       countVars, trackVars
<1>9. CASE Run \/ Rest \/ Acting
  BY <1>9, AllowanceKept
    DEF RoundLedger, Rounds, Entered, Decided, InBatch, Live, CallLedger,
       Stages, Run, Rest, Acting, Silent, loopVars, lcVars, envVars, histVars,
       Yield, trackVars, passVars, batchVars, countVars, auditVars
<1>10. CASE OrganFails \/ EmitError \/ ErrorEvent
  BY <1>10, AllowanceKept
    DEF RoundLedger, Rounds, Entered, Decided, InBatch, Live, OrganFails,
       EmitError, ErrorEvent, Silent, loopVars, lcVars, batchVars, histVars,
       EndWith, Yield, trackVars, countVars
<1>11. CASE CyclePrelude
  BY <1>11, AllowanceKept
    DEF RoundLedger, Rounds, Entered, Decided, InBatch, Live, CyclePrelude,
       Silent, loopVars, lcVars, batchVars, histVars, trackVars, countVars
<1>12. CASE Suspend \/ WaitInput \/ PauseState \/ PausedEvent
  BY <1>12, AllowanceKept
    DEF RoundLedger, Rounds, Entered, Decided, InBatch, Live, Suspend,
       WaitInput, PauseState, PausedEvent, EndWith, Yield, loopVars,
       trackVars, batchVars, histVars, lcVars, countVars
<1>13. CASE Prepare \/ ReportUsage \/ EmitGate \/ UtterAsk \/ Utter \/
          AnnounceDone \/ DoneEvent
  BY <1>13, AllowanceKept
    DEF RoundLedger, Rounds, Entered, Decided, InBatch, Live, Prepare,
       ReportUsage, EmitGate, UtterAsk, Utter, AnnounceDone, DoneEvent,
       Thinking, Yield, loopVars, trackVars, batchVars, histVars, lcVars,
       countVars, Silent, Say, EndWith, Round, Think, Acting, GapPoint
<1>14. CASE ResolveCallAsk \/ Approved \/ ResolveUtteranceAsk \/ SayResolved
  BY <1>14, AllowanceKept
    DEF RoundLedger, Rounds, Entered, Decided, InBatch, Live, ResolveCallAsk,
       Approved, ResolveUtteranceAsk, SayResolved, Yield, loopVars, lcVars,
       countVars, Acting, trackVars, batchVars, histVars, Say
<1>15. CASE SerialCall \/ SerialGap \/ SerialGate \/ SerialAsked \/ Admitted
  BY <1>15, AllowanceKept
    DEF RoundLedger, Rounds, Entered, Decided, InBatch, Live, SerialCall,
       SerialGap, SerialGate, SerialAsked, Admitted, Yield, loopVars, lcVars,
       histVars, GapPoint, Gate, batchVars, countVars, Silent, trackVars
<1>16. CASE Announce \/ GatePhase \/ GatePhaseOver \/ (\E c \in Calls :
          ExecStart(c) \/ ExecReturn(c))
  BY <1>16, AllowanceKept
    DEF RoundLedger, Rounds, Entered, Decided, InBatch, Live, Announce,
       GatePhase, GatePhaseOver, ExecStart, ExecReturn, Yield, loopVars,
       lcVars, histVars, Gate, countVars, Silent, yieldVars, trackVars
<1>17. CASE Pause \/ Unpause \/ Cancel
  BY <1>17, AllowanceKept
    DEF RoundLedger, Rounds, Entered, Decided, InBatch, Live, Pause, Unpause,
       Cancel, loopVars, lcVars, batchVars, histVars, yieldVars, trackVars,
       countVars
<1>18. QED
  BY <1>1, <1>2, <1>3, <1>4, <1>5, <1>6, <1>7, <1>8, <1>9, <1>10, <1>11,
     <1>12, <1>13, <1>14, <1>15, <1>16, <1>17
    DEF Next, LoopStep, Settling, Entering, Parking, Thinking, Resuming, Serial,
        Parallel, HostStep

LEMMA SpentStep == TypeOK /\ CallLedger /\ StreamLedger /\ RoundLedger /\ Next => Spent'
<1> SUFFICES ASSUME TypeOK /\ CallLedger /\ StreamLedger /\ RoundLedger, Next PROVE Spent'
  OBVIOUS
<1>1. CASE Round
  <2>1. UNCHANGED <<round, thought, cfg, sess, issued, toolResults, refusals>> /\ pc = "round"
    BY <1>1 DEF Round, trackVars, histVars, countVars
  <2>2. outcome = "none"
    BY <2>1 DEF StreamLedger, Outcome, Live
  <2>3. outcome' = "MaxRounds" => round > Budget
    BY <1>1, <2>2 DEF Round, Budget
  <2>4. round > Budget => thought = Allowed
    BY <2>1, BudgetTypes DEF RoundLedger, Rounds, Entered, Allowed
  <2>5. \A c \in Issued : Settled(c) = 1
    BY <2>1, NothingOpen
  <2>6. UNCHANGED <<Allowed, Issued>> /\ \A c \in Issued : Settled(c)' = Settled(c)
    BY <2>1, AllowanceKept DEF Issued, Settled
  <2>7. QED
    BY <2>1, <2>3, <2>4, <2>5, <2>6 DEF Spent
<1>2. CASE EmitError \/ ErrorEvent
  BY <1>2, AllowanceKept
    DEF RoundLedger, Spent, StreamLedger, Outcome, Live, Issued, Settled,
       EmitError, ErrorEvent, EndWith, Yield, loopVars, trackVars, batchVars,
       envVars, histVars, lcVars, passVars, hostVars, countVars, auditVars,
       sayVars
<1>3. CASE Pause \/ Unpause \/ Cancel
  BY <1>3, AllowanceKept
    DEF RoundLedger, Spent, StreamLedger, Outcome, Live, Issued, Settled,
       Pause, Unpause, Cancel, loopVars, lcVars, batchVars, histVars,
       yieldVars, trackVars, passVars, countVars, auditVars, sayVars
<1>4. CASE OrganFails \/ CycleGuarantees
  BY <1>4
    DEF RoundLedger, Spent, StreamLedger, Outcome, Live, OrganFails,
       CycleGuarantees, Silent, loopVars, lcVars, batchVars, envVars,
       histVars, EndWith, DropPass, Suspension, hostVars, countVars,
       auditVars, trackVars, passVars, sayVars
<1>5. CASE CyclePrelude \/ EmitAudit \/ EnterLoop
  BY <1>5
    DEF RoundLedger, Spent, StreamLedger, Outcome, Live, CyclePrelude,
       EmitAudit, EnterLoop, Silent, loopVars, lcVars, batchVars, envVars,
       histVars, Yield, trackVars, passVars, hostVars, countVars, auditVars,
       sayVars
<1>6. CASE Suspend \/ WaitInput \/ PauseState \/ PausedEvent
  BY <1>6
    DEF RoundLedger, Spent, StreamLedger, Outcome, Live, Suspend, WaitInput,
       PauseState, PausedEvent, EndWith, Yield, loopVars, trackVars,
       batchVars, envVars, histVars, lcVars, hostVars, passVars, countVars,
       auditVars, sayVars
<1>7. CASE Prepare \/ Think \/ ReportUsage \/ EmitGate \/ UtterAsk \/ Utter \/
          Acting \/ AnnounceDone \/ DoneEvent
  BY <1>7
    DEF RoundLedger, Spent, StreamLedger, Outcome, Live, Prepare, Think,
       ReportUsage, EmitGate, UtterAsk, Utter, Acting, AnnounceDone,
       DoneEvent, Thinking, Yield, loopVars, trackVars, batchVars, envVars,
       histVars, Silent, lcVars, passVars, auditVars, sayVars, countVars,
       Suspension, Say, EndWith, Round, hostVars, GapPoint
<1>8. CASE ResolveCallAsk \/ Approved \/ ResolveUtteranceAsk \/ SayResolved \/
          Rest
  BY <1>8
    DEF RoundLedger, Spent, StreamLedger, Outcome, Live, ResolveCallAsk,
       Approved, ResolveUtteranceAsk, SayResolved, Rest, Yield, loopVars,
       lcVars, envVars, countVars, sayVars, Acting, trackVars, batchVars,
       histVars, Say, auditVars, Silent, passVars, hostVars
<1>9. CASE Run \/ SerialCall \/ SerialOver \/ SerialGap \/ SerialGate \/
          SerialAsked \/ SerialRefused \/ Admitted \/ Feedback
  BY <1>9
    DEF RoundLedger, Spent, StreamLedger, Outcome, Live, Run, SerialCall,
       SerialOver, SerialGap, SerialGate, SerialAsked, SerialRefused,
       Admitted, Feedback, Silent, loopVars, lcVars, envVars, histVars,
       TakeNext, Yield, BatchOver, passVars, GapPoint, Gate, batchVars,
       countVars, sayVars, Suspension, Refuse, AfterCall, Executed, hostVars,
       auditVars, RecordResult, trackVars
<1>10. CASE Announce \/ BatchGap \/ GatePhase \/ GatePhaseOver \/ BatchAsked
          \/ BatchRefused \/ BatchAllowed \/ ExecOver \/ FeedbackPhase \/
          FeedbackPhaseOver \/ (\E c \in Calls : ExecStart(c) \/
          ExecReturn(c))
  BY <1>10
    DEF RoundLedger, Spent, StreamLedger, Outcome, Live, Announce, BatchGap,
       GatePhase, GatePhaseOver, BatchAsked, BatchRefused, BatchAllowed,
       ExecStart, ExecReturn, ExecOver, FeedbackPhase, FeedbackPhaseOver,
       TakeNext, Yield, loopVars, lcVars, envVars, histVars, GapPoint, Gate,
       countVars, sayVars, Silent, Suspension, passVars, Refuse, Executed,
       hostVars, auditVars, yieldVars, RecordResult, BatchOver, trackVars
<1>11. CASE Cycle \/ Resume \/ ResumeRefused
  BY <1>11
    DEF RoundLedger, Spent, StreamLedger, Outcome, Live, Cycle, Resume,
       ResumeRefused, FreshRun, ClearPauseRequest, auditVars, passVars
<1>12. QED
  BY <1>1, <1>2, <1>3, <1>4, <1>5, <1>6, <1>7, <1>8, <1>9, <1>10, <1>11
    DEF Next, LoopStep, Settling, Entering, Parking, Thinking, Resuming, Serial,
        Parallel, HostStep

-----------------------------------------------------------------------------
(* The execution phase and the work done under a pause request. *)

LEMMA FiniteParts ==
    ASSUME TypeOK
    PROVE  /\ IsFiniteSet(batch) /\ Cardinality(batch) \in Nat
           /\ IsFiniteSet(running) /\ Cardinality(running) \in Nat
           /\ IsFiniteSet(batch \ todo) /\ Cardinality(batch \ todo) \in Nat
<1>1. IsFiniteSet(Calls)
  BY BoundsAssumption, FS_Interval DEF Calls
<1>2. batch \subseteq Calls /\ running \subseteq Calls /\ batch \ todo \subseteq Calls
  BY DEF TypeOK, BatchOK
<1>3. IsFiniteSet(batch) /\ IsFiniteSet(running) /\ IsFiniteSet(batch \ todo)
  BY <1>1, <1>2, FS_Subset
<1>4. QED
  BY <1>3, FS_CardinalityType

LEMMA WindowTypes ==
    ASSUME TypeOK
    PROVE  /\ ExecWindow(cfg.window, Cardinality(batch)) \in Nat
           /\ ExecWindow(cfg.window, Cardinality(batch)) <= Cardinality(batch)
           /\ cfg.window > 0 => ExecWindow(cfg.window, Cardinality(batch)) <= cfg.window
<1>1. cfg.window \in Int
  BY ConfigsAssumption DEF TypeOK, ControlOK
<1>2. QED
  BY <1>1, FiniteParts DEF ExecWindow

LEMMA LateTypes == TypeOK => late \in Nat
  BY DEF TypeOK, HistoryOK


LEMMA WindowStep == TypeOK /\ CallLedger /\ WindowLedger /\ Next => WindowLedger'
<1> SUFFICES ASSUME TypeOK /\ CallLedger /\ WindowLedger, Next PROVE WindowLedger'
  OBVIOUS
<1>1. CASE (\E c \in Calls : ExecStart(c) \/ ExecReturn(c))
  <2>1. PICK c \in Calls : ExecStart(c) \/ ExecReturn(c)
    BY <1>1
  <2>2. /\ pc = "exec" /\ UNCHANGED <<pc, cfg, batch>>
        /\ \/ c \in todo /\ todo' = todo \ {c} /\ running' = running \cup {c}
              /\ Cardinality(running) < ExecWindow(cfg.window, Cardinality(batch))
           \/ todo' = todo /\ running' = running \ {c} /\ c \in running
    BY <2>1 DEF ExecStart, ExecReturn, loopVars, yieldVars
  <2>3. running \subseteq batch \ todo /\ todo \subseteq batch
    BY <2>2 DEF WindowLedger, CallLedger, Passes
  <2>4. running' \subseteq batch' \ todo'
    BY <2>2, <2>3
  <2>5. Cardinality(running') <= ExecWindow(cfg.window, Cardinality(batch))
    <3>1. CASE c \in running /\ running' = running \ {c}
      <4>1. Cardinality(running') = Cardinality(running) - 1
        BY <3>1, FiniteParts, FS_RemoveElement
      <4>2. QED
        BY <4>1, <2>2, FiniteParts, WindowTypes DEF WindowLedger
    <3>2. CASE /\ c \notin running /\ running' = running \cup {c}
               /\ Cardinality(running) < ExecWindow(cfg.window, Cardinality(batch))
      <4>1. Cardinality(running') = Cardinality(running) + 1
        BY <3>2, FiniteParts, FS_AddElement
      <4>2. QED
        BY <4>1, <3>2, FiniteParts, WindowTypes
    <3>3. QED
      BY <2>2, <2>3, <3>1, <3>2
  <2>6. QED
    BY <2>2, <2>4, <2>5 DEF WindowLedger
<1>2. CASE GatePhaseOver
  <2>1. running = {} /\ running' = {} /\ UNCHANGED <<cfg, batch>>
    BY <1>2 DEF GatePhaseOver, WindowLedger, loopVars
  <2>2. Cardinality({}) <= ExecWindow(cfg.window, Cardinality(batch))
    BY FS_EmptySet, WindowTypes
  <2>3. QED
    BY <2>1, <2>2 DEF WindowLedger
<1>3. CASE CycleGuarantees
  BY <1>3
    DEF WindowLedger, DropPass, CycleGuarantees, Silent
<1>4. CASE Pause \/ Unpause \/ Cancel
  BY <1>4
    DEF WindowLedger, Pause, Unpause, Cancel, loopVars, batchVars, yieldVars,
       passVars
<1>5. CASE OrganFails \/ EmitError \/ ErrorEvent
  BY <1>5
    DEF WindowLedger, OrganFails, EmitError, ErrorEvent, Silent, loopVars,
       batchVars, Yield, passVars
<1>6. CASE CyclePrelude \/ EmitAudit \/ EnterLoop
  BY <1>6
    DEF WindowLedger, CyclePrelude, EmitAudit, EnterLoop, Silent, loopVars,
       batchVars, Yield, passVars
<1>7. CASE Suspend \/ WaitInput \/ PauseState \/ PausedEvent
  BY <1>7
    DEF WindowLedger, Suspend, WaitInput, PauseState, PausedEvent, Yield,
       loopVars, batchVars, passVars
<1>8. CASE Round \/ Prepare \/ Think \/ ReportUsage \/ EmitGate \/ UtterAsk \/
          Utter \/ Acting \/ AnnounceDone \/ DoneEvent
  BY <1>8
    DEF WindowLedger, Round, Prepare, Think, ReportUsage, EmitGate, UtterAsk,
       Utter, Acting, AnnounceDone, DoneEvent, Silent, GapPoint, passVars,
       Thinking, Yield, loopVars, batchVars, Say
<1>9. CASE ResolveCallAsk \/ Approved \/ ResolveUtteranceAsk \/ SayResolved \/
          Rest
  BY <1>9
    DEF WindowLedger, ResolveCallAsk, Approved, ResolveUtteranceAsk,
       SayResolved, Rest, Yield, loopVars, Acting, batchVars, Say, Silent,
       passVars
<1>10. CASE Run \/ SerialCall \/ SerialOver \/ SerialGap \/ SerialGate \/
          SerialAsked \/ SerialRefused \/ Admitted \/ Feedback
  BY <1>10
    DEF WindowLedger, Run, SerialCall, SerialOver, SerialGap, SerialGate,
       SerialAsked, SerialRefused, Admitted, Feedback, Silent, loopVars,
       TakeNext, Yield, BatchOver, passVars, GapPoint, Gate, batchVars,
       Refuse, AfterCall, RecordResult
<1>11. CASE Announce \/ BatchGap \/ GatePhase \/ BatchAsked \/ BatchRefused \/
          BatchAllowed \/ ExecOver \/ FeedbackPhase \/ FeedbackPhaseOver
  BY <1>11
    DEF WindowLedger, Announce, BatchGap, GatePhase, BatchAsked, BatchRefused,
       BatchAllowed, ExecOver, FeedbackPhase, FeedbackPhaseOver, TakeNext,
       Yield, loopVars, GapPoint, Gate, Silent, passVars, Refuse,
       RecordResult, BatchOver
<1>12. CASE Cycle \/ Resume \/ ResumeRefused
  BY <1>12
    DEF WindowLedger, Cycle, Resume, ResumeRefused, FreshRun, passVars
<1>13. QED
  BY <1>1, <1>2, <1>3, <1>4, <1>5, <1>6, <1>7, <1>8, <1>9, <1>10, <1>11, <1>12
    DEF Next, LoopStep, Settling, Entering, Parking, Thinking, Resuming, Serial,
        Parallel, HostStep

LEMMA LateStep == TypeOK /\ CallLedger /\ LateLedger /\ Next => LateLedger'
<1> SUFFICES ASSUME TypeOK /\ CallLedger /\ LateLedger, Next PROVE LateLedger'
  OBVIOUS
<1>1. CASE (\E c \in Calls : ExecStart(c))
  <2>1. PICK c \in Calls : ExecStart(c)
    BY <1>1
  <2>2. /\ pc = "exec" /\ UNCHANGED <<pc, pauseFlag, batch>> /\ c \in todo /\ todo' = todo \ {c}
        /\ late' = late \/ (pauseFlag /\ late' = late + 1)
    BY <2>1 DEF ExecStart, Executed, hostVars, yieldVars
  <2>3. c \in batch /\ c \notin batch \ todo /\ batch' \ todo' = (batch \ todo) \cup {c}
    BY <2>1, <2>2 DEF CallLedger, Passes
  <2>4. Cardinality(batch' \ todo') = Cardinality(batch \ todo) + 1
    BY <2>3, FiniteParts, FS_AddElement
  <2>5. late <= Cardinality(batch \ todo)
    BY <2>2 DEF LateLedger
  <2>6. late' <= Cardinality(batch' \ todo')
    BY <2>2, <2>4, <2>5, FiniteParts DEF TypeOK, HistoryOK
  <2>7. late' > 0 => pauseFlag'
    BY <2>2 DEF LateLedger
  <2>8. QED
    BY <2>2, <2>6, <2>7 DEF LateLedger
<1>2. CASE (\E c \in Calls : ExecReturn(c))
  BY <1>2 DEF LateLedger, ExecReturn, envVars, yieldVars, hostVars
<1>3. CASE GatePhaseOver
  <2>1. late = 0 /\ late' = 0 /\ pc' = "exec" /\ todo' = batch /\ batch' = batch
    BY <1>3, LateTypes DEF LateLedger, GatePhaseOver, Silent, envVars
  <2>2. batch' \ todo' = {} /\ Cardinality({}) = 0
    BY <2>1, FS_EmptySet
  <2>3. QED
    BY <2>1, <2>2 DEF LateLedger
<1>4. CASE ExecOver
  <2>1. /\ UNCHANGED <<late, pauseFlag, batch>> /\ pc' = "feedbackPhase" /\ pc = "exec"
        /\ batch \ todo = batch
    BY <1>4 DEF ExecOver, Silent, envVars, hostVars
  <2>2. QED
    BY <2>1 DEF LateLedger
<1>5. CASE Admitted
  <2>1. late = 0 /\ pauseFlag' = pauseFlag
    BY <1>5, LateTypes DEF LateLedger, Admitted, hostVars
  <2>2. late' = 0 \/ (pauseFlag /\ late' = 1)
    BY <1>5, <2>1 DEF Admitted, Executed
  <2>3. pc' \in {"suspend", "feedback"}
    BY <1>5 DEF Admitted, Silent
  <2>4. QED
    BY <2>1, <2>2, <2>3 DEF LateLedger
<1>6. CASE Round \/ SerialGap \/ BatchGap
  <2>1. UNCHANGED <<late, pauseFlag, batch>> /\ pc \in {"round", "gap", "announce"}
    BY <1>6 DEF Round, SerialGap, BatchGap, envVars, hostVars, passVars
  <2>2. pc' \in {"error", "pausing"} \/ ~pauseFlag
    BY <1>6 DEF Round, SerialGap, BatchGap, GapPoint, Silent
  <2>3. ~pauseFlag => late = 0
    BY LateTypes DEF LateLedger
  <2>4. pc' \notin {"exec"}
    BY <1>6 DEF Round, SerialGap, BatchGap, GapPoint, Silent
  <2>5. CASE late = 0
    BY <2>1, <2>4, <2>5 DEF LateLedger
  <2>6. CASE pc' \in {"error", "pausing"}
    <3>1. late > 1 => late <= Cardinality(batch)
      BY <2>1, LateTypes DEF LateLedger
    <3>2. QED
      BY <2>1, <2>6, <3>1 DEF LateLedger
  <2>7. QED
    BY <2>2, <2>3, <2>5, <2>6, Zenon
<1>7. CASE CycleGuarantees \/ Unpause \/ Cycle \/ Resume \/ ResumeRefused
  <2>1. late' = 0 /\ (pc' # "exec" \/ UNCHANGED <<pc, batch, todo>>)
    BY <1>7 DEF CycleGuarantees, Unpause, Cycle, Resume, ResumeRefused, FreshRun, Silent,
       yieldVars, batchVars, passVars
  <2>2. Cardinality(batch \ todo) \in Nat
    BY FiniteParts
  <2>3. pc' = "exec" => Cardinality(batch' \ todo') \in Nat
    BY <2>1, <2>2
  <2>4. QED
    BY <2>1, <2>3 DEF LateLedger
<1>8. CASE OrganFails \/ EmitError \/ ErrorEvent
  BY <1>8, LateTypes
    DEF LateLedger, OrganFails, EmitError, ErrorEvent, Silent, batchVars,
       envVars, Yield, passVars, hostVars
<1>9. CASE CyclePrelude \/ EmitAudit \/ EnterLoop
  BY <1>9, LateTypes
    DEF LateLedger, CyclePrelude, EmitAudit, EnterLoop, Silent, batchVars,
       envVars, Yield, passVars, hostVars
<1>10. CASE Suspend \/ WaitInput \/ PauseState \/ PausedEvent
  BY <1>10, LateTypes
    DEF LateLedger, Suspend, WaitInput, PauseState, PausedEvent, Yield,
       batchVars, envVars, hostVars, passVars
<1>11. CASE Prepare \/ Think \/ ReportUsage \/ EmitGate \/ UtterAsk \/ Utter
          \/ Acting \/ AnnounceDone \/ DoneEvent
  BY <1>11, LateTypes
    DEF LateLedger, Prepare, Think, ReportUsage, EmitGate, UtterAsk, Utter,
       Acting, AnnounceDone, DoneEvent, Thinking, Yield, batchVars, envVars,
       Silent, passVars, Say, Round, hostVars, GapPoint
<1>12. CASE ResolveCallAsk \/ Approved \/ ResolveUtteranceAsk \/ SayResolved
          \/ Rest
  BY <1>12, LateTypes
    DEF LateLedger, ResolveCallAsk, Approved, ResolveUtteranceAsk,
       SayResolved, Rest, Yield, envVars, Acting, batchVars, Say, Silent,
       passVars, hostVars
<1>13. CASE Run \/ SerialCall \/ SerialOver \/ SerialGate \/ SerialAsked \/
          SerialRefused \/ Feedback
  BY <1>13, LateTypes
    DEF LateLedger, Run, SerialCall, SerialOver, SerialGate, SerialAsked,
       SerialRefused, Feedback, Silent, envVars, TakeNext, Yield, BatchOver,
       passVars, Gate, batchVars, Refuse, AfterCall, RecordResult, hostVars
<1>14. CASE Announce \/ GatePhase \/ BatchAsked \/ BatchRefused \/
          BatchAllowed \/ FeedbackPhase \/ FeedbackPhaseOver
  BY <1>14, LateTypes
    DEF LateLedger, Announce, GatePhase, BatchAsked, BatchRefused,
       BatchAllowed, FeedbackPhase, FeedbackPhaseOver, TakeNext, Yield,
       envVars, Gate, Silent, passVars, Refuse, RecordResult, BatchOver,
       hostVars
<1>15. CASE Pause \/ Cancel
  BY <1>15, LateTypes
    DEF LateLedger, Pause, Cancel, batchVars, yieldVars, passVars, hostVars
<1>16. QED
  BY <1>1, <1>2, <1>3, <1>4, <1>5, <1>6, <1>7, <1>8, <1>9, <1>10, <1>11,
     <1>12, <1>13, <1>14, <1>15
    DEF Next, LoopStep, Settling, Entering, Parking, Thinking, Resuming, Serial,
        Parallel, HostStep

-----------------------------------------------------------------------------
(* The contract about calls. *)

Open == {c \in Issued : Settled(c) = 0}
HeldOpen == {c \in Issued : held.toolResults[c] + held.refusals[c] = 0}
HasExecuted == {c \in Calls : acted[c] > 0}

(* The contract's state in each of its phases, before and after a step. *)
LEMMA Mapped ==
    /\ Valid(held) => Phase = "parked" /\ OpenCalls = HeldOpen
    /\ ~Valid(held) /\ round # 0 => Phase = "live" /\ OpenCalls = Open
    /\ ~Valid(held) /\ round = 0 => Phase = "rest" /\ OpenCalls = {}
  BY DEF Phase, OpenCalls, Open, HeldOpen

LEMMA MappedNext ==
    /\ Valid(held') => Phase' = "parked" /\ OpenCalls' = HeldOpen'
    /\ ~Valid(held') /\ round' # 0 => Phase' = "live" /\ OpenCalls' = Open'
    /\ ~Valid(held') /\ round' = 0 => Phase' = "rest" /\ OpenCalls' = {}
  BY DEF Phase, OpenCalls, Open, HeldOpen

LEMMA LiveRun ==
    ASSUME CallLedger, RoundLedger, Live
    PROVE  ~Valid(held) /\ round # 0 /\ Phase = "live" /\ OpenCalls = Open
<1>1. ~Valid(held) /\ round # 0
  BY HeldNotLive DEF RoundLedger, Rounds
<1>2. QED
  BY <1>1, Mapped

LEMMA IssuedCalls == TypeOK => \A c : c \in Issued <=> c \in Calls /\ c <= issued
  BY BoundsAssumption DEF Issued, Calls, TypeOK, HistoryOK

(* A step that touches neither answers, executions nor the handle is none   *)
(* of the contract's, and one that keeps the run in its phase stays there.  *)
LEMMA Untouched ==
    ASSUME UNCHANGED <<held, issued, toolResults, refusals, acted>>,
           (round = 0) <=> (round' = 0)
    PROVE  UNCHANGED Contract!cvars
<1>1. UNCHANGED <<Issued, Open, HeldOpen, HasExecuted>>
  BY DEF Issued, Open, HeldOpen, HasExecuted, Settled
<1>2. Phase' = Phase /\ OpenCalls' = OpenCalls
  BY <1>1, Mapped, MappedNext
<1>3. QED
  BY <1>1, <1>2 DEF Contract!cvars, HasExecuted

(* One answer closes one open call. *)
LEMMA OneAnswer ==
    ASSUME TypeOK, CallLedger, RoundLedger, Live, NEW c \in Calls, c <= issued, Settled(c) = 0,
           \A d \in Calls : Settled(d)' = IF d = c THEN 1 ELSE Settled(d),
           UNCHANGED <<held, round, issued, acted>>
    PROVE  Contract!Answer
<1>1. Phase = "live" /\ OpenCalls = Open /\ Phase' = "live" /\ OpenCalls' = Open'
  BY LiveRun, MappedNext
<1>2. c \in Open /\ Open' = Open \ {c}
  BY IssuedCalls DEF Open, Issued
<1>3. HasExecuted' = HasExecuted
  BY DEF HasExecuted
<1>4. QED
  BY <1>1, <1>2, <1>3 DEF Contract!Answer, HasExecuted

(* A call enters its tool while it is open and for the first time. *)
LEMMA OneExecution ==
    ASSUME TypeOK, CallLedger, RoundLedger, Live, NEW c \in Calls, c <= issued, Settled(c) = 0,
           acted[c] = 0, \A d \in Calls : acted'[d] = IF d = c THEN 1 ELSE acted[d],
           UNCHANGED <<held, round, issued, toolResults, refusals>>
    PROVE  Contract!Execute
<1>1. Phase = "live" /\ OpenCalls = Open /\ Phase' = "live" /\ OpenCalls' = Open'
  BY LiveRun, MappedNext
<1>2. c \in Open /\ Open' = Open
  BY IssuedCalls DEF Open, Issued, Settled
<1>3. c \notin HasExecuted /\ HasExecuted' = HasExecuted \cup {c}
  BY DEF HasExecuted
<1>4. QED
  BY <1>1, <1>2, <1>3 DEF Contract!Execute, HasExecuted

LEMMA CycleBegins ==
    ASSUME TypeOK, CallLedger, RoundLedger, Cycle PROVE Contract!Begin
<1>1. Phase # "live"
  <2>1. round = 0
    BY DEF Cycle, FreshRun, RoundLedger, Rounds
  <2>2. QED
    BY <2>1, Mapped
<1>2. ~Valid(held') /\ round' # 0 /\ issued' = 0 /\ acted' = NoneOf
  BY DEF Cycle, Valid, ZeroSession
<1>3. Open' = {} /\ HasExecuted' = {}
  BY <1>2 DEF Open, Issued, HasExecuted, NoneOf
<1>4. QED
  BY <1>1, <1>2, <1>3, MappedNext DEF Contract!Begin, HasExecuted

LEMMA ThinkIssues ==
    ASSUME TypeOK, CallLedger, RoundLedger, Think PROVE Contract!Issue
<1>1. pc = "think" /\ UNCHANGED <<held, round, toolResults, refusals, acted>>
  BY DEF Think, lcVars, trackVars, envVars
<1>2. Phase = "live" /\ OpenCalls = Open /\ Phase' = "live" /\ OpenCalls' = Open'
  BY <1>1, LiveRun, MappedNext DEF Live
<1>3. PICK n \in 0 .. MaxBatch : issued + n <= MaxCalls /\ issued' = issued + n
  BY DEF Think
<1>4. issued \in Nat /\ issued' \in issued .. MaxCalls
  BY <1>3, BoundsAssumption DEF TypeOK, HistoryOK
<1>5. Open = {}
  BY <1>1, NothingOpen DEF Open
<1>6. \A c \in Calls : c > issued => Settled(c) = 0
  BY <1>1 DEF CallLedger, Answers, Live
<1>7. \A c \in Issued : Settled(c) = 1
  BY <1>1, NothingOpen
<1>8. \A c : c \in Issued' <=> c \in Issued \/ c \in issued + 1 .. issued'
  BY <1>4 DEF Issued
<1>9. \A c \in issued + 1 .. issued' : c \in Calls /\ c > issued
  BY <1>4, BoundsAssumption DEF Calls
<1>10. Open' = issued + 1 .. issued'
  <2>1. \A c \in Issued' : Settled(c)' = Settled(c)
    BY <1>1 DEF Settled
  <2>2. \A c \in Issued : c \notin issued + 1 .. issued'
    BY <1>4 DEF Issued
  <2>3. QED
    BY <1>6, <1>7, <1>8, <1>9, <2>1, <2>2 DEF Open
<1>11. HasExecuted' = HasExecuted
  BY <1>1 DEF HasExecuted
<1>12. QED
  BY <1>2, <1>4, <1>5, <1>10, <1>11 DEF Contract!Issue, HasExecuted

LEMMA WaitParks ==
    ASSUME TypeOK, CallLedger, RoundLedger, WaitInput \/ PausedEvent PROVE Contract!Park
<1>1. pc \in {"waitInput", "paused"} /\ UNCHANGED <<issued, acted>> /\ held' = Snapshot(susp)
  BY DEF WaitInput, PausedEvent, histVars, countVars
<1>2. Phase = "live" /\ OpenCalls = Open
  BY <1>1, LiveRun DEF Live
<1>3. round >= 1
  BY <1>1 DEF RoundLedger, Rounds, Live
<1>4. Valid(held') /\ held'.toolResults = toolResults /\ held'.refusals = refusals
  BY <1>1, <1>3 DEF Valid, Snapshot
<1>5. HeldOpen' = Open
  BY <1>1, <1>4 DEF HeldOpen, Open, Issued, Settled
<1>6. HasExecuted' = HasExecuted
  BY <1>1 DEF HasExecuted
<1>7. QED
  BY <1>1, <1>2, <1>4, <1>5, <1>6, MappedNext DEF Contract!Park, HasExecuted

LEMMA ResumeContinues ==
    ASSUME TypeOK, CallLedger, RoundLedger, Resume PROVE Contract!Continue
<1>1. Valid(held) /\ UNCHANGED <<issued, acted>> /\ round' # 0 /\ ~Valid(held')
  BY DEF Resume, Valid, ZeroSession
<1>2. Phase = "parked" /\ OpenCalls = HeldOpen /\ Phase' = "live" /\ OpenCalls' = Open'
  BY <1>1, Mapped, MappedNext
<1>3. HasExecuted' = HasExecuted
  BY <1>1 DEF HasExecuted
<1>4. \A d \in Calls :
        Settled(d)' = held.toolResults[d] + held.refusals[d]
                            + (IF held.kind = "tool" /\ d = held.pending THEN 1 ELSE 0)
  BY Resumed
<1>5. held.toolResults \in [Calls -> Nat] /\ held.refusals \in [Calls -> Nat]
  BY DEF TypeOK, HandlesOK, Session
<1>6. CASE held.kind # "tool"
  <2>1. \A d \in Calls : Settled(d)' = held.toolResults[d] + held.refusals[d]
    BY <1>4, <1>5, <1>6
  <2>2. Open' = HeldOpen
    BY <1>1, <2>1, IssuedCalls DEF Open, HeldOpen, Issued
  <2>3. QED
    BY <1>1, <1>2, <1>3, <2>2 DEF Contract!Continue, HasExecuted
<1>7. CASE held.kind = "tool"
  <2>1. held.pending \in Calls
    BY <1>7 DEF CallLedger, Shapes, Shape, TypeOK, HandlesOK, Session
  <2>2. /\ held.toolResults[held.pending] + held.refusals[held.pending] = 0
        /\ held.pending <= issued
    BY <1>7, <2>1, Resumed
  <2>3. acted[held.pending] = 1
    BY <1>1, <1>7, <2>1, Numbers DEF CallLedger, Handles, NonZero
  <2>4. held.pending \in HeldOpen \cap HasExecuted
    BY <2>1, <2>2, <2>3, IssuedCalls DEF HeldOpen, HasExecuted
  <2>5. \A d \in Calls : Settled(d)' = 0 <=> held.toolResults[d] + held.refusals[d] = 0 /\ d # held.pending
    BY <1>4, <1>5, <1>7, <2>2
  <2>6. Open' = HeldOpen \ {held.pending}
    BY <1>1, <2>5, IssuedCalls DEF Open, HeldOpen, Issued
  <2>7. QED
    BY <1>1, <1>2, <1>3, <2>4, <2>6 DEF Contract!Continue, HasExecuted
<1>8. QED
  BY <1>6, <1>7

LEMMA SettleEnds ==
    ASSUME TypeOK, CallLedger, RoundLedger, CycleGuarantees
    PROVE  Contract!End \/ UNCHANGED Contract!cvars
<1>1. UNCHANGED <<held, issued, acted>> /\ round' = 0
  BY DEF CycleGuarantees, countVars
<1>2. UNCHANGED <<Issued, HeldOpen, HasExecuted>>
  BY <1>1 DEF Issued, HeldOpen, HasExecuted
<1>3. CASE Valid(held)
  BY <1>1, <1>2, <1>3, Mapped, MappedNext DEF Contract!cvars, HasExecuted
<1>4. CASE ~Valid(held) /\ round = 0
  BY <1>1, <1>2, <1>4, Mapped, MappedNext DEF Contract!cvars, HasExecuted
<1>5. CASE ~Valid(held) /\ round # 0
  BY <1>1, <1>2, <1>5, Mapped, MappedNext DEF Contract!End, HasExecuted
<1>6. QED
  BY <1>3, <1>4, <1>5

(* Every step of the loop is one of the contract's or none. *)
LEMMA ContractStep ==
    ASSUME TypeOK, CallLedger, RoundLedger, Next
    PROVE  Contract!Next \/ UNCHANGED Contract!cvars
<1>1. CASE Cycle
  BY <1>1, CycleBegins DEF Contract!Next
<1>2. CASE Think
  BY <1>2, ThinkIssues DEF Contract!Next
<1>3. CASE WaitInput \/ PausedEvent
  BY <1>3, WaitParks DEF Contract!Next
<1>4. CASE Resume
  BY <1>4, ResumeContinues DEF Contract!Next
<1>5. CASE CycleGuarantees
  BY <1>5, SettleEnds DEF Contract!Next
<1>6. CASE Admitted
  <2>1. Settled(cur) = 0
    BY <1>6, CurExecuted DEF Admitted, CallLedger, OwesSerial, Owes
  <2>2. UNCHANGED <<held, round, issued, toolResults, refusals>> /\ Live
    BY <1>6 DEF Admitted, lcVars, trackVars, countVars, Live
  <2>3. QED
    BY <1>6, <2>1, <2>2, CurExecuted, OneExecution DEF Contract!Next
<1>7. CASE \E c \in Calls : ExecStart(c)
  <2>1. PICK c \in Calls : ExecStart(c)
    BY <1>7
  <2>2. Settled(c) = 0
    BY <2>1, BatchExecuted DEF ExecStart, CallLedger, OwesBatch, Owes
  <2>3. UNCHANGED <<held, round, issued, toolResults, refusals>> /\ Live
    BY <2>1 DEF ExecStart, lcVars, trackVars, countVars, Live
  <2>4. QED
    BY <2>1, <2>2, <2>3, BatchExecuted, OneExecution DEF Contract!Next
<1>8. CASE SerialRefused \/ Feedback \/ BatchRefused
  <2>1. UNCHANGED <<held, round, issued, acted>> /\ Live
    BY <1>8
      DEF SerialRefused, Feedback, BatchRefused, batchVars, envVars, histVars, countVars, Live
  <2>2. QED
    BY <1>8, <2>1, CurAnswered, OneAnswer DEF Contract!Next
<1>9. CASE FeedbackPhase
  <2>1. UNCHANGED <<held, round, issued, acted>> /\ Live
    BY <1>9 DEF FeedbackPhase, envVars, histVars, countVars, Live
  <2>2. cur' \in Calls
    BY <1>9, FedBack DEF TypeOK, BatchOK
  <2>3. CASE UNCHANGED <<toolResults, refusals>>
    BY <2>1, <2>3, Untouched
  <2>4. CASE \A d \in Calls : Settled(d)' = IF d = cur' THEN 1 ELSE Settled(d)
    BY <1>9, <2>1, <2>2, <2>4, FedBack, OneAnswer DEF Contract!Next
  <2>5. QED
    BY <1>9, <2>3, <2>4, FedBack
<1>10. CASE SerialOver \/ FeedbackPhaseOver
  <2>1. UNCHANGED <<held, issued, toolResults, refusals, acted>> /\ Live
    BY <1>10
      DEF SerialOver, FeedbackPhaseOver, lcVars, trackVars, envVars, histVars, countVars, Live
  <2>2. round' = round \/ round' = round + 1
    BY <1>10 DEF SerialOver, FeedbackPhaseOver, BatchOver
  <2>3. round' # 0 /\ round # 0
    BY <2>1, <2>2 DEF RoundLedger, Rounds, TypeOK, BatchOK
  <2>4. QED
    BY <2>1, <2>3, Untouched
<1>11. CASE ResumeRefused
  <2>1. UNCHANGED <<held, issued, acted>> /\ round = 0 /\ round' = 0
    BY <1>11 DEF ResumeRefused, FreshRun, RoundLedger, Rounds
  <2>2. UNCHANGED <<Issued, HeldOpen, HasExecuted>>
    BY <2>1 DEF Issued, HeldOpen, HasExecuted
  <2>3. QED
    BY <2>1, <2>2, Mapped, MappedNext DEF Contract!cvars, HasExecuted
<1>12. CASE OrganFails \/ EmitError \/ ErrorEvent
  <2>1. UNCHANGED <<held, round, issued, toolResults, refusals, acted>>
    BY <1>12
      DEF OrganFails, EmitError, ErrorEvent, lcVars, batchVars, envVars,
         histVars, trackVars, countVars
  <2>2. QED
    BY <2>1, Untouched
<1>13. CASE CyclePrelude \/ EmitAudit \/ EnterLoop
  <2>1. UNCHANGED <<held, round, issued, toolResults, refusals, acted>>
    BY <1>13
      DEF CyclePrelude, EmitAudit, EnterLoop, lcVars, batchVars, envVars,
         histVars, trackVars, countVars
  <2>2. QED
    BY <2>1, Untouched
<1>14. CASE Suspend \/ PauseState
  <2>1. UNCHANGED <<held, round, issued, toolResults, refusals, acted>>
    BY <1>14
      DEF Suspend, PauseState, trackVars, batchVars, envVars, histVars,
         countVars
  <2>2. QED
    BY <2>1, Untouched
<1>15. CASE Round \/ Prepare \/ ReportUsage \/ EmitGate \/ UtterAsk \/ Utter
          \/ Acting \/ AnnounceDone \/ DoneEvent
  <2>1. UNCHANGED <<held, round, issued, toolResults, refusals, acted>>
    BY <1>15
      DEF Round, Prepare, ReportUsage, EmitGate, UtterAsk, Utter, Acting,
         AnnounceDone, DoneEvent, trackVars, envVars, histVars, batchVars,
         lcVars, countVars
  <2>2. QED
    BY <2>1, Untouched
<1>16. CASE ResolveCallAsk \/ Approved \/ ResolveUtteranceAsk \/ SayResolved
          \/ Rest
  <2>1. UNCHANGED <<held, round, issued, toolResults, refusals, acted>>
    BY <1>16
      DEF ResolveCallAsk, Approved, ResolveUtteranceAsk, SayResolved, Rest,
         lcVars, envVars, countVars, trackVars, batchVars, histVars
  <2>2. QED
    BY <2>1, Untouched
<1>17. CASE Run \/ SerialCall \/ SerialGap \/ SerialGate \/ SerialAsked
  <2>1. UNCHANGED <<held, round, issued, toolResults, refusals, acted>>
    BY <1>17
      DEF Run, SerialCall, SerialGap, SerialGate, SerialAsked, lcVars,
         envVars, histVars, batchVars, countVars, trackVars
  <2>2. QED
    BY <2>1, Untouched
<1>18. CASE Announce \/ BatchGap \/ GatePhase \/ GatePhaseOver \/ BatchAsked
          \/ BatchAllowed \/ ExecOver \/ (\E c \in Calls : ExecReturn(c))
  <2>1. UNCHANGED <<held, round, issued, toolResults, refusals, acted>>
    BY <1>18
      DEF Announce, BatchGap, GatePhase, GatePhaseOver, BatchAsked,
         BatchAllowed, ExecReturn, ExecOver, lcVars, envVars, histVars,
         countVars, trackVars
  <2>2. QED
    BY <2>1, Untouched
<1>19. CASE Pause \/ Unpause \/ Cancel
  <2>1. UNCHANGED <<held, round, issued, toolResults, refusals, acted>>
    BY <1>19
      DEF Pause, Unpause, Cancel, lcVars, batchVars, histVars, trackVars,
         countVars
  <2>2. QED
    BY <2>1, Untouched
<1>20. QED
  BY <1>1, <1>2, <1>3, <1>4, <1>5, <1>6, <1>7, <1>8, <1>9, <1>10, <1>11,
     <1>12, <1>13, <1>14, <1>15, <1>16, <1>17, <1>18, <1>19
    DEF Next, LoopStep, Settling, Entering, Parking, Thinking, Resuming, Serial,
        Parallel, HostStep

-----------------------------------------------------------------------------
(* The ledgers are invariant. *)

LEMMA LedgersInit == Init => DraftLedger /\ StreamLedger /\ RoundLedger /\ LateLedger /\ WindowLedger
<1> SUFFICES ASSUME Init
             PROVE  DraftLedger /\ StreamLedger /\ RoundLedger /\ LateLedger /\ WindowLedger
  OBVIOUS
<1>1. Vetoed = {} /\ ~Valid(sess) /\ ~Valid(held) /\ pc = "idle" /\ DOMAIN heard = {}
  BY DEF Init, Vetoed, Valid, ZeroSession
<1>2. ~DraftWaits /\ ~Pending /\ ~Live
  BY <1>1 DEF DraftWaits, Pending, Withheld, Live
<1>3. DraftLedger
  BY <1>1, <1>2 DEF DraftLedger, Waiting, Ruled, Heard, Told
<1>4. StreamLedger
  BY <1>1, <1>2 DEF Init, StreamLedger, Outcome, LastEvent, Ended, Final, Announced
<1>5. RoundLedger
  BY <1>1, <1>2
    DEF Init, RoundLedger, Rounds, Spent, Entered, InBatch, Decided
<1>6. LateLedger /\ WindowLedger
  BY DEF Init, LateLedger, WindowLedger
<1>7. QED
  BY <1>3, <1>4, <1>5, <1>6

LEMMA LedgersStep ==
    ASSUME TypeOK, CallLedger, Next,
           DraftLedger /\ StreamLedger /\ RoundLedger /\ LateLedger /\ WindowLedger
    PROVE  (DraftLedger /\ StreamLedger /\ RoundLedger /\ LateLedger /\ WindowLedger)'
<1>1. DraftLedger'
  BY WaitingStep, RuledStep, HeardStep, ToldStep DEF DraftLedger
<1>2. StreamLedger'
  BY OutcomeStep, LastEventStep, EndedStep, FinalStep DEF StreamLedger
<1>3. RoundLedger'
  BY RoundsStep, SpentStep DEF RoundLedger
<1>4. LateLedger' /\ WindowLedger'
  BY LateStep, WindowStep
<1>5. QED
  BY <1>1, <1>2, <1>3, <1>4

LEMMA LedgersStutter ==
    ASSUME UNCHANGED vars,
           DraftLedger /\ StreamLedger /\ RoundLedger /\ LateLedger /\ WindowLedger
    PROVE  (DraftLedger /\ StreamLedger /\ RoundLedger /\ LateLedger /\ WindowLedger)'
<1> USE DEF vars, yieldVars, loopVars, lcVars, trackVars, batchVars, passVars,
            envVars, hostVars, histVars, countVars, auditVars, sayVars
<1>1. DraftLedger'
  BY DEF DraftLedger, Waiting, Ruled, Heard, Told, DraftWaits, Pending, Withheld, Vetoed, Live
<1>2. StreamLedger'
  BY DEF StreamLedger, Outcome, LastEvent, Ended, Final, Live
<1>3. RoundLedger'
  BY AllowanceKept DEF RoundLedger, Rounds, Spent, Live, Issued, Settled
<1>4. LateLedger' /\ WindowLedger'
  BY DEF LateLedger, WindowLedger
<1>5. QED
  BY <1>1, <1>2, <1>3, <1>4

(* The ledgers of drafts, of the stream, of rounds, of late work and of the *)
(* execution window hold throughout, on top of the ledger of calls (cycle,  *)
(* run, runParallel, execPhase, utter, suspend, cycleGuarantees).           *)
THEOREM LedgersInvariant ==
    Spec => [](DraftLedger /\ StreamLedger /\ RoundLedger /\ LateLedger /\ WindowLedger)
<1>1. /\ DraftLedger /\ StreamLedger /\ RoundLedger /\ LateLedger /\ WindowLedger
      /\ TypeOK /\ CallLedger /\ [Next]_vars
      => (DraftLedger /\ StreamLedger /\ RoundLedger /\ LateLedger /\ WindowLedger)'
  BY LedgersStep, LedgersStutter
<1>2. QED
  BY <1>1, LedgersInit, LedgerInvariant, PTL DEF Spec

-----------------------------------------------------------------------------
(* What the runs check, for every bound and every set of configurations.    *)

(* When the brain thinks and when a cycle is done, every call of the chain  *)
(* has one answer in the tracks and every denied draft its veto (run,       *)
(* runParallel, utter, resolveUtteranceAsk, Resume).                        *)
THEOREM AnswersSeen == Spec => []BrainSeesEveryAnswer
<1>1. TypeOK /\ CallLedger /\ DraftLedger => BrainSeesEveryAnswer
  BY NothingOpen DEF DraftLedger, Told, Vetoed, Live, BrainSeesEveryAnswer
<1>2. QED
  BY <1>1, LedgerInvariant, LedgersInvariant, PTL

(* No draft is heard before it was allowed, a denied one only as its        *)
(* denial, and none twice (gateEmit, utter, resolveUtteranceAsk).           *)
THEOREM DraftsWithheld == Spec => []WithheldDraftsStayUnheard
<1>1. DraftLedger => WithheldDraftsStayUnheard
  BY DEF DraftLedger, Heard, WithheldDraftsStayUnheard
<1>2. QED
  BY <1>1, LedgersInvariant, PTL

(* The output of a chain is what its consumer heard, across suspensions     *)
(* (utter, snapshot, Resume, emitDone).                                     *)
THEOREM OutputHeard == Spec => []OutputIsWhatWasHeard
<1>1. DraftLedger /\ StreamLedger => OutputIsWhatWasHeard
  BY DEF DraftLedger, Told, StreamLedger, Final, Live, OutputIsWhatWasHeard
<1>2. QED
  BY <1>1, LedgersInvariant, PTL

(* The outcome OnCycleEnd gets agrees with how the stream ended, also when  *)
(* the consumer stops inside the closing events (endWith, cycleGuarantees). *)
THEOREM OutcomeMatches == Spec => []OutcomeMatchesStream
<1>1. StreamLedger => OutcomeMatchesStream
  BY DEF StreamLedger, Ended, OutcomeMatchesStream
<1>2. QED
  BY <1>1, LedgersInvariant, PTL

(* No invocation takes more decisions than its starting round leaves it,    *)
(* and MaxRounds is reported only when they are spent and nothing is open   *)
(* (cycle).                                                                 *)
THEOREM RoundsBudgeted == Spec => []RoundBudget
<1>1. RoundLedger => RoundBudget
  BY DEF RoundLedger, Rounds, Spent, Allowed, Budget, First, RoundBudget
<1>2. QED
  BY <1>1, LedgersInvariant, PTL

(* A standing pause request lets at most one more call, or the batch that   *)
(* was already admitted, execute (checkGap, run, execPhase).                *)
THEOREM PauseBounded == Spec => []PauseBoundsWork
<1>1. TypeOK /\ CallLedger /\ LateLedger => PauseBoundsWork
  <2> SUFFICES ASSUME TypeOK, CallLedger, LateLedger, late > 1
               PROVE  late <= Cardinality(batch)
    BY DEF PauseBoundsWork
  <2>1. late \in Nat
    BY LateTypes
  <2>2. CASE pc = "exec"
    <3>1. late <= Cardinality(batch \ todo)
      BY <2>2 DEF LateLedger
    <3>2. Cardinality(batch \ todo) <= Cardinality(batch)
      BY FiniteParts, FS_Subset
    <3>3. QED
      BY <2>1, <3>1, <3>2, FiniteParts
  <2>3. CASE pc # "exec"
    BY <2>1, <2>3 DEF LateLedger
  <2>4. QED
    BY <2>2, <2>3
<1>2. QED
  BY <1>1, LedgerInvariant, LedgersInvariant, PTL

(* No more goroutines execute than the window admits, each for a call of    *)
(* the batch that has not executed before (execPhase).                      *)
THEOREM WindowKept == Spec => []WindowRespected
<1>1. TypeOK /\ CallLedger /\ WindowLedger => WindowRespected
  <2> SUFFICES ASSUME TypeOK, CallLedger, WindowLedger, pc = "exec"
               PROVE  /\ Cardinality(running) <= Cardinality(batch)
                      /\ cfg.window > 0 => Cardinality(running) <= cfg.window
                      /\ todo \cap running = {} /\ todo \cup running \subseteq batch
                      /\ \A c \in batch : acted[c] = IF c \in todo THEN 0 ELSE 1
    BY DEF WindowRespected
  <2>1. Cardinality(running) <= ExecWindow(cfg.window, Cardinality(batch))
    BY DEF WindowLedger
  <2>2. cfg.window \in Int
    BY ConfigsAssumption DEF TypeOK, ControlOK
  <2>3. /\ Cardinality(running) <= Cardinality(batch)
        /\ cfg.window > 0 => Cardinality(running) <= cfg.window
    BY <2>1, <2>2, FiniteParts, WindowTypes
  <2>4. todo \cap running = {} /\ todo \cup running \subseteq batch
    BY DEF WindowLedger, CallLedger, Passes
  <2>5. \A c \in batch : acted[c] = IF c \in todo THEN 0 ELSE 1
    BY DEF CallLedger, OwesBatch, Owes, TypeOK, BatchOK
  <2>6. QED
    BY <2>3, <2>4, <2>5
<1>2. QED
  BY <1>1, LedgerInvariant, LedgersInvariant, PTL

(* Only the host and the resumption of a pause lower a pause request        *)
(* (Unpause, Resume).                                                       *)
THEOREM RequestOwned == Spec => RequestLoweredOnlyByItsOwner
<1> DEFINE Owned == pauseFlag /\ ~pauseFlag' =>
                      pc' = pc \/ (pc = "idle" /\ held.kind = "pause" /\ Valid(held))
<1>1. HostOK /\ Next => Owned
  <2> SUFFICES ASSUME HostOK, Next PROVE Owned
    OBVIOUS
  <2>1. CASE OrganFails \/ EmitError \/ ErrorEvent \/ CycleGuarantees
    BY <2>1, Zenon
      DEF HostOK, OrganFails, EmitError, ErrorEvent, CycleGuarantees, Silent,
         envVars, Yield, hostVars
  <2>2. CASE CyclePrelude \/ EmitAudit \/ EnterLoop
    BY <2>2, Zenon
      DEF HostOK, CyclePrelude, EmitAudit, EnterLoop, Silent, envVars, Yield,
         hostVars
  <2>3. CASE Suspend \/ WaitInput \/ PauseState \/ PausedEvent
    BY <2>3, Zenon
      DEF HostOK, Suspend, WaitInput, PauseState, PausedEvent, Yield, envVars,
         hostVars
  <2>4. CASE Round \/ Prepare \/ Think \/ ReportUsage \/ EmitGate \/ UtterAsk
            \/ Utter \/ Acting \/ AnnounceDone \/ DoneEvent
    BY <2>4, Zenon
      DEF HostOK, Round, Prepare, Think, ReportUsage, EmitGate, UtterAsk,
         Utter, Acting, AnnounceDone, DoneEvent, Silent, GapPoint, envVars,
         Thinking, Yield, Say, hostVars
  <2>5. CASE ResolveCallAsk \/ Approved \/ ResolveUtteranceAsk \/ SayResolved
            \/ Rest
    BY <2>5, Zenon
      DEF HostOK, ResolveCallAsk, Approved, ResolveUtteranceAsk, SayResolved,
         Rest, Yield, envVars, Acting, Say, Silent, hostVars
  <2>6. CASE Run \/ SerialCall \/ SerialOver \/ SerialGap \/ SerialGate \/
            SerialAsked \/ SerialRefused \/ Admitted \/ Feedback
    BY <2>6, Zenon
      DEF HostOK, Run, SerialCall, SerialOver, SerialGap, SerialGate,
         SerialAsked, SerialRefused, Admitted, Feedback, Silent, envVars,
         Yield, BatchOver, GapPoint, Gate, Refuse, AfterCall, hostVars,
         RecordResult
  <2>7. CASE Announce \/ BatchGap \/ GatePhase \/ GatePhaseOver \/ BatchAsked
            \/ BatchRefused \/ BatchAllowed \/ ExecOver \/ FeedbackPhase \/
            FeedbackPhaseOver \/ (\E c \in Calls : ExecStart(c) \/
            ExecReturn(c))
    BY <2>7, Zenon
      DEF HostOK, Announce, BatchGap, GatePhase, GatePhaseOver, BatchAsked,
         BatchRefused, BatchAllowed, ExecStart, ExecReturn, ExecOver,
         FeedbackPhase, FeedbackPhaseOver, Yield, envVars, GapPoint, Gate,
         Silent, Refuse, hostVars, yieldVars, RecordResult, BatchOver
  <2>8. CASE Pause \/ Unpause \/ Cancel \/ Cycle \/ Resume \/ ResumeRefused
    BY <2>8, Zenon
      DEF HostOK, Pause, Unpause, Cancel, Cycle, Resume, ResumeRefused,
         yieldVars, FreshRun, ClearPauseRequest
  <2>9. QED
    BY <2>1, <2>2, <2>3, <2>4, <2>5, <2>6, <2>7, <2>8
      DEF Next, LoopStep, Settling, Entering, Parking, Thinking, Resuming,
          Serial, Parallel, HostStep
<1>2. TypeOK => HostOK
  BY DEF TypeOK
<1>3. QED
  BY <1>1, <1>2, LedgerInvariant, PTL DEF Spec, RequestLoweredOnlyByItsOwner

(* After a closing event nothing but its own announcement follows           *)
(* (EmitWaitInput, emitDone, emitError, suspend).                           *)
THEOREM TerminalEnds == Spec => TerminalIsLast
<1> DEFINE Ends == pc # "idle" /\ last' # last =>
          /\ ~stopped
          /\ last = "StateWaiting" => last' = "WaitInput"
          /\ last = "StatePaused"  => last' = "Paused"
          /\ last = "StateDone"    => last' = "Done"
          /\ last = "StateError"   => last' = "Error"
          /\ last \notin {"WaitInput", "Paused", "Done", "Error"}
<1>1. StreamLedger /\ Next => Ends
  <2> SUFFICES ASSUME StreamLedger, Next PROVE Ends
    OBVIOUS
  <2>1. CASE OrganFails \/ EmitError \/ ErrorEvent \/ CycleGuarantees
    BY <2>1
      DEF StreamLedger, LastEvent, Ended, Closing, Announced, OrganFails,
         EmitError, ErrorEvent, CycleGuarantees, Silent, loopVars, lcVars,
         batchVars, envVars, histVars, EndWith, Yield, trackVars, DropPass,
         Suspension, hostVars, countVars, auditVars, passVars, sayVars
  <2>2. CASE CyclePrelude \/ EmitAudit \/ EnterLoop
    BY <2>2
      DEF StreamLedger, LastEvent, Ended, Closing, Announced, CyclePrelude,
         EmitAudit, EnterLoop, Silent, loopVars, lcVars, batchVars, envVars,
         histVars, Yield, trackVars, passVars, hostVars, countVars, auditVars,
         sayVars
  <2>3. CASE Suspend \/ WaitInput \/ PauseState \/ PausedEvent
    BY <2>3
      DEF StreamLedger, LastEvent, Ended, Closing, Announced, Suspend,
         WaitInput, PauseState, PausedEvent, EndWith, Yield, loopVars,
         trackVars, batchVars, envVars, histVars, lcVars, hostVars, passVars,
         countVars, auditVars, sayVars
  <2>4. CASE Round \/ Prepare \/ Think \/ ReportUsage \/ EmitGate \/ UtterAsk
            \/ Utter \/ Acting \/ AnnounceDone \/ DoneEvent
    BY <2>4
      DEF StreamLedger, LastEvent, Ended, Closing, Announced, Round, Prepare,
         Think, ReportUsage, EmitGate, UtterAsk, Utter, Acting, AnnounceDone,
         DoneEvent, EndWith, Silent, GapPoint, trackVars, passVars, envVars,
         histVars, Thinking, Yield, loopVars, batchVars, lcVars, auditVars,
         sayVars, countVars, Suspension, Say, hostVars
  <2>5. CASE ResolveCallAsk \/ Approved \/ ResolveUtteranceAsk \/ SayResolved
            \/ Rest
    BY <2>5
      DEF StreamLedger, LastEvent, Ended, Closing, Announced, ResolveCallAsk,
         Approved, ResolveUtteranceAsk, SayResolved, Rest, Yield, loopVars,
         lcVars, envVars, countVars, sayVars, Acting, trackVars, batchVars,
         histVars, Say, auditVars, Silent, passVars, hostVars
  <2>6. CASE Run \/ SerialCall \/ SerialOver \/ SerialGap \/ SerialGate \/
            SerialAsked \/ SerialRefused \/ Admitted \/ Feedback
    BY <2>6
      DEF StreamLedger, LastEvent, Ended, Closing, Announced, Run, SerialCall,
         SerialOver, SerialGap, SerialGate, SerialAsked, SerialRefused,
         Admitted, Feedback, Silent, loopVars, lcVars, envVars, histVars,
         TakeNext, Yield, BatchOver, passVars, GapPoint, Gate, batchVars,
         countVars, sayVars, Suspension, Refuse, AfterCall, Executed,
         hostVars, auditVars, RecordResult, trackVars
  <2>7. CASE Announce \/ BatchGap \/ GatePhase \/ GatePhaseOver \/ BatchAsked
            \/ BatchRefused \/ BatchAllowed \/ ExecOver \/ FeedbackPhase \/
            FeedbackPhaseOver \/ (\E c \in Calls : ExecStart(c) \/
            ExecReturn(c))
    BY <2>7
      DEF StreamLedger, LastEvent, Ended, Closing, Announced, Announce,
         BatchGap, GatePhase, GatePhaseOver, BatchAsked, BatchRefused,
         BatchAllowed, ExecStart, ExecReturn, ExecOver, FeedbackPhase,
         FeedbackPhaseOver, TakeNext, Yield, loopVars, lcVars, envVars,
         histVars, GapPoint, Gate, countVars, sayVars, Silent, Suspension,
         passVars, Refuse, Executed, hostVars, auditVars, yieldVars,
         RecordResult, BatchOver, trackVars
  <2>8. CASE Pause \/ Unpause \/ Cancel \/ Cycle \/ Resume \/ ResumeRefused
    BY <2>8
      DEF StreamLedger, LastEvent, Ended, Closing, Announced, Pause, Unpause,
         Cancel, Cycle, Resume, ResumeRefused, loopVars, lcVars, batchVars,
         histVars, yieldVars, FreshRun, ClearPauseRequest, auditVars,
         trackVars, passVars, countVars, sayVars
  <2>9. QED
    BY <2>1, <2>2, <2>3, <2>4, <2>5, <2>6, <2>7, <2>8
      DEF Next, LoopStep, Settling, Entering, Parking, Thinking, Resuming,
          Serial, Parallel, HostStep
<1>2. QED
  BY <1>1, LedgersInvariant, PTL DEF Spec, TerminalIsLast

(* The loop implements the contract about calls: every step is one of the   *)
(* contract's, or none (run, runParallel, snapshot, Resume).                *)
THEOREM ContractKept == Spec => KeepsCallContract
<1>1. Init => Contract!Init
  <2> SUFFICES ASSUME Init PROVE Contract!Init
    OBVIOUS
  <2>1. ~Valid(held) /\ round = 0 /\ issued = 0
    BY DEF Init, Valid, ZeroSession
  <2>2. {c \in Calls : acted[c] > 0} = {}
    BY DEF Init, NoneOf
  <2>3. QED
    BY <2>1, <2>2, Mapped DEF Contract!Init
<1>2. UNCHANGED vars => UNCHANGED Contract!cvars
  <2> SUFFICES ASSUME UNCHANGED vars PROVE UNCHANGED Contract!cvars
    OBVIOUS
  <2>1. UNCHANGED <<held, round, issued, toolResults, refusals, acted>>
    BY DEF vars, lcVars, trackVars, batchVars, envVars, histVars, countVars
  <2>2. QED
    BY <2>1, Untouched
<1>3. TypeOK /\ CallLedger /\ RoundLedger /\ [Next]_vars => [Contract!Next]_(Contract!cvars)
  BY <1>2, ContractStep
<1>4. QED
  BY <1>1, <1>3, LedgerInvariant, LedgersInvariant, PTL DEF Spec, KeepsCallContract, Contract!Spec
=============================================================================
