---------------------------- MODULE DecisionLoop ----------------------------
(***************************************************************************)
(* The decision loop of internal/nerve: Cycle and Resume, round by round,  *)
(* with the serial and the parallel batch path, both sides of the sandbox  *)
(* membrane, the pause gate and the four suspensions.                      *)
(*                                                                         *)
(* One chain is followed: a Stimulate and the Resumes that continue it,    *)
(* each handle used once (the documented contract of Session).  A control  *)
(* point `pc' names what the running invocation does next; one action runs *)
(* from there to the next point where somebody else may act, which is a    *)
(* yield to the consumer or a call into an organ.  The consumer, brain,    *)
(* tools, membrane, hooks, memory, context and host are nondeterministic.  *)
(*                                                                         *)
(* Tool calls are numbered in the order the brain issues them, so a slice  *)
(* of calls is the SET of its numbers: every slice the loop builds keeps   *)
(* the order of issue.  The text of a Think is the number of that Think.   *)
(* Budget trimming, truncation and prompt contents are left out: they do   *)
(* not decide where control goes.                                          *)
(***************************************************************************)
EXTENDS Integers, FiniteSets, Sequences

CONSTANTS
    MaxCalls,    \* bound: tool calls issued in one chain
    MaxBatch,    \* bound: tool calls in one decision
    MaxThinks,   \* bound: decisions taken in one chain
    MaxAudits,   \* bound: swap audits waiting when an invocation starts
    Configs      \* the LoopConfigs an invocation may have snapshotted

ASSUME BoundsAssumption ==
    /\ MaxCalls \in Nat /\ MaxBatch \in Nat
    /\ MaxThinks \in Nat /\ MaxAudits \in Nat
ASSUME ConfigsAssumption ==
    Configs \subseteq [maxRounds : Int, parallel : BOOLEAN, window : Int]

Calls  == 1 .. MaxCalls
Drafts == 1 .. MaxThinks
NoCall == 0

WaitKinds    == {"pause", "tool", "callAsk", "utterance"}
Verdicts     == {"Allow", "Deny", "Ask"}
States       == {"Idle", "Thinking", "Acting", "Paused", "Waiting", "Done", "Error"}
Outcomes     == {"none", "Done", "Suspended", "MaxRounds", "Error", "Aborted"}
Utterances   == [draft : Nat, as : {"draft", "denial"}]
NoneOf       == [c \in Calls |-> 0]

(* What a membrane may answer: a ruling, an evaluation error, a ruling this *)
(* build has no name for.  The last two fail closed.                        *)
SandboxAnswers == Verdicts \cup {"error", "unknown"}
NormalizeRuling(answer) == IF answer \in Verdicts THEN answer ELSE "Deny"

(* What a host may put in a Response: a stated denial wins over any answer, *)
(* an answer that says nothing declines.                                    *)
Responses == [answered : BOOLEAN, denied : BOOLEAN]
ResolveAsk(resp) == IF resp.answered /\ ~resp.denied THEN "Allow" ELSE "Deny"

DefaultMaxRounds == 8
EffectiveMaxRounds(n) == IF n <= 0 THEN DefaultMaxRounds ELSE n

(* Mutants: the ceiling ignored; "no ceiling" read as a ceiling of zero. *)
ExecWindowIgnored(limit, n) == n
ExecWindowZero(limit, n) == IF limit < n THEN limit ELSE n

(* How many of n admitted calls may execute at the same time. *)
ExecWindow(limit, n) == IF limit > 0 /\ limit < n THEN limit ELSE n

Session == [round       : Nat,
            kind        : WaitKinds,
            pending     : {NoCall} \cup Calls,
            remaining   : SUBSET Calls,
            draft       : Nat,
            out         : Seq(Utterances),
            toolResults : [Calls -> Nat],
            refusals    : [Calls -> Nat],
            vetoes      : SUBSET Nat]

ZeroSession == [round |-> 0, kind |-> "pause", pending |-> NoCall,
                remaining |-> {}, draft |-> 0, out |-> << >>,
                toolResults |-> NoneOf, refusals |-> NoneOf, vetoes |-> {}]

(* The framework always snapshots round >= 1; the zero value is no handle. *)
Valid(s) == s.round >= 1

VARIABLES
    pc,          \* what the running invocation does next
    stage,       \* which part of the invocation runs: pending, rest or rounds
    sess,        \* the Session being resumed (ZeroSession in a Cycle)
    cfg,         \* the configuration snapshotted into the LoopContext
    audits,      \* swap audits of the LoopContext not yet emitted
    state,       \* LoopContext.State
    outcome,     \* LoopContext.outcome
    toolResults, \* entries of LoopContext.ToolResults, per call
    refusals,    \* denials of calls in LoopContext.Context, per call
    vetoes,      \* drafts whose denial is in LoopContext.Context
    round,       \* actBatch.round
    calls,       \* actBatch.calls
    out,         \* actBatch.out
    todo,        \* calls of the current pass not reached yet
    cur,         \* the call under way
    batch,       \* calls admitted by the gating phase
    denied,      \* calls refused by the gating phase
    running,     \* calls inside Effector.Act in the execution phase
    waits,       \* executed calls of the batch that asked for input
    suspendAt,   \* the call whose wait suspends the batch
    susp,        \* the suspension being announced
    final        \* finalOutput, read by the deferred cleanup

VARIABLES
    pauseFlag,   \* Agent.paused
    cancelled,   \* the context of the invocation is cancelled
    held         \* the handle the host holds

(* History: what left the loop. *)
VARIABLES
    issued,      \* number of calls the brain issued in this chain
    thinks,      \* number of decisions in this chain
    thought,     \* number of decisions in this invocation
    verdict,     \* the last EventSandbox of each call
    draftRuling, \* the last EventSandbox of each draft
    acted,       \* executions of each call
    heard,       \* every EventText of this chain
    last,        \* the last event of this invocation
    stopped,     \* the consumer has stopped consuming
    standing,    \* a pause request has stood since the invocation began
    late         \* executions begun while the current request stood

trackVars == <<toolResults, refusals, vetoes>>
loopVars  == <<stage, sess, cfg, audits, final>>
lcVars    == <<state, outcome, trackVars>>
passVars  == <<todo, cur, batch, denied, running, waits, suspendAt>>
batchVars == <<round, calls, passVars, susp>>
hostVars  == <<pauseFlag, cancelled>>
envVars   == <<hostVars, held, standing, late>>
countVars == <<issued, thinks, thought>>
auditVars == <<verdict, draftRuling>>
sayVars   == <<out, heard>>
histVars  == <<countVars, auditVars, acted, sayVars>>
yieldVars == <<pc, last, stopped>>
vars == <<yieldVars, loopVars, lcVars, batchVars, envVars, histVars>>

(* A pass over a batch is local to its run and goes with it. *)
DropPass ==
    /\ todo' = {} /\ cur' = NoCall /\ batch' = {} /\ denied' = {}
    /\ running' = {} /\ waits' = {} /\ suspendAt' = NoCall

Init ==
    /\ pc = "idle" /\ stage = "rounds" /\ sess = ZeroSession
    /\ cfg \in Configs /\ audits = 0 /\ state = "Idle" /\ outcome = "none"
    /\ toolResults = NoneOf /\ refusals = NoneOf /\ vetoes = {}
    /\ round = 0 /\ calls = {} /\ todo = {} /\ cur = NoCall
    /\ batch = {} /\ denied = {} /\ running = {} /\ waits = {}
    /\ suspendAt = NoCall
    /\ susp = [kind |-> "pause", pending |-> NoCall, remaining |-> {}]
    /\ final = << >> /\ pauseFlag = FALSE /\ cancelled = FALSE
    /\ held = ZeroSession /\ issued = 0 /\ thinks = 0 /\ thought = 0
    /\ verdict = [c \in Calls |-> "none"]
    /\ draftRuling = [d \in Drafts |-> "none"]
    /\ out = << >> /\ heard = << >> /\ acted = NoneOf
    /\ last = "none" /\ stopped = FALSE /\ standing = FALSE /\ late = 0

-----------------------------------------------------------------------------
(* Mutant: the consumer's refusal goes unread. *)
YieldDeaf(event, next) ==
    last' = event /\ pc' = next /\ stopped' \in {stopped, TRUE}

(* yield(event): the consumer takes the event and either asks for the next *)
(* one or stops, and a run that is stopped has only its settlement left.   *)
Yield(event, next) ==
    /\ last' = event
    /\ \/ pc' = next /\ stopped' = stopped
       \/ pc' = "settle" /\ stopped' = TRUE

Silent(next) == pc' = next /\ UNCHANGED <<last, stopped>>

(* Mutant: the last mark wins. *)
EndWithLast(o) == outcome' = o

(* The first mark wins. *)
EndWith(o) == outcome' = IF outcome = "none" THEN o ELSE outcome

(* Mutant: the text said so far is left behind. *)
SnapshotNoOutput(s) ==
    [round |-> round, kind |-> s.kind, pending |-> s.pending,
     remaining |-> s.remaining,
     draft |-> IF s.kind = "utterance" THEN thinks ELSE 0, out |-> << >>,
     toolResults |-> toolResults, refusals |-> refusals, vetoes |-> vetoes]

(* A suspension becomes a handle: the loop state frozen, the tail with it. *)
Snapshot(s) ==
    [round |-> round, kind |-> s.kind, pending |-> s.pending,
     remaining |-> s.remaining,
     draft |-> IF s.kind = "utterance" THEN thinks ELSE 0, out |-> out,
     toolResults |-> toolResults, refusals |-> refusals, vetoes |-> vetoes]

Suspension(kind, pending, remaining) ==
    susp' = [kind |-> kind, pending |-> pending, remaining |-> remaining]

Bump(f, c) == [f EXCEPT ![c] = @ + 1]

(* The call at which a pass over the slice `todo' continues. *)
TakeNext(c) ==
    /\ c \in todo /\ \A d \in todo : c <= d
    /\ cur' = c /\ todo' = todo \ {c}

-----------------------------------------------------------------------------
(* The host.  Pause and Unpause may come at any time, from any goroutine;  *)
(* so may the cancellation of the invocation's context.                    *)
Pause ==
    /\ ~pauseFlag /\ pauseFlag' = TRUE
    /\ UNCHANGED <<loopVars, lcVars, batchVars, histVars, yieldVars, cancelled,
          held, standing, late>>

Unpause ==
    /\ pauseFlag /\ pauseFlag' = FALSE /\ standing' = FALSE /\ late' = 0
    /\ UNCHANGED <<loopVars, lcVars, batchVars, histVars, yieldVars, cancelled,
          held>>

Cancel ==
    /\ pc # "idle" /\ ~cancelled /\ cancelled' = TRUE
    /\ UNCHANGED <<loopVars, lcVars, batchVars, histVars, yieldVars, pauseFlag,
          held, standing, late>>

(* What every invocation starts from: a fresh LoopContext under whatever   *)
(* configuration the cell holds now, and a live context.                   *)
FreshRun ==
    /\ pc = "idle"
    /\ cfg' \in Configs /\ audits' \in 0 .. MaxAudits
    /\ state' = "Idle" /\ outcome' = "none" /\ final' = << >>
    /\ cancelled' = FALSE /\ last' = "none" /\ stopped' = FALSE
    /\ thought' = 0 /\ late' = 0
    /\ UNCHANGED <<calls, passVars, susp>>

(* A new stimulus.  The host abandons the handle it may still hold: the    *)
(* chain followed here is the new one.                                     *)
Cycle ==
    /\ FreshRun
    /\ pc' = "beforeStimulate" /\ stage' = "rounds" /\ sess' = ZeroSession
    /\ toolResults' = NoneOf /\ refusals' = NoneOf /\ vetoes' = {}
    /\ round' = 1 /\ held' = ZeroSession /\ standing' = pauseFlag
    /\ issued' = 0 /\ thinks' = 0
    /\ verdict' = [c \in Calls |-> "none"]
    /\ draftRuling' = [d \in Drafts |-> "none"]
    /\ out' = << >> /\ heard' = << >> /\ acted' = NoneOf
    /\ UNCHANGED pauseFlag

(* Mutant: every resumption eats the request. *)
ClearAnyRequest(kind) == pauseFlag' = FALSE

(* Only the resumption of a pause backs out the request it answers. *)
ClearPauseRequest(kind) == pauseFlag' = (pauseFlag /\ kind # "pause")

(* Resuming a pause backs out its request, any other flavour leaves a      *)
(* standing request alone.  A tool wait records the answer, or the         *)
(* refusal, as the pending call's result before anything else happens.     *)
Resume ==
    /\ FreshRun /\ Valid(held)
    /\ pc' = "beforeStimulate" /\ stage' = "pending" /\ sess' = held
    /\ held' = ZeroSession
    /\ toolResults' = IF held.kind = "tool"
                      THEN Bump(held.toolResults, held.pending)
                      ELSE held.toolResults
    /\ refusals' = held.refusals /\ vetoes' = held.vetoes
    /\ round' = held.round /\ out' = held.out
    /\ ClearPauseRequest(held.kind)
    /\ standing' = pauseFlag'
    /\ UNCHANGED <<issued, thinks, auditVars, heard, acted>>

(* A handle of another cell, or the zero value, ends in an error before    *)
(* the prelude and touches neither the request nor the chain.              *)
ResumeRefused ==
    /\ FreshRun
    /\ pc' = "error" /\ stage' = "rounds" /\ sess' = ZeroSession
    /\ toolResults' = NoneOf /\ refusals' = NoneOf /\ vetoes' = {}
    /\ round' = 0 /\ out' = << >> /\ standing' = pauseFlag
    /\ UNCHANGED <<pauseFlag, held, issued, thinks, auditVars, heard, acted>>


-----------------------------------------------------------------------------
(* Errors, the prelude and the settlement. *)
EmitError ==
    /\ pc = "error"
    /\ EndWith("Error") /\ state' = "Error"
    /\ Yield("StateError", "errorEvent")
    /\ UNCHANGED <<loopVars, trackVars, batchVars, envVars, histVars>>

ErrorEvent ==
    /\ pc = "errorEvent"
    /\ Yield("Error", "settle")
    /\ UNCHANGED <<loopVars, lcVars, batchVars, envVars, histVars>>

(* Wherever an organ or a hook may answer with an error, the run ends in   *)
(* that error: BeforeStimulate, Recall, BeforeThink, Think on its every     *)
(* attempt, AfterThink and BeforeAct.                                       *)
OrganFails ==
    /\ pc \in {"beforeStimulate", "prepare", "think", "admit", "batchAllowed"}
    /\ Silent("error")
    /\ UNCHANGED <<loopVars, lcVars, batchVars, envVars, histVars>>

(* Bounds is read and BeforeStimulate runs before any event. *)
CyclePrelude ==
    /\ pc = "beforeStimulate"
    /\ Silent(IF cancelled THEN "error" ELSE "audits")
    /\ UNCHANGED <<loopVars, lcVars, batchVars, envVars, histVars>>

(* Mutant: the loop over the audits runs past their end. *)
EmitAuditPastEnd ==
    /\ pc = "audits"
    /\ audits' = audits - 1
    /\ Yield("Audit", "audits")
    /\ UNCHANGED <<lcVars, batchVars, envVars, histVars, stage, sess, cfg,
          final>>

EmitAudit ==
    /\ pc = "audits" /\ audits > 0
    /\ audits' = audits - 1
    /\ Yield("Audit", "audits")
    /\ UNCHANGED <<lcVars, batchVars, envVars, histVars, stage, sess, cfg,
          final>>

(* Where the loop starts: a Cycle at its first round, a Resume at what the *)
(* handle was suspended for.                                               *)
EnterLoop ==
    /\ pc = "audits" /\ audits = 0
    /\ Silent(IF ~Valid(sess) THEN "round"
              ELSE CASE sess.kind = "callAsk"   -> "resolveCall"
                     [] sess.kind = "utterance" -> "resolveSay"
                     [] OTHER                   -> "rest")
    /\ UNCHANGED <<loopVars, lcVars, batchVars, envVars, histVars>>

(* The deferred cleanup: a run that reached no terminal was abandoned by   *)
(* its consumer.  Remember, OnCycleEnd and AfterStimulate read outcome'    *)
(* and final; the rest of the run is gone.                                 *)
CycleGuarantees ==
    /\ pc = "settle"
    /\ EndWith("Aborted")
    /\ Silent("idle")
    /\ toolResults' = NoneOf /\ refusals' = NoneOf /\ vetoes' = {}
    /\ round' = 0 /\ calls' = {} /\ out' = << >> /\ DropPass
    /\ Suspension("pause", NoCall, {})
    /\ sess' = ZeroSession /\ stage' = "rounds" /\ audits' = 0
    /\ standing' = FALSE /\ late' = 0
    /\ UNCHANGED <<hostVars, countVars, auditVars, cfg, state, final, held,
          acted, heard>>

-----------------------------------------------------------------------------
(* Suspending.  The four waits share the snapshot; a pause is announced as *)
(* StatePaused and marked Suspended only once that event was taken, the    *)
(* others are marked before StateWaiting.                                  *)
Suspend ==
    /\ pc = "suspend"
    /\ EndWith("Suspended") /\ state' = "Waiting"
    /\ Yield("StateWaiting", "waitInput")
    /\ UNCHANGED <<loopVars, trackVars, batchVars, envVars, histVars>>

WaitInput ==
    /\ pc = "waitInput"
    /\ held' = Snapshot(susp)
    /\ Yield("WaitInput", "settle")
    /\ UNCHANGED <<loopVars, lcVars, batchVars, hostVars, histVars, standing,
          late>>

PauseState ==
    /\ pc = "pausing"
    /\ state' = "Paused"
    /\ Yield("StatePaused", "paused")
    /\ UNCHANGED <<loopVars, trackVars, batchVars, envVars, histVars, outcome>>

PausedEvent ==
    /\ pc = "paused"
    /\ EndWith("Suspended") /\ held' = Snapshot(susp)
    /\ Yield("Paused", "settle")
    /\ UNCHANGED <<loopVars, trackVars, batchVars, hostVars, histVars, state,
          standing, late>>

(* A gap point: with a request standing the loop parks here, the calls not *)
(* yet executed riding the snapshot; otherwise it goes on.                 *)
GapPoint(remaining, next) ==
    IF pauseFlag
    THEN Suspension("pause", NoCall, remaining) /\ Silent("pausing")
    ELSE UNCHANGED susp /\ Silent(next)

-----------------------------------------------------------------------------
(* One round: the cap, cancellation and the Think gap, then Think. *)
Round ==
    /\ pc = "round" /\ stage' = "rounds"
    /\ IF round > EffectiveMaxRounds(cfg.maxRounds)
       THEN EndWith("MaxRounds") /\ Silent("error") /\ UNCHANGED susp
       ELSE /\ UNCHANGED outcome
            /\ IF cancelled THEN Silent("error") /\ UNCHANGED susp
                            ELSE GapPoint({}, "prepare")
    /\ UNCHANGED <<trackVars, passVars, envVars, histVars, sess, cfg, audits,
          state, round, calls, final>>

(* Metabolize and recall, then the round is announced. *)
Prepare ==
    /\ pc = "prepare"
    /\ state' = "Thinking" /\ Yield("StateThinking", "think")
    /\ UNCHANGED <<loopVars, trackVars, batchVars, envVars, histVars, outcome>>

(* A decision: a draft and the calls behind it, its usage reported first.  *)
(* With the context cancelled no attempt is made.                          *)
Think ==
    /\ pc = "think" /\ ~cancelled /\ thinks < MaxThinks
    /\ thinks' = thinks + 1 /\ thought' = thought + 1
    /\ \E n \in 0 .. MaxBatch :
          /\ issued + n <= MaxCalls
          /\ issued' = issued + n
          /\ calls' = issued + 1 .. issued + n
    /\ \E next \in {"usage", "emitGate"} : Silent(next)
    /\ UNCHANGED <<loopVars, lcVars, passVars, envVars, auditVars, sayVars,
          round, susp, acted>>

ReportUsage ==
    /\ pc = "usage" /\ Yield("Usage", "emitGate")
    /\ UNCHANGED <<loopVars, lcVars, batchVars, envVars, histVars>>

(* The output membrane rules on the draft before anyone hears it. *)
EmitGate ==
    /\ pc = "emitGate"
    /\ \E answer \in SandboxAnswers :
          /\ draftRuling' = [draftRuling EXCEPT ![thinks] = NormalizeRuling(answer)]
          /\ Yield("Sandbox", CASE NormalizeRuling(answer) = "Ask"  -> "utterAsk"
                                [] NormalizeRuling(answer) = "Deny" -> "utterDenial"
                                [] OTHER                            -> "utterDraft")
    /\ UNCHANGED <<loopVars, lcVars, batchVars, envVars, countVars, sayVars,
          verdict, acted>>

(* The round's calls were never gated: they wait behind the withheld draft. *)
UtterAsk ==
    /\ pc = "utterAsk"
    /\ Suspension("utterance", NoCall, calls) /\ Silent("suspend")
    /\ UNCHANGED <<loopVars, lcVars, passVars, envVars, histVars, round,
          calls>>

(* The text that takes the draft's place joins the output as it is said. *)
Say(d, as, next) ==
    /\ out' = Append(out, [draft |-> d, as |-> as])
    /\ heard' = Append(heard, [draft |-> d, as |-> as])
    /\ vetoes' = IF as = "denial" THEN vetoes \cup {d} ELSE vetoes
    /\ Yield("Text", next)

(* Mutant: the draft is said whatever the ruling. *)
UtterVerbatim ==
    /\ pc \in {"utterDraft", "utterDenial"}
    /\ Say(thinks, "draft", IF calls = {} THEN "done" ELSE "acting")
    /\ UNCHANGED <<loopVars, batchVars, envVars, countVars, auditVars, state,
          outcome, toolResults, refusals, acted>>

Utter ==
    /\ pc \in {"utterDraft", "utterDenial"}
    /\ Say(thinks, IF pc = "utterDraft" THEN "draft" ELSE "denial",
           IF calls = {} THEN "done" ELSE "acting")
    /\ UNCHANGED <<loopVars, batchVars, envVars, countVars, auditVars, state,
          outcome, toolResults, refusals, acted>>

Acting ==
    /\ pc = "acting"
    /\ state' = "Acting" /\ Yield("StateActing", "run")
    /\ UNCHANGED <<loopVars, trackVars, batchVars, envVars, histVars, outcome>>

(* The output is read before StateDone is yielded. *)
AnnounceDone ==
    /\ pc = "done"
    /\ EndWith("Done") /\ final' = out /\ state' = "Done"
    /\ Yield("StateDone", "doneEvent")
    /\ UNCHANGED <<trackVars, batchVars, envVars, histVars, stage, sess, cfg,
          audits>>

DoneEvent ==
    /\ pc = "doneEvent" /\ Yield("Done", "settle")
    /\ UNCHANGED <<loopVars, lcVars, batchVars, envVars, histVars>>

-----------------------------------------------------------------------------
(* Resuming a suspended round: first what it was suspended for, then the   *)
(* calls it left, then the rounds from the suspended one on.               *)
ResolveCallAsk ==
    /\ pc = "resolveCall"
    /\ \E resp \in Responses :
          /\ verdict' = [verdict EXCEPT ![sess.pending] = ResolveAsk(resp)]
          /\ Yield("Sandbox", IF ResolveAsk(resp) = "Allow" THEN "approved"
                                                            ELSE "declined")
    /\ cur' = sess.pending /\ todo' = sess.remaining
    /\ UNCHANGED <<loopVars, lcVars, envVars, countVars, sayVars, round, calls,
          batch, denied, running, waits, suspendAt, susp, draftRuling, acted>>

(* The approved call runs without another ruling, and without a gap point. *)
Approved ==
    /\ pc = "approved"
    /\ state' = "Acting" /\ Yield("StateActing", "admit")
    /\ UNCHANGED <<loopVars, trackVars, batchVars, envVars, histVars, outcome>>

ResolveUtteranceAsk ==
    /\ pc = "resolveSay"
    /\ \E resp \in Responses :
          /\ draftRuling' = [draftRuling EXCEPT ![sess.draft] = ResolveAsk(resp)]
          /\ Yield("Sandbox", IF ResolveAsk(resp) = "Allow" THEN "sayDraft"
                                                            ELSE "sayDenial")
    /\ UNCHANGED <<loopVars, lcVars, batchVars, envVars, countVars, sayVars,
          verdict, acted>>

(* With nothing left to execute the cycle ends here, not in another Think. *)
SayResolved ==
    /\ pc \in {"sayDraft", "sayDenial"}
    /\ Say(sess.draft, IF pc = "sayDraft" THEN "draft" ELSE "denial",
           IF sess.remaining = {} THEN "done" ELSE "rest")
    /\ UNCHANGED <<loopVars, batchVars, envVars, countVars, auditVars, state,
          outcome, toolResults, refusals, acted>>

Rest ==
    /\ pc = "rest"
    /\ IF sess.remaining = {}
       THEN Silent("round") /\ UNCHANGED <<stage, state, calls>>
       ELSE /\ stage' = "rest" /\ calls' = sess.remaining /\ state' = "Acting"
            /\ IF state = "Acting" THEN Silent("run")
                                   ELSE Yield("StateActing", "run")
    /\ UNCHANGED <<trackVars, passVars, envVars, histVars, sess, cfg, audits,
          outcome, round, susp, final>>

-----------------------------------------------------------------------------
(* A batch of calls.  With parallel acts and more than one call the batch  *)
(* runs in phases, otherwise call by call.                                 *)
Run ==
    /\ pc = "run"
    /\ todo' = calls /\ batch' = {} /\ denied' = {} /\ waits' = {}
    /\ suspendAt' = NoCall
    /\ Silent(IF cfg.parallel /\ Cardinality(calls) > 1 THEN "announce" ELSE "serial")
    /\ UNCHANGED <<loopVars, lcVars, envVars, histVars, round, calls, cur,
          running, susp>>

(* Mutant: a suspended round's tail costs a round. *)
BatchOverCounts == round' = round + 1 /\ Silent("round")

(* A finished batch: the suspended round's tail returns to the suspended   *)
(* round, a round's own calls to the next one.                             *)
BatchOver ==
    /\ round' = IF stage = "rest" THEN round ELSE round + 1
    /\ Silent("round")

SerialCall ==
    /\ pc = "serial" /\ todo # {}
    /\ \E c \in todo : TakeNext(c)
    /\ Yield("ToolCall", "gap")
    /\ UNCHANGED <<loopVars, lcVars, envVars, histVars, round, calls, batch,
          denied, running, waits, suspendAt, susp>>

SerialOver ==
    /\ pc = "serial" /\ todo = {} /\ BatchOver
    /\ UNCHANGED <<loopVars, lcVars, passVars, envVars, histVars, calls, susp>>

(* Mutant: no gap point between the calls of a round. *)
SerialNoGap ==
    /\ pc = "gap" /\ UNCHANGED susp /\ Silent("gate")
    /\ UNCHANGED <<loopVars, lcVars, passVars, envVars, histVars, round,
          calls>>

SerialGap ==
    /\ pc = "gap" /\ GapPoint({cur} \cup todo, "gate")
    /\ UNCHANGED <<loopVars, lcVars, passVars, envVars, histVars, round,
          calls>>

(* One ruling, one audit record. *)
Gate(c, asked, refused, allowed) ==
    \E answer \in SandboxAnswers :
       /\ verdict' = [verdict EXCEPT ![c] = NormalizeRuling(answer)]
       /\ Yield("Sandbox", CASE NormalizeRuling(answer) = "Ask"  -> asked
                             [] NormalizeRuling(answer) = "Deny" -> refused
                             [] OTHER                            -> allowed)

SerialGate ==
    /\ pc = "gate" /\ Gate(cur, "asked", "refused", "admit")
    /\ UNCHANGED <<loopVars, lcVars, batchVars, envVars, countVars, sayVars,
          draftRuling, acted>>

(* Mutant: the tail behind the asked call is dropped. *)
SerialAskedAlone ==
    /\ pc = "asked"
    /\ Suspension("callAsk", cur, {}) /\ Silent("suspend")
    /\ UNCHANGED <<loopVars, lcVars, passVars, envVars, histVars, round,
          calls>>

SerialAsked ==
    /\ pc = "asked"
    /\ Suspension("callAsk", cur, todo) /\ Silent("suspend")
    /\ UNCHANGED <<loopVars, lcVars, passVars, envVars, histVars, round,
          calls>>

(* A refusal joins the Context track and is fed back in place. *)
Refuse(c, next) == refusals' = Bump(refusals, c) /\ Yield("ToolResult", next)

AfterCall == IF stage = "pending" THEN "rest" ELSE "serial"

SerialRefused ==
    /\ pc \in {"refused", "declined"} /\ Refuse(cur, AfterCall)
    /\ UNCHANGED <<loopVars, batchVars, envVars, histVars, state, outcome,
          toolResults, vetoes>>

Executed(c) ==
    /\ acted' = Bump(acted, c)
    /\ late' = IF pauseFlag THEN late + 1 ELSE late

(* Mutant: the result of a call is never told. *)
AdmittedUntold ==
    /\ pc = "admit" /\ Executed(cur)
    /\ UNCHANGED susp /\ Silent(AfterCall)
    /\ UNCHANGED <<loopVars, lcVars, passVars, hostVars, countVars, auditVars,
          sayVars, round, calls, held, standing>>

(* The tool executes, and what it asks the outside for wins over whatever  *)
(* else it returned.                                                       *)
Admitted ==
    /\ pc = "admit" /\ Executed(cur)
    /\ \/ Suspension("tool", cur, todo) /\ Silent("suspend")
       \/ UNCHANGED susp /\ Silent("feedback")
    /\ UNCHANGED <<loopVars, lcVars, passVars, hostVars, countVars, auditVars,
          sayVars, round, calls, held, standing>>

(* Result or failure, one entry of the structured track. *)
RecordResult(c, next) ==
    toolResults' = Bump(toolResults, c) /\ Yield("ToolResult", next)

Feedback ==
    /\ pc = "feedback" /\ RecordResult(cur, AfterCall)
    /\ UNCHANGED <<loopVars, batchVars, envVars, histVars, state, outcome,
          refusals, vetoes>>

-----------------------------------------------------------------------------
(* The parallel path: announce all, one gap point, gate in call order,     *)
(* execute concurrently, feed back in call order.                          *)
Announce ==
    /\ pc = "announce" /\ todo # {}
    /\ \E c \in todo : TakeNext(c)
    /\ Yield("ToolCall", "announce")
    /\ UNCHANGED <<loopVars, lcVars, envVars, histVars, round, calls, batch,
          denied, running, waits, suspendAt, susp>>

BatchGap ==
    /\ pc = "announce" /\ todo = {} /\ GapPoint(calls, "gatePhase")
    /\ todo' = calls
    /\ UNCHANGED <<loopVars, lcVars, envVars, histVars, round, calls, cur,
          batch, denied, running, waits, suspendAt>>

GatePhase ==
    /\ pc = "gatePhase" /\ todo # {}
    /\ \E c \in todo : TakeNext(c) /\ Gate(c, "batchAsked", "batchRefused", "batchAllowed")
    /\ UNCHANGED <<loopVars, lcVars, envVars, countVars, sayVars, round, calls,
          batch, denied, running, waits, suspendAt, susp, draftRuling, acted>>

GatePhaseOver ==
    /\ pc = "gatePhase" /\ todo = {}
    /\ todo' = batch /\ Silent("exec")
    /\ UNCHANGED <<loopVars, lcVars, envVars, histVars, round, calls, cur,
          batch, denied, running, waits, suspendAt, susp>>

(* Mutants: admitted siblings left behind; refused ones replayed. *)
AskTailUngated  == todo
AskTailReplayed == calls \ {cur}

(* Everything neither asked about nor refused already: admitted siblings   *)
(* have not executed and the calls behind were never gated.                *)
AskTail == {c \in calls : c # cur /\ c \notin denied}

BatchAsked ==
    /\ pc = "batchAsked"
    /\ Suspension("callAsk", cur, AskTail) /\ Silent("suspend")
    /\ UNCHANGED <<loopVars, lcVars, passVars, envVars, histVars, round,
          calls>>

BatchRefused ==
    /\ pc = "batchRefused"
    /\ denied' = denied \cup {cur} /\ Refuse(cur, "gatePhase")
    /\ UNCHANGED <<loopVars, envVars, histVars, state, outcome, toolResults,
          vetoes, round, calls, todo, cur, batch, running, waits, suspendAt,
          susp>>

(* BeforeAct runs here, outside the concurrent phase. *)
BatchAllowed ==
    /\ pc = "batchAllowed"
    /\ batch' = batch \cup {cur} /\ Silent("gatePhase")
    /\ UNCHANGED <<loopVars, lcVars, envVars, histVars, round, calls, todo,
          cur, denied, running, waits, suspendAt, susp>>

(* A goroutine enters the window, calls the tool and leaves with a result. *)
ExecStart(c) ==
    /\ pc = "exec" /\ c \in todo
    /\ Cardinality(running) < ExecWindow(cfg.window, Cardinality(batch))
    /\ todo' = todo \ {c} /\ running' = running \cup {c}
    /\ Executed(c)
    /\ UNCHANGED <<loopVars, lcVars, hostVars, countVars, auditVars, sayVars,
          yieldVars, round, calls, cur, batch, denied, waits, suspendAt, susp,
          held, standing>>

ExecReturn(c) ==
    /\ pc = "exec" /\ c \in running
    /\ running' = running \ {c}
    /\ waits' \in {waits, waits \cup {c}}
    /\ UNCHANGED <<loopVars, lcVars, envVars, histVars, yieldVars, round,
          calls, todo, cur, batch, denied, suspendAt, susp>>

ExecOver ==
    /\ pc = "exec" /\ todo = {} /\ running = {}
    /\ todo' = batch /\ Silent("feedbackPhase")
    /\ UNCHANGED <<loopVars, lcVars, envVars, histVars, round, calls, cur,
          batch, denied, running, waits, suspendAt, susp>>

(* The first wait suspends the batch and is answered through Resume; every *)
(* other call is fed back, a later wait as a refused one.                  *)
FeedbackPhase ==
    /\ pc = "feedbackPhase" /\ todo # {}
    /\ \E c \in todo :
          /\ TakeNext(c)
          /\ IF c \in waits /\ suspendAt = NoCall
             THEN /\ suspendAt' = c /\ Silent("feedbackPhase")
                  /\ UNCHANGED toolResults
             ELSE RecordResult(c, "feedbackPhase") /\ UNCHANGED suspendAt
    /\ UNCHANGED <<loopVars, envVars, histVars, state, outcome, refusals,
          vetoes, round, calls, batch, denied, running, waits, susp>>

(* Mutant: the executed siblings ride the snapshot. *)
FeedbackPhaseReplays ==
    /\ pc = "feedbackPhase" /\ todo = {}
    /\ IF suspendAt = NoCall
       THEN BatchOver /\ UNCHANGED susp
       ELSE /\ Suspension("tool", suspendAt, batch \ {suspendAt})
            /\ Silent("suspend") /\ UNCHANGED round
    /\ UNCHANGED <<loopVars, lcVars, passVars, envVars, histVars, calls>>

(* The batch has run: nothing of it rides the snapshot. *)
FeedbackPhaseOver ==
    /\ pc = "feedbackPhase" /\ todo = {}
    /\ IF suspendAt = NoCall
       THEN BatchOver /\ UNCHANGED susp
       ELSE /\ Suspension("tool", suspendAt, {}) /\ Silent("suspend")
            /\ UNCHANGED round
    /\ UNCHANGED <<loopVars, lcVars, passVars, envVars, histVars, calls>>

-----------------------------------------------------------------------------
Settling == OrganFails \/ EmitError \/ ErrorEvent \/ CycleGuarantees
Entering == CyclePrelude \/ EmitAudit \/ EnterLoop
Parking  == Suspend \/ WaitInput \/ PauseState \/ PausedEvent
Thinking == \/ Round \/ Prepare \/ Think \/ ReportUsage
            \/ EmitGate \/ UtterAsk \/ Utter \/ Acting
            \/ AnnounceDone \/ DoneEvent
Resuming == \/ ResolveCallAsk \/ Approved \/ ResolveUtteranceAsk
            \/ SayResolved \/ Rest
Serial   == \/ Run \/ SerialCall \/ SerialOver \/ SerialGap \/ SerialGate
            \/ SerialAsked \/ SerialRefused \/ Admitted \/ Feedback
Parallel == \/ Announce \/ BatchGap \/ GatePhase \/ GatePhaseOver
            \/ BatchAsked \/ BatchRefused \/ BatchAllowed
            \/ \E c \in Calls : ExecStart(c) \/ ExecReturn(c)
            \/ ExecOver \/ FeedbackPhase \/ FeedbackPhaseOver

(* What the goroutine driving the iterator does once it is started. *)
LoopStep == \/ Settling \/ Entering \/ Parking \/ Thinking \/ Resuming
            \/ Serial \/ Parallel
HostStep == Pause \/ Unpause \/ Cancel \/ Cycle \/ Resume \/ ResumeRefused

Next == LoopStep \/ HostStep

Spec == Init /\ [][Next]_vars

(* The consumer comes back from every yield and every organ call returns,  *)
(* so a run that can take a step takes one.  Nothing is assumed of the     *)
(* host: it may never start, pause, resume or cancel anything.             *)
FairSpec == Spec /\ WF_vars(LoopStep)
-----------------------------------------------------------------------------
(* Types. *)
PCs == {"idle", "beforeStimulate", "audits", "error", "errorEvent",
        "settle", "suspend", "waitInput", "pausing", "paused", "round",
        "prepare", "think", "usage", "emitGate", "utterAsk", "utterDraft",
        "utterDenial", "acting", "done", "doneEvent", "resolveCall",
        "approved", "declined", "resolveSay", "sayDraft", "sayDenial", "rest",
        "run", "serial", "gap", "gate", "asked", "refused", "admit",
        "feedback", "announce", "gatePhase", "batchAsked", "batchRefused",
        "batchAllowed", "exec", "feedbackPhase"}

Events == {"none", "Audit", "StateThinking", "StateActing", "StatePaused",
           "StateWaiting", "StateDone", "StateError", "Usage", "Text",
           "Sandbox", "ToolCall", "ToolResult", "WaitInput", "Paused", "Done",
           "Error"}

Suspensions == [kind : WaitKinds, pending : {NoCall} \cup Calls,
                remaining : SUBSET Calls]

(* Every variable has its type: control, the two tracks, the batch in hand, *)
(* the texts and handles, the host's side and the history.                  *)
ControlOK ==
    /\ pc \in PCs /\ stage \in {"pending", "rest", "rounds"}
    /\ cfg \in Configs /\ audits \in 0 .. MaxAudits
    /\ state \in States /\ outcome \in Outcomes
    /\ last \in Events
TracksOK ==
    /\ toolResults \in [Calls -> Nat] /\ refusals \in [Calls -> Nat]
    /\ vetoes \subseteq Nat
BatchOK ==
    /\ round \in Nat /\ calls \subseteq Calls
    /\ todo \subseteq Calls /\ cur \in {NoCall} \cup Calls
    /\ batch \subseteq Calls /\ denied \subseteq Calls
    /\ running \subseteq Calls /\ waits \subseteq Calls
    /\ suspendAt \in {NoCall} \cup Calls
    /\ susp \in Suspensions
TextsOK ==
    /\ out \in Seq(Utterances) /\ final \in Seq(Utterances)
    /\ heard \in Seq(Utterances)
HandlesOK == sess \in Session /\ held \in Session
HostOK ==
    /\ pauseFlag \in BOOLEAN /\ cancelled \in BOOLEAN
    /\ stopped \in BOOLEAN /\ standing \in BOOLEAN
HistoryOK ==
    /\ issued \in 0 .. MaxCalls /\ thinks \in 0 .. MaxThinks /\ thought \in Nat
    /\ verdict \in [Calls -> Verdicts \cup {"none"}]
    /\ draftRuling \in [Drafts -> Verdicts \cup {"none"}]
    /\ acted \in [Calls -> Nat] /\ late \in Nat

TypeOK == /\ ControlOK /\ TracksOK /\ BatchOK /\ TextsOK /\ HandlesOK
          /\ HostOK /\ HistoryOK
=============================================================================
