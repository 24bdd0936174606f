----------------------- MODULE DecisionLoopProperties -----------------------
(* What the decision loop must guarantee, whatever its organs, its consumer *)
(* and its host do.                                                         *)
EXTENDS DecisionLoop

(* Safety. *)
Issued == 1 .. issued
Settled(c) == toolResults[c] + refusals[c]

(* A tool executes at most once in the whole chain, however often the chain *)
(* is suspended and its tail replayed, and only while the last audit record *)
(* of that call is an Allow: gate and resolveCallAsk before admitted, gate  *)
(* before execPhase.  An execution is one entry into actWithRetry; the      *)
(* attempts inside it are the business of Attempts.                         *)
ExecutesOnceUnderAllow ==
    \A c \in Calls : acted[c] > 0 => acted[c] = 1 /\ verdict[c] = "Allow"

(* When the brain thinks, and when the cycle ends as Done, every call it    *)
(* issued earlier in the chain has exactly one answer in its tracks (a tool *)
(* result or a refusal) and every denied draft has its veto there: nothing  *)
(* is lost or answered twice by a suspension, a batch or a resolved ask.    *)
BrainSeesEveryAnswer ==
    pc \in {"think", "done", "doneEvent"} =>
        /\ \A c \in Issued : Settled(c) = 1
        /\ vetoes = {d \in Drafts : draftRuling[d] = "Deny"}

(* A handle carries exactly the calls of the chain that have no answer yet, *)
(* as pending or remaining, and none of the remaining has executed: askTail *)
(* and the serial and pause tails neither drop nor replay a call.           *)
HandleCarriesOpenCalls ==
    Valid(held) =>
        /\ held.pending \notin held.remaining
        /\ {c \in Issued : held.toolResults[c] + held.refusals[c] = 0}
              = ({held.pending} \ {NoCall}) \cup held.remaining
        /\ \A c \in held.remaining : acted[c] = 0
        /\ held.pending # NoCall =>
              acted[held.pending] = IF held.kind = "tool" THEN 1 ELSE 0

(* A draft is heard only after the membrane, or the host it asked, allowed  *)
(* it, a denied one only as its denial, and each at most once: utter and    *)
(* resolveUtteranceAsk across the suspension between them.                  *)
WithheldDraftsStayUnheard ==
    /\ \A i \in DOMAIN heard :
          draftRuling[heard[i].draft] =
              IF heard[i].as = "draft" THEN "Allow" ELSE "Deny"
    /\ \A i, j \in DOMAIN heard : i < j => heard[i].draft < heard[j].draft

(* The output is what the consumer heard over the whole chain: the Done     *)
(* event and OnCycleEnd get all of it, a handle carries what was heard      *)
(* before it.                                                               *)
OutputIsWhatWasHeard ==
    /\ pc \in {"think", "suspend", "pausing"} => out = heard
    /\ Valid(held) => held.out = heard
    /\ outcome = "Done" => final = heard
    /\ outcome # "Done" => final = << >>

(* The outcome OnCycleEnd receives agrees with how the stream ended, also   *)
(* when the consumer stops in the middle of the closing events.             *)
OutcomeMatchesStream ==
    pc = "idle" =>
        /\ last \in {"WaitInput", "Paused"} => outcome = "Suspended"
        /\ last \in {"StateDone", "Done"} => outcome = "Done"
        /\ last \in {"StateError", "Error"} => outcome \in {"Error", "MaxRounds"}
        /\ outcome = "Aborted" => stopped
        /\ ~stopped /\ last # "none" =>
              last \in {"WaitInput", "Paused", "Done", "Error"}

(* The round budget: an invocation takes at most the decisions left from    *)
(* its starting round, and reports MaxRounds only when all of them are      *)
(* spent and every call behind them is answered.                            *)
RoundBudget ==
    LET budget == EffectiveMaxRounds(cfg.maxRounds)
        first  == IF Valid(sess) THEN sess.round ELSE 1
    IN  pc # "idle" =>
          /\ thought <= IF first > budget THEN 0 ELSE budget - first + 1
          /\ outcome = "MaxRounds" =>
                /\ thought = IF first > budget THEN 0 ELSE budget - first + 1
                /\ \A c \in Issued : Settled(c) = 1

(* A pause request bounds the work done after it: one call on the serial    *)
(* path and after an approved ask, the admitted batch on the parallel one.  *)
PauseBoundsWork ==
    late > 1 => late <= Cardinality(batch)

(* The parallel window is respected, and every admitted call is inside it,  *)
(* waiting for it or through it.                                            *)
WindowRespected ==
    pc = "exec" =>
        /\ Cardinality(running) <= Cardinality(batch)
        /\ cfg.window > 0 => Cardinality(running) <= cfg.window
        /\ todo \cap running = {} /\ todo \cup running \subseteq batch
        /\ \A c \in batch : acted[c] = IF c \in todo THEN 0 ELSE 1

-----------------------------------------------------------------------------
(* Action properties. *)

(* Only the host and the resumption of a pause lower a pause request: a     *)
(* resumed tool wait or ask, and a refused handle, leave it standing for    *)
(* the loop it is aimed at.                                                 *)
RequestLoweredOnlyByItsOwner ==
    [][pauseFlag /\ ~pauseFlag' =>
          pc' = pc \/ (pc = "idle" /\ held.kind = "pause" /\ Valid(held))]_vars

(* After a terminal state is announced only its own closing event follows:  *)
(* no text, no call and no result leaves a waiting, paused, done or failed  *)
(* run.                                                                     *)
TerminalIsLast ==
    [][pc # "idle" /\ last' # last =>
          /\ ~stopped
          /\ last = "StateWaiting" => last' = "WaitInput"
          /\ last = "StatePaused"  => last' = "Paused"
          /\ last = "StateDone"    => last' = "Done"
          /\ last = "StateError"   => last' = "Error"
          /\ last \notin {"WaitInput", "Paused", "Done", "Error"}]_vars

-----------------------------------------------------------------------------
(* Liveness: every invocation settles, whatever the consumer, the organs    *)
(* and the host do, the parallel window included.                           *)
RunsSettle == pc # "idle" ~> pc = "idle"

-----------------------------------------------------------------------------
(* The loop keeps the contract about calls: the chain is parked while the   *)
(* host holds its handle, and its open calls are then those the handle's    *)
(* own tracks have no answer for.                                           *)
Phase == IF Valid(held) THEN "parked" ELSE IF round = 0 THEN "rest" ELSE "live"

OpenCalls ==
    CASE Phase = "parked" -> {c \in Issued : held.toolResults[c] + held.refusals[c] = 0}
      [] Phase = "live"   -> {c \in Issued : Settled(c) = 0}
      [] OTHER            -> {}

Contract == INSTANCE CallContract WITH
    phase <- Phase, open <- OpenCalls, executed <- {c \in Calls : acted[c] > 0}

KeepsCallContract == Contract!Spec

-----------------------------------------------------------------------------
(* What the documents say and the code does not always do. *)

(* "yielded Session via EventWaitInput/EventPaused": an invocation whose    *)
(* outcome is Suspended has given the host a handle to resume.              *)
SuspendedMeansResumable ==
    pc = "idle" /\ outcome = "Suspended" => Valid(held)

(* "checks it at gap points (before each Think and before each tool         *)
(* execution)": a run started under a standing request executes nothing.    *)
NothingExecutesUnderStandingRequest ==
    [][standing /\ standing' => acted' = acted]_vars

=============================================================================
