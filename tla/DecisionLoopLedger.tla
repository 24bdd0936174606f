------------------------- MODULE DecisionLoopLedger -------------------------
(***************************************************************************)
(* The strengthenings the proofs about the loop rest on.  The ledger of    *)
(* calls: at every control point of a run the unanswered calls of the      *)
(* chain are exactly the ones the run, or the handle it left, still has in *)
(* hand, and of those it is known which have executed.  After it, the      *)
(* ledgers of drafts, of the stream, of rounds, of late work and of the    *)
(* window.                                                                 *)
(***************************************************************************)
EXTENDS DecisionLoopProperties

Live == pc \notin {"idle", "settle", "error", "errorEvent"}

NonZero(c) == {c} \ {NoCall}

(* The calls in S are exactly the unanswered ones of the live chain, and   *)
(* those of E among them are the executed ones.                            *)
Owes(S, E) ==
    \A c \in Calls : /\ c \in S <=> c <= issued /\ Settled(c) = 0
                     /\ c \in S => acted[c] = IF c \in E THEN 1 ELSE 0

(* What the run has in hand at each control point. *)
OwesNothing == pc \in {"round", "prepare", "think", "done", "doneEvent"} => Owes({}, {})

OwesHandle ==
    /\ pc \in {"beforeStimulate", "audits"} =>
          Owes(IF ~Valid(sess) THEN {}
               ELSE IF sess.kind = "tool" THEN sess.remaining
                                          ELSE NonZero(sess.pending) \cup sess.remaining, {})
    /\ pc = "resolveCall" => Owes({sess.pending} \cup sess.remaining, {})
    /\ pc \in {"resolveSay", "sayDraft", "sayDenial", "rest"} => Owes(sess.remaining, {})

OwesRound ==
    pc \in {"usage", "emitGate", "utterAsk", "utterDraft", "utterDenial",
            "acting", "run", "announce"} => Owes(calls, {})

OwesSerial ==
    /\ pc = "serial" => Owes(todo, {})
    /\ pc \in {"gap", "gate", "asked", "refused", "declined", "approved", "admit"} =>
          Owes({cur} \cup todo, {})
    /\ pc = "feedback" => Owes({cur} \cup todo, {cur})

OwesBatch ==
    /\ pc = "gatePhase" => Owes(batch \cup todo, {})
    /\ pc \in {"batchAsked", "batchRefused", "batchAllowed"} =>
          Owes({cur} \cup batch \cup todo, {})
    /\ pc = "exec" => Owes(batch, batch \ todo)
    /\ pc = "feedbackPhase" => Owes(todo \cup NonZero(suspendAt), Calls)

OwesSuspension ==
    pc \in {"suspend", "waitInput", "pausing", "paused"} =>
        Owes(NonZero(susp.pending) \cup susp.remaining,
             IF susp.kind = "tool" THEN {susp.pending} ELSE {})

(* A wait for a call names it, apart from the tail behind it. *)
Shape(s) ==
    /\ s.pending \notin s.remaining
    /\ s.pending # NoCall <=> s.kind \in {"tool", "callAsk"}

Shapes ==
    /\ Shape(sess) /\ Shape(held) /\ Shape(susp)
    /\ pc \in {"beforeStimulate", "audits"} => (stage = "pending" <=> Valid(sess))
    /\ pc = "resolveCall" => sess.kind = "callAsk"

(* The slices a pass works on. *)
Passes ==
    /\ pc \in {"gap", "gate", "asked", "refused", "declined", "approved",
               "admit", "feedback", "batchAsked", "batchRefused", "batchAllowed"} =>
          cur # NoCall /\ cur \notin todo
    /\ pc \in {"batchAsked", "batchRefused", "batchAllowed"} => cur \notin batch
    /\ pc = "announce" => batch = {} /\ denied = {}
    /\ pc = "gatePhase" => calls = batch \cup denied \cup todo
    /\ pc \in {"batchAsked", "batchRefused", "batchAllowed"} =>
          calls = {cur} \cup batch \cup denied \cup todo
    /\ pc \in {"gatePhase", "batchAsked", "batchRefused", "batchAllowed"} =>
          /\ batch \cap todo = {}
          /\ \A c \in denied : Settled(c) = 1
    /\ pc = "exec" => todo \subseteq batch
    /\ pc \in {"announce", "gatePhase", "batchAsked", "batchRefused",
               "batchAllowed", "exec"} => suspendAt = NoCall
    /\ pc = "feedbackPhase" => suspendAt \notin todo

(* The resumed call is settled before the tail behind it is entered. *)
Stages ==
    stage = "pending" =>
        /\ pc \notin {"prepare", "think", "usage", "emitGate", "utterAsk",
                      "utterDraft", "utterDenial", "acting", "run", "serial",
                      "gap", "gate", "asked", "refused", "announce",
                      "gatePhase", "batchAsked", "batchRefused",
                      "batchAllowed", "exec", "feedbackPhase"}
        /\ pc \in {"approved", "declined", "admit", "feedback"} => todo = sess.remaining

(* Nothing is answered twice, nothing answers a call never issued. *)
Answers ==
    Live => \A c \in Calls : Settled(c) <= 1 /\ (c > issued => Settled(c) = 0)

(* What has executed was issued and allowed, and what is about to is. *)
Executions ==
    /\ \A c \in Calls : /\ acted[c] <= 1 /\ (c > issued => acted[c] = 0)
                        /\ acted[c] = 1 => verdict[c] = "Allow"
    /\ pc \in {"approved", "admit", "batchAllowed"} => verdict[cur] = "Allow"
    /\ pc \in {"gatePhase", "batchAsked", "batchRefused", "batchAllowed", "exec"} =>
          \A c \in batch : verdict[c] = "Allow"

(* A handle is in the same state of account as the run that left it, and   *)
(* is gone once a run continues it.                                        *)
Handles ==
    Valid(held) =>
        /\ ~Live
        /\ \A c \in Calls :
              LET answers == held.toolResults[c] + held.refusals[c]
              IN  /\ answers <= 1 /\ (c > issued => answers = 0)
                  /\ c \in NonZero(held.pending) \cup held.remaining
                        <=> c <= issued /\ answers = 0
                  /\ c \in NonZero(held.pending) \cup held.remaining =>
                        acted[c] = IF held.kind = "tool" /\ c = held.pending THEN 1 ELSE 0

(* The inductive invariant about calls. *)
CallLedger ==
    /\ OwesNothing /\ OwesHandle /\ OwesRound /\ OwesSerial /\ OwesBatch
    /\ OwesSuspension /\ Shapes /\ Passes /\ Stages /\ Answers /\ Executions
    /\ Handles

-----------------------------------------------------------------------------
(* Drafts: the one decided last may be waiting to be said, and only that.  *)

Pending == /\ Valid(sess) /\ sess.kind = "utterance"
           /\ pc \in {"beforeStimulate", "audits", "resolveSay", "sayDraft", "sayDenial"}
Withheld == susp.kind = "utterance" /\ pc \in {"suspend", "waitInput"}

DraftWaits ==
    \/ pc \in {"usage", "emitGate", "utterAsk", "utterDraft", "utterDenial"}
    \/ Pending \/ Withheld
    \/ Valid(held) /\ held.kind = "utterance"

Vetoed == {d \in Drafts : draftRuling[d] = "Deny"}

(* A waiting draft is newer than all that was heard and not yet denied, and *)
(* the handle of an utterance wait is about it.                             *)
Waiting ==
    /\ DraftWaits => thinks \in Drafts /\ \A i \in DOMAIN heard : heard[i].draft < thinks
    /\ DraftWaits /\ pc \notin {"utterDenial", "sayDenial"} => thinks \notin Vetoed
    /\ \A d \in Vetoed : d <= thinks
    /\ Pending => sess.draft = thinks
    /\ Valid(held) /\ held.kind = "utterance" => held.draft = thinks
    /\ pc \in {"resolveSay", "sayDraft", "sayDenial"} => Pending
    /\ pc \in {"pausing", "paused"} => susp.kind = "pause"

(* What is about to be said has the ruling that lets it. *)
Ruled ==
    /\ pc \in {"utterDraft", "sayDraft"} => draftRuling[thinks] = "Allow"
    /\ pc \in {"utterDenial", "sayDenial"} => draftRuling[thinks] = "Deny"

Heard ==
    /\ \A i \in DOMAIN heard :
          /\ heard[i].draft \in Drafts /\ heard[i].draft <= thinks
          /\ draftRuling[heard[i].draft] =
                IF heard[i].as = "draft" THEN "Allow" ELSE "Deny"
    /\ \A i, j \in DOMAIN heard : i < j => heard[i].draft < heard[j].draft

(* The output and the vetoes of the run, and of the handle it left. *)
Told ==
    /\ Live => /\ out = heard
               /\ vetoes = IF pc \in {"utterDenial", "sayDenial"}
                           THEN Vetoed \ {thinks} ELSE Vetoed
    /\ Valid(held) => held.out = heard /\ held.vetoes = Vetoed

DraftLedger == Waiting /\ Ruled /\ Heard /\ Told

-----------------------------------------------------------------------------
(* The stream: which outcome and which last event go with a control point. *)

Closing == {"StateWaiting", "StatePaused", "StateDone", "StateError",
            "WaitInput", "Paused", "Done", "Error"}
Announced == {"waitInput", "paused", "doneEvent", "errorEvent"}

Outcome ==
    /\ Live /\ pc \notin {"waitInput", "doneEvent"} => outcome = "none"
    /\ pc = "waitInput" => outcome = "Suspended"
    /\ pc = "doneEvent" => outcome = "Done"
    /\ pc = "error" => outcome \in {"none", "MaxRounds"}
    /\ pc = "errorEvent" => outcome \in {"Error", "MaxRounds"}
    /\ pc # "idle" => outcome # "Aborted"

LastEvent ==
    /\ pc \notin Announced \cup {"idle", "settle"} => last \notin Closing
    /\ pc = "waitInput" => last = "StateWaiting"
    /\ pc = "paused" => last = "StatePaused"
    /\ pc = "doneEvent" => last = "StateDone"
    /\ pc = "errorEvent" => last = "StateError"

Ended ==
    /\ stopped => pc \in {"settle", "idle"}
    /\ pc \in {"settle", "idle"} =>
          /\ last \in {"WaitInput", "Paused"} => outcome = "Suspended"
          /\ last \in {"StateDone", "Done"} => outcome = "Done"
          /\ last \in {"StateError", "Error"} => outcome \in {"Error", "MaxRounds"}
          /\ ~stopped /\ last # "none" => last \in {"WaitInput", "Paused", "Done", "Error"}
          /\ outcome = "Aborted" => stopped
    /\ pc = "settle" => last # "none"

(* The output is read for Done and for nothing else. *)
Final == final = IF outcome = "Done" THEN heard ELSE << >>

StreamLedger == Outcome /\ LastEvent /\ Ended /\ Final

-----------------------------------------------------------------------------
(* Rounds: how many decisions this invocation has taken. *)

Budget == EffectiveMaxRounds(cfg.maxRounds)
First  == IF Valid(sess) THEN sess.round ELSE 1
Allowed == IF First > Budget THEN 0 ELSE Budget - First + 1

Entered == {"beforeStimulate", "audits", "resolveCall", "resolveSay", "sayDraft",
            "sayDenial", "approved", "declined", "rest", "round", "prepare", "think"}
Decided == {"usage", "emitGate", "utterAsk", "utterDraft", "utterDenial", "acting"}
InBatch == {"run", "serial", "gap", "gate", "asked", "refused", "admit",
            "feedback", "announce", "gatePhase", "batchAsked", "batchRefused",
            "batchAllowed", "exec", "feedbackPhase"}

Rounds ==
    /\ pc = "idle" => round = 0
    /\ Live => round >= 1
    /\ pc # "idle" => thought <= Allowed
    /\ pc \in Entered => thought = round - First
    /\ pc \in InBatch /\ stage # "rounds" => thought = round - First
    /\ pc \in InBatch /\ stage = "rounds" => thought = round - First + 1
    /\ pc \in Decided => stage = "rounds" /\ thought = round - First + 1
    /\ pc \in {"prepare", "think"} => round <= Budget /\ stage = "rounds"
    /\ pc \in {"resolveCall", "approved", "declined"} => stage = "pending"

(* The ceiling is reported only when it is spent and nothing is open. *)
Spent ==
    pc # "idle" /\ outcome = "MaxRounds" =>
        thought = Allowed /\ \A c \in Issued : Settled(c) = 1

RoundLedger == Rounds /\ Spent

-----------------------------------------------------------------------------
(* Work begun under a standing pause request.  Where a call may still      *)
(* execute before the next gap point, none has.                            *)

LateLedger ==
    /\ late > 0 => pauseFlag
    /\ pc \in {"feedback", "rest", "run", "serial", "gap", "announce"} => late <= 1
    /\ pc = "exec" => late <= Cardinality(batch \ todo)
    /\ pc \in {"feedbackPhase", "round", "suspend", "waitInput", "pausing", "paused",
               "error", "errorEvent", "settle"} =>
          (late > 1 => late <= Cardinality(batch))
    /\ late > 0 => pc \in {"feedback", "rest", "run", "serial", "gap", "announce",
                          "exec", "feedbackPhase", "round", "suspend",
                          "waitInput", "pausing", "paused", "error",
                          "errorEvent", "settle"}

(* The goroutines of the execution phase, and nobody outside it. *)
WindowLedger ==
    /\ pc # "exec" => running = {}
    /\ pc = "exec" =>
          /\ running \subseteq batch \ todo
          /\ Cardinality(running) <= ExecWindow(cfg.window, Cardinality(batch))
=============================================================================
