---------------------------- MODULE JournalLedger ----------------------------
(***************************************************************************)
(* The strengthenings the proofs about a journalling host rest on.  A run  *)
(* that continues a chain after a restart does not know of the restart: it *)
(* looks like a run of a chain nobody interrupted, in which a reopened     *)
(* call has not executed yet and a lost one was settled long ago.  Seen so *)
(* (`Kept'), the ledger of calls holds as it does without a journal.       *)
(***************************************************************************)
EXTENDS Journal, DecisionLoopLedger

(* Executions since a restart last found the call open. *)
ActedSince == [c \in Calls |-> acted[c] - before[c]]

(* Lost calls count as settled wherever answers of the chain are counted. *)
Mark(c) == IF c \in lost THEN 1 ELSE 0
Marked(f) == [c \in Calls |-> f[c] + Mark(c)]
MarkedHandle(s) == IF Valid(s) THEN [s EXCEPT !.refusals = Marked(@)] ELSE s
MarkedRefusals == IF Valid(sess) THEN Marked(refusals) ELSE refusals

Kept == INSTANCE DecisionLoopCalls WITH
    acted <- ActedSince, refusals <- MarkedRefusals,
    sess  <- MarkedHandle(sess), held <- MarkedHandle(held)

-----------------------------------------------------------------------------
(* Types of what Kept sees otherwise, and of the history of restarts. *)
OwnTypes ==
    /\ refusals \in [Calls -> Nat] /\ acted \in [Calls -> Nat]
    /\ HandlesOK
    /\ before \in [Calls -> Nat] /\ reopened \in [Calls -> Nat] /\ lost \subseteq Calls

(* Only a resumed chain can have lost calls, and a restart that counts an  *)
(* execution as past is one that found its call open.                      *)
Lineage ==
    /\ ~Valid(sess) => sess = ZeroSession
    /\ ~Valid(held) => held = ZeroSession
    /\ Live => round >= 1
    /\ Live /\ ~Valid(sess) => lost = {}
    /\ \A c \in Calls : before[c] <= reopened[c]

InHand(s) == NonZero(s.pending) \cup s.remaining
AnswersIn(s, c) == s.toolResults[c] + s.refusals[c] + Mark(c)

(* The call a tool's handle waits for: executed, answered by the Resume. *)
Awaited(s, c) == s.kind = "tool" /\ c = s.pending

(* What the handle under way says of a call: it may come back after a death *)
(* of this run, so it has to stay a handle of this chain while the run goes *)
(* on, which issues further calls and executes the ones in hand.            *)
UnderWay ==
    Valid(sess) => \A c \in Calls :
        /\ AnswersIn(sess, c) <= 1 /\ (c > issued => AnswersIn(sess, c) = 0)
        /\ c \in InHand(sess) => c <= issued /\ AnswersIn(sess, c) = 0
        /\ Awaited(sess, c) => ActedSince[c] = 1

RestartLedger ==
    /\ Kept!TypeOK /\ Kept!CallLedger /\ OwnTypes /\ Lineage /\ UnderWay

-----------------------------------------------------------------------------
(* What the world has seen and the journal has not, at each control point: *)
(* the call whose result is on its way, or those of the batch.             *)
Unknown == Untold \ forgone

JournalLedgers ==
    /\ pc = "feedback" => Unknown \subseteq {cur}
    /\ pc \in {"suspend", "waitInput"} =>
          Unknown \subseteq IF susp.kind = "tool" THEN {susp.pending} ELSE {}
    /\ pc = "exec" => Unknown \subseteq batch \ todo
    /\ pc = "feedbackPhase" =>
          /\ Unknown \subseteq todo \cup NonZero(suspendAt)
          /\ todo \cup NonZero(suspendAt) \subseteq batch
    /\ pc = "settle" => Unknown \subseteq batch \/ \E c \in Calls : Unknown \subseteq {c}
    /\ pc \notin {"feedback", "suspend", "waitInput", "exec", "feedbackPhase", "settle"} =>
          Unknown = {}
    /\ Valid(held) => Unknown = {}
=============================================================================
