-------------------------------- MODULE Turn --------------------------------
(***************************************************************************)
(* One turn of the loop through its organs.  A Think: the attempts, each of *)
(* them a request of the bundled brain or a call of another Thinker, then   *)
(* the output membrane on the draft.  A tool call: the membrane, then the   *)
(* attempts, then the feedback, truncated to MaxToolOutput.  The membrane   *)
(* is a stack of layers, the tool a fallback stack.                         *)
(*                                                                         *)
(* A text fed back is a sequence of bytes, each the length of the rune it   *)
(* starts, or 0 inside a rune (and where there is no rune at all).          *)
(***************************************************************************)
EXTENDS Attempts, Sequences

CONSTANTS
    Layers,     \* the sizes of the membrane stack to try
    Replies,    \* the provider's answers to try
    NoReply,
    Payloads,   \* the texts a tool, or its error, may feed back
    Limits      \* the values of MaxToolOutput to try

VARIABLES
    mode, stream, sink, schemas, stage, reply, frames, acc, resp, deltas,
    decision, requests,
    layers, votes, asked, ruling, reason,
    thinker,    \* the Thinker is the bundled brain, or another
    phase,      \* "gate", "attempts", "membrane", "over"
    said,       \* what the consumer hears of the draft
    fed         \* what the structured track gets, and from what

VARIABLE lateRequests   \* history: requests sent when the caller's context was done

B == INSTANCE Brain
G == INSTANCE GuardStack

ASSUME StackAssumption == Layers \subseteq Nat
ASSUME RepliesAssumption == Replies \subseteq B!Reply /\ NoReply \notin B!Reply
ASSUME PayloadsAssumption ==
    Payloads \subseteq Seq(0 .. 4) /\ << >> \notin Payloads /\ Limits \subseteq Int

brainConfig == <<mode, stream, sink, schemas>>
wireVars    == <<reply, frames, acc, resp, deltas>>
brainVars   == <<brainConfig, stage, wireVars, decision, requests, lateRequests>>
guardVars   == <<layers, votes, asked, ruling, reason>>
turnVars    == <<thinker, phase, said, fed>>
tvars       == <<vars, brainVars, guardVars, turnVars>>

Unfed == [from |-> << >>, limit |-> 0, err |-> FALSE, text |-> << >>, marked |-> FALSE]

TInit ==
    /\ Init /\ B!BrainInit /\ G!GuardInit
    /\ thinker \in {"brain", "other"}
    /\ thinker = "other" => mode = "chat" /\ ~stream /\ ~sink /\ schemas
    /\ kind = "act" => thinker = "other"
    /\ phase = IF kind = "act" THEN "gate" ELSE "attempts"
    /\ said = "none" /\ fed = Unfed /\ lateRequests = 0

-----------------------------------------------------------------------------
(* The membrane. *)
AskMembrane ==
    /\ phase \in {"gate", "membrane"} /\ G!GuardStep
    /\ UNCHANGED <<vars, brainVars, turnVars>>

(* A call runs under an Allow only; a refused one is fed back, an asked one *)
(* suspends, and neither reaches the tool.  Nor does an allowed one if the  *)
(* consumer stops at the audit or the BeforeAct hook fails.                 *)
GateRuled ==
    /\ phase = "gate" /\ ruling # "none"
    /\ \/ phase' = "over"
       \/ ruling = "Allow" /\ phase' = "attempts"
    /\ UNCHANGED <<vars, brainVars, guardVars, thinker, said, fed>>

(* The draft is said, replaced by its denial, or withheld; nothing is said  *)
(* when the consumer stops at the audit.                                    *)
DraftRuled ==
    /\ phase = "membrane" /\ ruling # "none" /\ phase' = "over"
    /\ \/ ruling = "Allow" /\ said' = "draft"
       \/ ruling = "Deny"  /\ said' = "denial"
       \/ ruling = "Ask"   /\ said' = "withheld"
       \/ UNCHANGED said
    /\ UNCHANGED <<vars, brainVars, guardVars, thinker, fed>>

-----------------------------------------------------------------------------
(* The attempts. *)
Attempting(step) == phase = "attempts" /\ step /\ UNCHANGED <<guardVars, turnVars>>

(* The brain gets a fresh request's worth of state with every attempt. *)
TurnThinks ==
    /\ Attempting(Think)
    /\ IF thinker = "other" THEN UNCHANGED brainVars
       ELSE /\ stage' = "called" /\ reply' = NoReply /\ frames' = << >>
            /\ acc' = B!Empty /\ resp' = NoReply /\ deltas' = << >>
            /\ decision' = B!Failed /\ UNCHANGED <<brainConfig, requests, lateRequests>>

BrainWorks(step) ==
    /\ Attempting(pc = "thinking" /\ thinker = "brain" /\ step /\ UNCHANGED vars)
    /\ lateRequests' = lateRequests + (IF cancelled THEN requests' - requests ELSE 0)

TurnThinkReturns ==
    /\ Attempting(ThinkReturns)
    /\ IF thinker = "other" THEN UNCHANGED brainVars
       ELSE /\ stage = "returned" /\ stage' = "rest"
            /\ answer' = IF decision.ok THEN "ok" ELSE "error"
            /\ UNCHANGED <<brainConfig, wireVars, decision, requests, lateRequests>>

(* Every other step of the attempts leaves the brain at rest. *)
TurnActs ==
    /\ Attempting(\/ ThinkGivesUp \/ ThinkChecks \/ ActGivesUp \/ Act \/ AskMember \/ StackFails
                  \/ MemberReturns \/ Release \/ Decide)
    /\ UNCHANGED brainVars

(* A decision goes to the membrane.  An error ends the turn, the AfterThink *)
(* hook's too, and so does a consumer that stops at the usage event.        *)
Thought ==
    /\ phase = "attempts" /\ kind = "think" /\ Settled
    /\ \/ phase' = "over"
       \/ pc = "ok" /\ phase' = "membrane"
    /\ UNCHANGED <<vars, brainVars, guardVars, thinker, said, fed>>

-----------------------------------------------------------------------------
(* Feedback. *)
RuneStart(s, i) == s[i + 1] # 0

WellEncoded(s, n) == n \in 1 .. Len(s) /\ \A i \in 2 .. n : s[i] = 0

(* What decodes as no rune counts as one byte. *)
FirstRune(s) == IF WellEncoded(s, s[1]) THEN s[1] ELSE 1

(* Mutant: the cut falls where the limit does. *)
TruncAtByte(s, limit) == limit

(* Back from the limit to where a rune starts; when there is none but the   *)
(* first, that one is kept whole.                                           *)
TruncAt(s, limit) ==
    LET starts == {i \in 1 .. limit : RuneStart(s, i)}
    IN  IF starts = {} THEN FirstRune(s)
        ELSE CHOOSE i \in starts : \A j \in starts : j <= i

Cut(s, limit) == limit > 0 /\ Len(s) > limit

truncateText(s, limit) == IF Cut(s, limit) THEN SubSeq(s, 1, TruncAt(s, limit)) ELSE s

(* What the tool asks the outside for goes before its result and its error; *)
(* a missing effect asks nothing, and a failed stack hands none back.       *)
ToolWaits ==
    /\ phase = "attempts" /\ kind = "act" /\ Settled /\ phase' = "over"
    /\ answer # "nil" /\ (answer = "error" => stack = 1)
    /\ UNCHANGED <<vars, brainVars, guardVars, thinker, said, fed>>

(* Result or failure: the error's text, the tool's own, the text of the     *)
(* missing effect, or the result.                                           *)
Feedback ==
    /\ phase = "attempts" /\ kind = "act" /\ Settled /\ phase' = "over"
    /\ \E text \in Payloads, limit \in Limits :
          fed' = [from |-> text, limit |-> limit, err |-> answer # "ok",
                  text |-> truncateText(text, limit), marked |-> Cut(text, limit)]
    /\ UNCHANGED <<vars, brainVars, guardVars, thinker, said>>

-----------------------------------------------------------------------------
Environment == (Cancel \/ TimerFires) /\ phase # "over"
                 /\ UNCHANGED <<brainVars, guardVars, turnVars>>

(* What goes on by itself; a done context ends the brain's request.         *)
TStep == \/ AskMembrane \/ GateRuled \/ DraftRuled
         \/ TurnThinks \/ TurnThinkReturns \/ TurnActs \/ Thought
         \/ ToolWaits \/ Feedback
         \/ BrainWorks(B!LocalStep) \/ BrainWorks(cancelled /\ B!RequestFails)

TNext == \/ TStep \/ Environment
         \/ BrainWorks(B!ProviderStep) \/ BrainWorks(B!RequestFails)

TSpec == TInit /\ [][TNext]_tvars

(* Membranes, tools and other Thinkers come back.  Nothing is assumed of    *)
(* the provider: Think has no timeout of its own, and a stream may stay     *)
(* silent for ever.                                                         *)
TFairSpec == TSpec /\ WF_tvars(TStep)
-----------------------------------------------------------------------------
TurnTypeOK ==
    /\ TypeOK /\ G!GuardTypeOK
    /\ mode \in {"chat", "responses"} /\ stream \in BOOLEAN /\ sink \in BOOLEAN
    /\ schemas \in BOOLEAN
    /\ stage \in {"rest", "called", "waiting", "streaming", "returned"}
    /\ reply \in Replies \cup {NoReply} /\ requests \in Nat
    /\ lateRequests \in Nat /\ thinker \in {"brain", "other"}
    /\ phase \in {"gate", "attempts", "membrane", "over"}
    /\ said \in {"none", "draft", "denial", "withheld"}
    /\ fed # Unfed => phase = "over" /\ kind = "act" /\ Settled

(* One layer of retries (brain.go 62-64): the provider is asked at most     *)
(* once per attempt of the loop, never for a round whose tools do not       *)
(* render, and at most once after the caller cancelled, whether the Think   *)
(* under way had still to send its request or one more began (retry.go      *)
(* 48-52).                                                                  *)
BetweenThinks == pc \in {"attempt", "checked", "failed", "cancelled"}

RequestBudget ==
    /\ requests <= attempt + (IF BetweenThinks THEN 0 ELSE 1)
    /\ requests <= MaxAttempts + 1
    /\ lateRequests <= 1
    /\ ~schemas => requests = 0 /\ pc # "ok"

DecisionIsTheAnswer == B!DecisionIsTheAnswer

(* Severity, not order, decides (compose.go 22-31), and the ruling is the   *)
(* one that is acted on: a tool is called, and a draft heard, only when     *)
(* every layer of a stack that has one allowed it.                          *)
MembraneHolds ==
    /\ G!RulingIsSeverest
    /\ kind = "act" /\ Calling => ruling = "Allow"
    /\ fed # Unfed => ruling = "Allow"
    /\ said = "draft" => ruling = "Allow" /\ pc = "ok"
    /\ said = "denial" => ruling = "Deny" /\ pc = "ok"

(* A truncated text (retry.go 21-38) is a prefix that is not empty, and of  *)
(* a well-formed text whole runes: as many as the limit takes, or the first *)
(* one when it takes none.  A text within the limit is left alone.          *)
WellFormed(s) ==
    \A i \in DOMAIN s :
        IF s[i] = 0 THEN \E j \in 1 .. i - 1 : s[j] > i - j
                    ELSE \A k \in 1 .. s[i] - 1 : i + k \in DOMAIN s /\ s[i + k] = 0

TruncationKeepsRunes ==
    LET kept == Len(fed.text)
    IN  /\ fed.text = SubSeq(fed.from, 1, kept)
        /\ ~fed.marked => fed.text = fed.from
        /\ fed.marked =>
              /\ fed.limit > 0 /\ Len(fed.from) > fed.limit /\ kept > 0
              /\ WellFormed(fed.from) =>
                    /\ WellFormed(fed.text)
                    /\ kept <= fed.limit \/ kept = fed.from[1]
                    /\ kept < Len(fed.from) => kept + fed.from[kept + 1] > fed.limit

(* A turn ends once its caller cancels, though the provider stays silent;   *)
(* and with no provider behind it, it ends anyway.                          *)
TurnEnds == (kind = "act" \/ thinker = "other" \/ cancelled) ~> phase = "over"
=============================================================================
