------------------------------ MODULE TurnProofs ------------------------------
(***************************************************************************)
(* What a turn guarantees for every number of retries, every stack of       *)
(* members and layers, every provider and every text: it implements the     *)
(* attempts, so all that is proved of them holds of it; its membrane rules  *)
(* by severity and is obeyed; and its requests stay within the attempts.    *)
(***************************************************************************)
EXTENDS Turn, AttemptsProofs, SequenceTheorems, WellFoundedInduction

-----------------------------------------------------------------------------
(* Every step of a turn is a step of the attempts inside it, or none.       *)
LEMMA StepIsAttempts == [TNext]_tvars => [Next]_vars
<1> SUFFICES ASSUME [TNext]_tvars PROVE [Next]_vars
  OBVIOUS
<1>1. CASE UNCHANGED tvars
  BY <1>1 DEF tvars
<1>2. CASE AskMembrane \/ GateRuled \/ DraftRuled \/ Thought \/ ToolWaits \/ Feedback
  BY <1>2 DEF AskMembrane, GateRuled, DraftRuled, Thought, ToolWaits, Feedback
<1>3. CASE TurnThinks \/ TurnThinkReturns \/ TurnActs
  BY <1>3 DEF TurnThinks, TurnThinkReturns, TurnActs, Attempting, Next, Step
<1>4. CASE BrainWorks(B!LocalStep) \/ BrainWorks(cancelled /\ B!RequestFails)
           \/ BrainWorks(B!ProviderStep) \/ BrainWorks(B!RequestFails)
  BY <1>4 DEF BrainWorks, Attempting
<1>5. CASE Environment
  BY <1>5 DEF Environment, Next
<1> QED BY <1>1, <1>2, <1>3, <1>4, <1>5 DEF TNext, TStep

(* A turn implements the attempts of its Think or tool call.                *)
THEOREM TurnImplementsAttempts == TSpec => Spec
<1>1. TInit => Init
  BY DEF TInit
<1> QED BY <1>1, StepIsAttempts, PTL DEF TSpec, Spec

(* So whatever the provider, the membrane and the tools do, a turn gives up *)
(* for a reason, and a result or a timeout ends its attempts.               *)
THEOREM TurnAttempts ==
    TSpec => /\ []GivesUpForAReason /\ []CancelBoundsWork /\ []FailureHasACause
             /\ RanIsFinal /\ TimeoutIsFinal
BY TurnImplementsAttempts, NoEarlyFailure, CancelIsBounded, FailureCaused,
   ResultIsFinal, NoRetryAfterTimeout, PTL

-----------------------------------------------------------------------------
(* The membrane.  What the stack has heard, and what it makes of it. *)
Ruled ==
    /\ layers \in Nat /\ votes \in Seq(G!LayerAnswers) /\ asked \in 0 .. Len(votes)
    /\ asked = 0 => G!Askers = {}
    /\ asked # 0 => votes[asked] = "Ask" /\ \A i \in DOMAIN votes : votes[i] = "Ask" => asked <= i
    /\ ruling = "none" => Len(votes) <= layers
    /\ G!RulingIsSeverest

(* Where a turn is, and what that says of its other parts. *)
Phases ==
    /\ phase \in {"gate", "attempts", "membrane", "over"}
    /\ ruling \in {"none", "Allow", "Ask", "Deny"}
    /\ phase = "gate" => kind = "act" /\ ~Calling
    /\ phase = "attempts" /\ kind = "act" => ruling = "Allow"
    /\ phase = "membrane" => kind = "think" /\ pc = "ok"
    /\ phase = "over" => ~Calling
    /\ phase # "over" => said = "none" /\ fed = Unfed
    /\ fed # Unfed => ruling = "Allow"
    /\ said = "draft" => ruling = "Allow" /\ pc = "ok"
    /\ said = "denial" => ruling = "Deny" /\ pc = "ok"

(* A layer's answer, appended to the answers before it. *)
LEMMA LayerKeepsRuled == Ruled /\ G!Layer => Ruled'
<1> SUFFICES ASSUME Ruled, G!Layer PROVE Ruled'
  OBVIOUS
<1>1. PICK vote \in G!LayerAnswers :
          /\ votes' = Append(votes, vote)
          /\ asked' = IF G!knownRuling(vote) = "Ask" /\ asked = 0 THEN Len(votes) + 1 ELSE asked
          /\ IF G!knownRuling(vote) = "Deny" THEN G!Rule("Deny", Len(votes) + 1)
                                             ELSE UNCHANGED <<ruling, reason>>
  BY DEF G!Layer
<1>2. ruling = "none" /\ Len(votes) < layers /\ layers' = layers /\ layers \in Nat
      /\ votes \in Seq(G!LayerAnswers) /\ Len(votes) \in Nat /\ asked \in 0 .. Len(votes)
  BY DEF G!Layer, Ruled
<1>3. votes' \in Seq(G!LayerAnswers) /\ Len(votes') = Len(votes) + 1
      /\ DOMAIN votes' = 1 .. Len(votes) + 1 /\ DOMAIN votes = 1 .. Len(votes)
      /\ votes'[Len(votes) + 1] = vote
      /\ \A i \in 1 .. Len(votes) : votes'[i] = votes[i]
  BY <1>1, <1>2
<1>4. G!knownRuling(vote) = (IF vote = "Allow" THEN "Allow" ELSE IF vote = "Ask" THEN "Ask" ELSE "Deny")
  BY DEF G!knownRuling
<1>5. asked' \in 0 .. Len(votes')
  BY <1>1, <1>2, <1>3
<1>6. asked' = 0 => G!Askers' = {}
  BY <1>1, <1>2, <1>3, <1>4 DEF Ruled, G!Askers
<1>7. asked' # 0 => votes'[asked'] = "Ask" /\ \A i \in DOMAIN votes' : votes'[i] = "Ask" => asked' <= i
  BY <1>1, <1>2, <1>3, <1>4 DEF Ruled, G!Askers
<1>8. G!Deniers = {}
  BY <1>2 DEF Ruled, G!RulingIsSeverest
<1>9. G!RulingIsSeverest'
  <2>1. CASE G!knownRuling(vote) = "Deny"
    <3>1. ruling' = "Deny" /\ reason' = Len(votes) + 1
      BY <1>1, <2>1 DEF G!Rule
    <3>2. G!Deniers' = {Len(votes')}
      BY <1>2, <1>3, <1>4, <1>8, <2>1 DEF G!Deniers
    <3> QED BY <1>2, <1>3, <3>1, <3>2 DEF G!RulingIsSeverest
  <2>2. CASE G!knownRuling(vote) # "Deny"
    <3>1. ruling' = "none"
      BY <1>1, <1>2, <2>2
    <3>2. G!Deniers' = {}
      BY <1>2, <1>3, <1>4, <1>8, <2>2 DEF G!Deniers
    <3> QED BY <3>1, <3>2 DEF G!RulingIsSeverest
  <2> QED BY <2>1, <2>2
<1> QED BY <1>2, <1>3, <1>5, <1>6, <1>7, <1>9 DEF Ruled

LEMMA GuardKeepsRuled == Ruled /\ G!GuardStep => Ruled'
<1> SUFFICES ASSUME Ruled, G!GuardStep PROVE Ruled'
  OBVIOUS
<1>1. CASE G!Layer
  BY <1>1, LayerKeepsRuled
<1>2. CASE G!NoLayer
  BY <1>2 DEF Ruled, G!NoLayer, G!Rule, G!RulingIsSeverest, G!Askers, G!Deniers, G!LayerAnswers
<1>3. CASE G!AllRuled
  <2>1. /\ ruling = "none" /\ layers > 0 /\ Len(votes) = layers
        /\ ruling' = (IF asked # 0 THEN "Ask" ELSE "Allow") /\ reason' = asked
        /\ UNCHANGED <<layers, votes, asked>> /\ G!Deniers = {}
    BY <1>3 DEF Ruled, G!AllRuled, G!Rule, G!RulingIsSeverest
  <2>2. asked \in 0 .. Len(votes) /\ DOMAIN votes = 1 .. Len(votes)
        /\ \A i \in DOMAIN votes : votes[i] \in G!LayerAnswers
    BY DEF Ruled
  <2>3. G!Deniers' = {} /\ G!Askers' = G!Askers
    BY <2>1 DEF G!Deniers, G!Askers
  <2>4. CASE asked = 0
    BY <2>1, <2>2, <2>3, <2>4 DEF Ruled, G!RulingIsSeverest, G!Deniers, G!Askers
  <2>5. CASE asked # 0
    BY <2>1, <2>2, <2>3, <2>5 DEF Ruled, G!RulingIsSeverest, G!Deniers, G!Askers
  <2> QED BY <2>4, <2>5
<1> QED BY <1>1, <1>2, <1>3 DEF G!GuardStep

LEMMA RuledStays == Ruled /\ UNCHANGED guardVars => Ruled'
BY DEF Ruled, guardVars, G!RulingIsSeverest, G!Askers, G!Deniers

LEMMA NextKeepsRuled == Ruled /\ [TNext]_tvars => Ruled'
<1> SUFFICES ASSUME Ruled, [TNext]_tvars PROVE Ruled'
  OBVIOUS
<1>1. G!GuardStep \/ UNCHANGED guardVars
  BY DEF TNext, TStep, tvars, AskMembrane, GateRuled, DraftRuled, Thought, ToolWaits,
     Feedback, TurnThinks, TurnThinkReturns, TurnActs, BrainWorks, Attempting, Environment
<1> QED BY <1>1, GuardKeepsRuled, RuledStays

LEMMA NextKeepsPhases == Phases /\ [TNext]_tvars => Phases'
<1> SUFFICES ASSUME Phases, [TNext]_tvars PROVE Phases'
  OBVIOUS
<1>1. CASE UNCHANGED tvars
  BY <1>1 DEF Phases, tvars, vars, config, guardVars, turnVars, Calling
<1>2. CASE AskMembrane
  <2>1. phase \in {"gate", "membrane"} /\ UNCHANGED <<vars, turnVars>>
        /\ ruling' \in {"none", "Allow", "Ask", "Deny"}
    BY <1>2 DEF AskMembrane, Phases, G!GuardStep, G!NoLayer, G!Layer, G!AllRuled, G!Rule
  <2> QED BY <2>1 DEF Phases, vars, config, turnVars, Calling
<1>3. CASE GateRuled
  BY <1>3 DEF GateRuled, Phases, vars, config, guardVars, Calling
<1>4. CASE DraftRuled
  BY <1>4 DEF DraftRuled, Phases, vars, config, guardVars, Calling
<1>5. CASE Thought
  BY <1>5 DEF Thought, Phases, vars, config, guardVars, Calling, Settled
<1>6. CASE Feedback
  <2>1. /\ phase = "attempts" /\ kind = "act" /\ Settled /\ phase' = "over"
        /\ UNCHANGED <<vars, guardVars, said>>
    BY <1>6 DEF Feedback
  <2> QED BY <2>1 DEF Phases, vars, config, guardVars, Calling, Settled
<1>a. CASE ToolWaits
  BY <1>a DEF ToolWaits, Phases, vars, config, guardVars, Calling, Settled
<1>7. CASE TurnThinks \/ TurnThinkReturns \/ TurnActs
  <2>1. phase = "attempts" /\ kind' = kind /\ UNCHANGED <<guardVars, turnVars>>
    BY <1>7 DEF TurnThinks, TurnThinkReturns, TurnActs, Attempting, Think, ThinkReturns,
       ThinkGivesUp, ThinkChecks, ActGivesUp, Act, AskMember, StackFails, MemberReturns, Release, Decide,
       config
  <2> QED BY <2>1 DEF Phases, guardVars, turnVars
<1>8. CASE BrainWorks(B!LocalStep) \/ BrainWorks(cancelled /\ B!RequestFails)
           \/ BrainWorks(B!ProviderStep) \/ BrainWorks(B!RequestFails)
  <2>1. UNCHANGED <<vars, guardVars, turnVars>>
    BY <1>8 DEF BrainWorks, Attempting
  <2> QED BY <2>1 DEF Phases, vars, config, guardVars, turnVars, Calling
<1>9. CASE Environment
  <2>1. kind' = kind /\ pc' = pc /\ UNCHANGED <<guardVars, turnVars>>
    BY <1>9 DEF Environment, Cancel, TimerFires, config
  <2> QED BY <2>1 DEF Phases, guardVars, turnVars, Calling
<1> QED BY <1>1, <1>2, <1>3, <1>4, <1>5, <1>6, <1>7, <1>8, <1>9, <1>a DEF TNext, TStep

LEMMA MembraneInitially == TInit => Ruled /\ Phases
<1> SUFFICES ASSUME TInit PROVE Ruled /\ Phases
  OBVIOUS
<1>1. Ruled
  BY StackAssumption
  DEF TInit, Ruled, G!GuardInit, G!RulingIsSeverest, G!Askers, G!Deniers, G!LayerAnswers
<1>2. Phases
  BY DEF TInit, Init, Phases, G!GuardInit, Calling
<1> QED BY <1>1, <1>2

(* For every stack of layers, severity and not order decides, and no tool   *)
(* runs and no draft is heard unless every layer allowed it.                *)
THEOREM MembraneKept == TSpec => []MembraneHolds
<1>1. Ruled /\ Phases => MembraneHolds
  BY DEF Ruled, Phases, MembraneHolds, Calling
<1> QED BY <1>1, MembraneInitially, NextKeepsRuled, NextKeepsPhases, PTL DEF TSpec

-----------------------------------------------------------------------------
(* Requests.  An attempt has sent at most one, and sends it while it lasts; *)
(* with a schema that does not parse no attempt gets so far.                *)
Budget ==
    /\ requests \in Nat /\ schemas \in BOOLEAN /\ thinker \in {"brain", "other"}
    /\ requests <= attempt + (IF BetweenThinks THEN 0 ELSE 1)
    /\ lateRequests \in {0, 1}
    /\ lateRequests = 1 => cancelled /\ stage # "called" /\ pc # "checked"
    /\ stage \in {"called", "waiting", "streaming"} => pc = "thinking"
    /\ stage = "called" => requests <= attempt
    /\ pc = "ok" => attempt <= MaxAttempts
    /\ thinker = "other" => schemas /\ stage = "rest" /\ requests = 0
    /\ kind = "act" => thinker = "other"
    /\ ~schemas => requests = 0 /\ decision = B!Failed /\ pc # "ok"
                   /\ stage \notin {"waiting", "streaming"}

LEMMA ZeroIsLeast == ASSUME NEW n \in Nat PROVE 0 <= n + 0 /\ 0 <= n + 1
OBVIOUS

(* The brain at work. *)
LEMMA BrainKeepsBudget ==
    ASSUME IInv, Budget, pc = "thinking", thinker = "brain", UNCHANGED vars,
           UNCHANGED thinker, B!BrainStep,
           lateRequests' = lateRequests + (IF cancelled THEN requests' - requests ELSE 0)
    PROVE  Budget'
<1>1. /\ attempt \in Nat /\ attempt' = attempt /\ pc' = "thinking" /\ kind' = kind
      /\ kind = "think" /\ thinker' = "brain" /\ requests \in Nat
      /\ cancelled' = cancelled /\ ~BetweenThinks /\ ~BetweenThinks'
  BY BoundIsNat DEF IInv, TypeOK, Callers, vars, config, Budget, BetweenThinks
<1>2. requests <= attempt + 1
  BY <1>1 DEF Budget
<1>n. requests' = requests => lateRequests' = lateRequests
  BY <1>1 DEF Budget
<1>3. CASE B!RenderFails
  BY <1>1, <1>2, <1>3, <1>n DEF Budget, B!RenderFails, B!brainConfig, B!wireVars
<1>4. CASE B!Request
  <2>1. requests' = requests + 1 /\ stage' \in {"waiting", "streaming"} /\ schemas
        /\ schemas' = schemas /\ requests <= attempt /\ lateRequests = 0
    BY <1>4 DEF Budget, B!Request, B!brainConfig
  <2>2. lateRequests' = IF cancelled THEN 1 ELSE 0
    BY <1>1, <2>1
  <2> QED BY <1>1, <2>1, <2>2 DEF Budget
<1>5. CASE B!Answered \/ B!Chunk \/ B!ChunkRefused \/ B!ResponseEvent \/ B!ErrorEvent
           \/ B!StreamEnds \/ B!RequestFails
  <2>1. /\ stage \in {"waiting", "streaming"} /\ requests' = requests /\ schemas' = schemas
        /\ stage' \in {stage, "returned"}
    BY <1>5 DEF B!Answered, B!Chunk, B!ChunkRefused, B!ResponseEvent, B!ErrorEvent,
       B!StreamEnds, B!RequestFails, B!Return, B!OnWire, B!Receiving, B!brainConfig
  <2>2. schemas
    BY <2>1 DEF Budget
  <2> QED BY <1>1, <1>2, <1>n, <2>1, <2>2 DEF Budget
<1> QED BY <1>3, <1>4, <1>5 DEF B!BrainStep, B!LocalStep, B!ProviderStep

(* The attempts' own steps. *)
LEMMA AttemptsKeepBudget ==
    ASSUME IInv, Budget, TurnThinks \/ TurnThinkReturns \/ TurnActs
    PROVE  Budget'
<1>t. /\ attempt \in Nat /\ requests \in Nat /\ MaxAttempts \in Nat
      /\ kind \in {"think", "act"} /\ thinker' = thinker
  BY BoundIsNat DEF IInv, TypeOK, Budget, TurnThinks, TurnThinkReturns, TurnActs, Attempting, turnVars
<1>1. CASE TurnThinks
  <2>1. /\ pc = "checked" /\ pc' = "thinking" /\ attempt' = attempt /\ kind' = kind
        /\ kind = "think" /\ requests <= attempt
        /\ lateRequests = 0 /\ lateRequests' = 0
    BY <1>1, <1>t DEF TurnThinks, Attempting, Think, config, Budget, IInv, Callers,
       BetweenThinks, brainVars
  <2>2. requests' = requests /\ schemas' = schemas
        /\ IF thinker = "other" THEN stage' = stage /\ decision' = decision
           ELSE stage' = "called" /\ decision' = B!Failed
    BY <1>1 DEF TurnThinks, brainVars, brainConfig
  <2> QED BY <1>t, <2>1, <2>2 DEF Budget, BetweenThinks
<1>2. CASE TurnThinkReturns
  <2>1. /\ pc = "thinking" /\ kind' = kind /\ kind = "think" /\ requests' = requests
        /\ schemas' = schemas /\ decision' = decision /\ stage' = "rest"
        /\ attempt <= MaxAttempts /\ MaxAttempts' = MaxAttempts
        /\ lateRequests' = lateRequests /\ cancelled' = cancelled
    BY <1>2 DEF TurnThinkReturns, Attempting, ThinkReturns, config, brainVars, brainConfig,
       Budget, IInv, Callers, LastAnswer, TypeOK, MaxAttempts
  <2>2. \/ pc' = "ok" /\ answer' = "ok" /\ attempt' = attempt
        \/ pc' = "attempt" /\ attempt' = attempt + 1
    BY <1>2 DEF TurnThinkReturns, Attempting, ThinkReturns
  <2>3. ~schemas => answer' = "error"
    BY <1>2 DEF TurnThinkReturns, Budget, B!Failed
  <2>4. requests <= attempt + 1
    BY <1>t, <2>1 DEF Budget, BetweenThinks
  <2> QED BY <1>t, <2>1, <2>2, <2>3, <2>4 DEF Budget, BetweenThinks
<1>3. CASE TurnActs
  <2>1. requests' = requests /\ schemas' = schemas /\ decision' = decision /\ stage' = stage
        /\ lateRequests' = lateRequests
    BY <1>3 DEF TurnActs, brainVars, brainConfig
  <2>2. CASE ThinkGivesUp
    <3>1. pc = "attempt" /\ pc' \in {"failed", "cancelled"} /\ attempt' = attempt /\ kind' = kind
          /\ cancelled' = cancelled
      BY <2>2 DEF ThinkGivesUp, config
    <3> QED BY <1>t, <2>1, <3>1 DEF Budget, BetweenThinks
  <2>c. CASE ThinkChecks
    <3>1. pc = "attempt" /\ pc' = "checked" /\ attempt' = attempt /\ kind' = kind
          /\ ~cancelled /\ cancelled' = cancelled
      BY <2>c DEF ThinkChecks, config
    <3> QED BY <1>t, <2>1, <3>1 DEF Budget, BetweenThinks
  <2>3. CASE ActGivesUp \/ Act \/ AskMember \/ StackFails \/ MemberReturns \/ Release \/ Decide
    <3>1. /\ kind = "act" /\ kind' = kind /\ pc # "thinking" /\ pc' # "thinking"
          /\ attempt' \in {attempt, attempt + 1} /\ cancelled' = cancelled /\ pc' # "checked"
          /\ pc' = "ok" => attempt' = attempt /\ attempt <= MaxAttempts
          /\ MaxAttempts' = MaxAttempts
      BY <1>t, <2>3 DEF ActGivesUp, Act, AskMember, StackFails, MemberReturns, Release, Decide,
         config, IInv, Callers, LastAnswer, MaxAttempts
    <3>2. thinker = "other" /\ schemas /\ stage = "rest" /\ requests = 0
      BY <3>1 DEF Budget
    <3>3. attempt' \in Nat /\ requests' = 0
      BY <1>t, <2>1, <3>1, <3>2
    <3>4. requests' <= attempt' + (IF BetweenThinks' THEN 0 ELSE 1)
      BY <3>3, ZeroIsLeast
    <3>5. pc' = "ok" => attempt' <= MaxAttempts'
      BY <3>1
    <3> QED BY <1>t, <2>1, <3>1, <3>2, <3>3, <3>4, <3>5 DEF Budget
  <2> QED BY <1>3, <2>2, <2>c, <2>3 DEF TurnActs, Attempting
<1> QED BY <1>1, <1>2, <1>3

LEMMA NextKeepsBudget == IInv /\ Budget /\ [TNext]_tvars => Budget'
<1> SUFFICES ASSUME IInv, Budget, [TNext]_tvars PROVE Budget'
  OBVIOUS
<1>1. CASE TurnThinks \/ TurnThinkReturns \/ TurnActs
  BY <1>1, AttemptsKeepBudget
<1>2. CASE BrainWorks(B!LocalStep) \/ BrainWorks(cancelled /\ B!RequestFails)
           \/ BrainWorks(B!ProviderStep) \/ BrainWorks(B!RequestFails)
  <2>1. pc = "thinking" /\ thinker = "brain" /\ UNCHANGED vars /\ UNCHANGED thinker
        /\ B!BrainStep
        /\ lateRequests' = lateRequests + (IF cancelled THEN requests' - requests ELSE 0)
    BY <1>2 DEF BrainWorks, Attempting, turnVars, B!BrainStep
  <2> QED BY <2>1, BrainKeepsBudget
<1>3. CASE UNCHANGED tvars \/ AskMembrane \/ GateRuled \/ DraftRuled \/ Thought \/ ToolWaits
           \/ Feedback \/ Environment
  <2>1. /\ UNCHANGED <<requests, lateRequests, schemas, decision, stage, thinker, attempt, pc, kind, retries>>
        /\ cancelled => cancelled'
    BY <1>3 DEF tvars, AskMembrane, GateRuled, DraftRuled, Thought, ToolWaits, Feedback, Environment,
       Cancel, TimerFires, vars, config, brainVars, brainConfig, turnVars
  <2> QED BY <2>1 DEF Budget, MaxAttempts, BetweenThinks
<1> QED BY <1>1, <1>2, <1>3 DEF TNext, TStep

LEMMA BudgetInitially == TInit => Budget
BY AttemptsAssumption DEF TInit, Init, B!BrainInit, Budget, B!Failed

(* For every number of retries the provider is asked at most once per       *)
(* attempt, never in a round whose tools do not render, and at most once    *)
(* after the caller cancelled.                                              *)
THEOREM RequestsBounded == TSpec => []RequestBudget
<1>1. IInv /\ Budget => RequestBudget
  <2> SUFFICES ASSUME IInv, Budget PROVE RequestBudget
    OBVIOUS
  <2>1. /\ attempt \in 0 .. MaxAttempts + 1 /\ MaxAttempts \in Nat /\ requests \in Nat
        /\ ~BetweenThinks => attempt <= MaxAttempts
    BY BoundIsNat DEF IInv, TypeOK, LastAnswer, Budget, BetweenThinks
  <2>2. requests <= attempt + (IF BetweenThinks THEN 0 ELSE 1)
    BY DEF Budget
  <2>3. requests <= MaxAttempts + 1
    BY <2>1, <2>2
  <2> QED BY <2>2, <2>3 DEF Budget, RequestBudget
<1>2. TSpec => []IInv
  BY TurnImplementsAttempts, AttemptsInvariant, PTL
<1> QED BY <1>1, <1>2, BudgetInitially, NextKeepsBudget, PTL DEF TSpec

-----------------------------------------------------------------------------
(* Truncation.  Where the limit falls, and the rune that starts there.      *)

(* A set of numbers up to a bound has a last one: its distance to the bound *)
(* is the least.                                                            *)
LEMMA LastStart ==
    ASSUME NEW n \in Nat, NEW A \in SUBSET (1 .. n), A # {}
    PROVE  \E k \in A : \A j \in A : j <= k
<1> DEFINE T == {d \in Nat : n - d \in A}
           R == OpToRel(<, Nat)
<1>1. T \subseteq Nat /\ T # {}
  <2>1. PICK k \in A : TRUE
    OBVIOUS
  <2>2. n - k \in Nat /\ n - (n - k) = k
    BY <2>1
  <2> QED BY <2>1, <2>2
<1>2. IsWellFoundedOn(R, Nat)
  BY NatLessThanWellFounded
<1>3. PICK d \in T : \A e \in T : ~(<<e, d>> \in R)
  <2> HIDE DEF R, T
  <2> QED BY <1>1, <1>2, WFMin
<1>4. \A e \in T : ~(e < d)
  BY <1>3 DEF OpToRel
<1>5. ASSUME NEW j \in A
      PROVE  j <= n - d
  <2>1. n - j \in T
    <3>1. n - j \in Nat /\ n - (n - j) = j
      OBVIOUS
    <3> QED BY <3>1
  <2>2. ~(n - j < d) /\ d \in Nat /\ j \in Nat
    BY <1>4, <2>1
  <2> QED BY <2>2
<1>6. n - d \in A
  BY <1>3
<1> QED BY <1>5, <1>6

(* The cut keeps something, and less than there was. *)
LEMMA CutInside ==
    ASSUME NEW s \in Seq(0 .. 4), NEW limit \in Nat \ {0}, Len(s) > limit
    PROVE  TruncAt(s, limit) \in 1 .. Len(s)
<1> DEFINE starts == {i \in 1 .. limit : RuneStart(s, i)}
<1>1. Len(s) \in Nat
  BY LenProperties
<1>2. CASE starts = {}
  <2>1. FirstRune(s) \in 1 .. Len(s)
    BY <1>1 DEF FirstRune, WellEncoded
  <2> QED BY <1>2, <2>1 DEF TruncAt
<1>3. CASE starts # {}
  <2>1. PICK k \in starts : \A j \in starts : j <= k
    BY <1>3, LastStart
  <2>2. TruncAt(s, limit) = CHOOSE i \in starts : \A j \in starts : j <= i
    BY <1>3 DEF TruncAt
  <2>3. TruncAt(s, limit) \in starts
    BY <2>1, <2>2
  <2> QED BY <1>1, <2>3
<1> QED BY <1>2, <1>3

(* With a rune starting at or before the limit, the cut is at the last of   *)
(* those starts.                                                            *)
LEMMA CutAtStart ==
    ASSUME NEW s, NEW limit \in Nat, NEW k \in 1 .. limit, RuneStart(s, k)
    PROVE  LET n == TruncAt(s, limit)
           IN  /\ n \in 1 .. limit /\ s[n + 1] # 0
               /\ \A j \in 1 .. limit : j > n => s[j + 1] = 0
<1> DEFINE starts == {i \in 1 .. limit : RuneStart(s, i)}
<1>1. starts # {}
  OBVIOUS
<1>2. PICK m \in starts : \A j \in starts : j <= m
  BY <1>1, LastStart
<1>3. TruncAt(s, limit) = CHOOSE i \in starts : \A j \in starts : j <= i
  BY <1>1 DEF TruncAt
<1>4. TruncAt(s, limit) \in starts /\ \A j \in starts : j <= TruncAt(s, limit)
  BY <1>2, <1>3
<1> DEFINE n == TruncAt(s, limit)
<1>5. n \in 1 .. limit /\ s[n + 1] # 0
  BY <1>4 DEF RuneStart
<1>6. \A j \in 1 .. limit : j > n => s[j + 1] = 0
  BY <1>4, <1>5 DEF RuneStart
<1> QED BY <1>5, <1>6

(* A text whose first rune reaches beyond the limit is cut behind it. *)
LEMMA CutBehindFirst ==
    ASSUME NEW s \in Seq(0 .. 4), NEW limit \in Nat \ {0}, Len(s) > limit, WellFormed(s),
           \A i \in 1 .. limit : s[i + 1] = 0
    PROVE  /\ TruncAt(s, limit) = s[1] /\ s[1] \in 1 .. Len(s) /\ s[1] > limit
           /\ \A i \in 2 .. s[1] : s[i] = 0
<1>1. /\ Len(s) \in Nat /\ DOMAIN s = 1 .. Len(s) /\ \A i \in 1 .. Len(s) : s[i] \in 0 .. 4
  BY LenProperties
<1>2. s[1] # 0
  BY <1>1 DEF WellFormed
<1>3. \A k \in 1 .. s[1] - 1 : 1 + k \in 1 .. Len(s) /\ s[1 + k] = 0
  BY <1>1, <1>2 DEF WellFormed
<1>4. s[1] \in 1 .. Len(s)
  <2>1. CASE s[1] = 1
    BY <1>1, <2>1
  <2>2. CASE s[1] # 1
    <3>1. s[1] - 1 \in 1 .. s[1] - 1
      BY <1>1, <1>2, <2>2
    <3> QED BY <1>1, <1>3, <3>1
  <2> QED BY <2>1, <2>2
<1>5. \A i \in 2 .. s[1] : s[i] = 0
  <2> TAKE i \in 2 .. s[1]
  <2>1. i - 1 \in 1 .. s[1] - 1 /\ 1 + (i - 1) = i
    BY <1>4
  <2> QED BY <1>3, <2>1
<1>6. s[1] > limit
  <2>1. limit + 1 \in 1 .. Len(s) /\ s[limit + 1] = 0
    BY <1>1
  <2>2. PICK j \in 1 .. (limit + 1) - 1 : s[j] > (limit + 1) - j
    BY <1>1, <2>1 DEF WellFormed
  <2>3. j = 1
    <3>1. j # 1 => j - 1 \in 1 .. limit /\ (j - 1) + 1 = j
      OBVIOUS
    <3>2. j # 1 => s[j] = 0
      BY <3>1
    <3> QED BY <2>2, <3>2
  <2> QED BY <1>1, <2>2, <2>3
<1>7. TruncAt(s, limit) = FirstRune(s)
  <2>1. {i \in 1 .. limit : RuneStart(s, i)} = {}
    BY DEF RuneStart
  <2> QED BY <2>1 DEF TruncAt
<1>8. FirstRune(s) = s[1]
  BY <1>4, <1>5 DEF FirstRune, WellEncoded
<1> QED BY <1>4, <1>5, <1>6, <1>7, <1>8

(* A well-formed text cut at a rune's start, or at its end, is well formed. *)
LEMMA PrefixWellFormed ==
    ASSUME NEW s \in Seq(0 .. 4), NEW n \in 1 .. Len(s), WellFormed(s),
           n < Len(s) => s[n + 1] # 0 \/ n = s[1]
    PROVE  WellFormed(SubSeq(s, 1, n))
<1> DEFINE t == SubSeq(s, 1, n)
<1>1. /\ Len(s) \in Nat /\ DOMAIN s = 1 .. Len(s) /\ \A i \in 1 .. Len(s) : s[i] \in 0 .. 4
  BY LenProperties
<1>2. t \in Seq(0 .. 4) /\ Len(t) = n /\ \A i \in 1 .. n : t[i] = s[i]
  BY <1>1, SubSeqProperties
<1>3. DOMAIN t = 1 .. n
  BY <1>2, LenProperties
<1> HIDE DEF t
<1>4. ASSUME NEW i \in 1 .. n, s[i] = 0
      PROVE  \E j \in 1 .. i - 1 : t[j] > i - j
  <2>1. PICK j \in 1 .. i - 1 : s[j] > i - j
    BY <1>1, <1>4 DEF WellFormed
  <2>2. j \in 1 .. n
    BY <1>1
  <2>3. t[j] > i - j
    BY <1>2, <2>1, <2>2
  <2> QED BY <2>3
<1>5. ASSUME NEW i \in 1 .. n, s[i] # 0, NEW k \in 1 .. s[i] - 1
      PROVE  i + k \in 1 .. n /\ t[i + k] = 0
  <2>0. i \in DOMAIN s
    BY <1>1
  <2>1. \A m \in 1 .. s[i] - 1 : i + m \in DOMAIN s /\ s[i + m] = 0
    BY <1>5, <2>0 DEF WellFormed
  <2>2. i + k <= n
    <3> SUFFICES ASSUME i + k > n PROVE FALSE
      BY <1>1
    <3>1. (n + 1) - i \in 1 .. k /\ i + ((n + 1) - i) = n + 1 /\ k \in Nat /\ s[i] \in Nat
      BY <1>1
    <3>2. (n + 1) - i \in 1 .. s[i] - 1
      BY <3>1
    <3>3. n + 1 \in 1 .. Len(s) /\ s[n + 1] = 0
      BY <1>1, <2>1, <3>1, <3>2
    <3>4. n = s[1]
      BY <1>1, <3>3
    <3>5. i # 1
      BY <1>1, <3>1, <3>2, <3>4
    <3>6. i - 1 \in 1 .. s[1] - 1 /\ 1 + (i - 1) = i
      BY <1>1, <3>4, <3>5
    <3>7. 1 \in DOMAIN s /\ s[1] # 0
      BY <1>1, <3>4
    <3>8. s[i] = 0
      BY <3>6, <3>7 DEF WellFormed
    <3> QED BY <1>5, <3>8
  <2>3. i + k \in 1 .. n
    BY <1>1, <2>2
  <2> QED BY <1>2, <2>1, <2>3
<1>6. WellFormed(t)
  BY <1>2, <1>3, <1>4, <1>5 DEF WellFormed
<1> QED BY <1>6 DEF t

(* The cut takes as many whole runes as the limit does: the next one would  *)
(* not fit.                                                                 *)
LEMMA NextRuneTooLong ==
    ASSUME NEW s \in Seq(0 .. 4), NEW limit \in Nat, limit < Len(s), WellFormed(s),
           NEW n \in 1 .. limit, s[n + 1] # 0,
           \A j \in 1 .. limit : j > n => s[j + 1] = 0
    PROVE  n + s[n + 1] > limit
<1>1. /\ Len(s) \in Nat /\ DOMAIN s = 1 .. Len(s) /\ \A i \in 1 .. Len(s) : s[i] \in 0 .. 4
  BY LenProperties
<1> DEFINE p == n + 1
           q == p + s[p]
<1>2. p \in 1 .. Len(s) /\ s[p] \in 1 .. 4
  BY <1>1
<1> SUFFICES ASSUME n + s[p] <= limit PROVE FALSE
  BY <1>1, <1>2
<1>3. q \in 1 .. Len(s) /\ q - 1 \in 1 .. limit /\ q - 1 > n /\ (q - 1) + 1 = q
  BY <1>1, <1>2
<1>4. s[q] = 0
  BY <1>3
<1>5. PICK j \in 1 .. q - 1 : s[j] > q - j
  BY <1>1, <1>3, <1>4 DEF WellFormed
<1>6. CASE j > p
  <2>1. j - 1 \in 1 .. limit /\ j - 1 > n /\ (j - 1) + 1 = j
    BY <1>2, <1>3, <1>6
  <2>2. s[j] = 0
    BY <2>1
  <2> QED BY <1>3, <1>5, <2>2
<1>7. CASE j = p
  BY <1>2, <1>5, <1>7
<1>8. CASE j < p
  <2>1. j \in 1 .. Len(s) /\ s[j] \in Nat /\ s[j] # 0
    BY <1>1, <1>2, <1>3, <1>5
  <2>2. p - j \in 1 .. s[j] - 1 /\ j + (p - j) = p
    BY <1>2, <1>5, <1>8, <2>1
  <2>3. s[p] = 0
    BY <1>1, <2>1, <2>2 DEF WellFormed
  <2> QED BY <1>2, <2>3
<1> QED BY <1>2, <1>3, <1>5, <1>6, <1>7, <1>8

(* What truncateText does to any text at any limit. *)
LEMMA Truncation ==
    ASSUME NEW s \in Seq(0 .. 4), s # << >>, NEW limit \in Int
    PROVE  LET t == truncateText(s, limit)
               kept == Len(t)
           IN  /\ t = SubSeq(s, 1, kept)
               /\ ~Cut(s, limit) => t = s
               /\ Cut(s, limit) =>
                     /\ limit > 0 /\ Len(s) > limit /\ kept > 0
                     /\ WellFormed(s) =>
                           /\ WellFormed(t)
                           /\ kept <= limit \/ kept = s[1]
                           /\ kept < Len(s) => kept + s[kept + 1] > limit
<1>1. /\ Len(s) \in Nat /\ \A i \in 1 .. Len(s) : s[i] \in 0 .. 4
  BY LenProperties
<1>2. CASE ~Cut(s, limit)
  <2>1. truncateText(s, limit) = s
    BY <1>2 DEF truncateText
  <2> QED BY <1>2, <2>1, SubSeqFull
<1>3. CASE Cut(s, limit)
  <2> DEFINE n == TruncAt(s, limit)
             t == SubSeq(s, 1, n)
  <2>1. limit \in Nat \ {0} /\ Len(s) > limit
    BY <1>3 DEF Cut
  <2>2. n \in 1 .. Len(s)
    BY <2>1, CutInside
  <2>3. t \in Seq(0 .. 4) /\ Len(t) = n
    <3> HIDE DEF n
    <3> QED BY <1>1, <2>2, SubSeqProperties
  <2>4. truncateText(s, limit) = t
    BY <1>3 DEF truncateText
  <2>5. ASSUME WellFormed(s)
        PROVE  /\ WellFormed(t)
               /\ n <= limit \/ n = s[1]
               /\ n < Len(s) => n + s[n + 1] > limit
    <3>1. CASE \A i \in 1 .. limit : s[i + 1] = 0
      <4>1. n = s[1] /\ n > limit
        BY <2>1, <2>5, <3>1, CutBehindFirst
      <4>2. WellFormed(t)
        <5> HIDE DEF n
        <5> QED BY <2>2, <2>5, <4>1, PrefixWellFormed
      <4>3. n < Len(s) => n + 1 \in 1 .. Len(s) /\ s[n + 1] \in 0 .. 4
        BY <1>1, <2>2
      <4> HIDE DEF n
      <4> QED BY <1>1, <2>1, <2>2, <4>1, <4>2, <4>3
    <3>2. CASE \E i \in 1 .. limit : s[i + 1] # 0
      <4>1. PICK k \in 1 .. limit : RuneStart(s, k)
        BY <3>2 DEF RuneStart
      <4>2. /\ n \in 1 .. limit /\ s[n + 1] # 0
            /\ \A j \in 1 .. limit : j > n => s[j + 1] = 0
        BY <2>1, <4>1, CutAtStart
      <4>3. WellFormed(t) /\ n + s[n + 1] > limit
        <5> HIDE DEF n
        <5> QED BY <2>1, <2>2, <2>5, <4>2, PrefixWellFormed, NextRuneTooLong
      <4> HIDE DEF n
      <4> QED BY <2>1, <4>2, <4>3
    <3> QED BY <3>1, <3>2
  <2> HIDE DEF n, t
  <2>6. t = SubSeq(s, 1, Len(t))
    BY <2>3 DEF t
  <2> QED BY <1>3, <2>1, <2>2, <2>3, <2>4, <2>5, <2>6
<1> QED BY <1>2, <1>3

(* What the structured track got is what a text of the tool came to. *)
FedFrom ==
    fed = Unfed \/ \E text \in Payloads, limit \in Limits :
        /\ fed.from = text /\ fed.limit = limit /\ fed.marked = Cut(text, limit)
        /\ fed.text = truncateText(text, limit)

LEMMA FedFromInitially == TInit => FedFrom
BY DEF TInit, FedFrom

LEMMA NextKeepsFedFrom == FedFrom /\ [TNext]_tvars => FedFrom'
<1> SUFFICES ASSUME FedFrom, [TNext]_tvars PROVE FedFrom'
  OBVIOUS
<1>1. CASE Feedback
  BY <1>1 DEF Feedback, FedFrom
<1>2. CASE ~Feedback
  <2>1. UNCHANGED fed
    BY <1>2 DEF TNext, TStep, tvars, AskMembrane, GateRuled, DraftRuled, Thought, ToolWaits,
       TurnThinks, TurnThinkReturns, TurnActs, BrainWorks, Attempting, Environment, turnVars
  <2> QED BY <2>1 DEF FedFrom
<1> QED BY <1>1, <1>2

(* For every text a tool can feed back and every MaxToolOutput: what gets   *)
(* through is a prefix, not empty, of whole runes, as many as the limit     *)
(* takes and at least the first.                                            *)
THEOREM TruncationSound == TSpec => []TruncationKeepsRunes
<1>1. FedFrom => TruncationKeepsRunes
  <2> SUFFICES ASSUME FedFrom PROVE TruncationKeepsRunes
    OBVIOUS
  <2>1. CASE fed = Unfed
    <3>1. fed.text = << >> /\ fed.from = << >> /\ fed.marked = FALSE
      BY <2>1 DEF Unfed
    <3>2. Len(<< >>) = 0 /\ SubSeq(<< >>, 1, 0) = << >>
      BY EmptySeq, SubSeqEmpty
    <3> QED BY <3>1, <3>2 DEF TruncationKeepsRunes
  <2>2. ASSUME NEW text \in Payloads, NEW limit \in Limits,
               /\ fed.from = text /\ fed.limit = limit /\ fed.marked = Cut(text, limit)
               /\ fed.text = truncateText(text, limit)
        PROVE  TruncationKeepsRunes
    <3>1. text \in Seq(0 .. 4) /\ text # << >> /\ limit \in Int
      BY PayloadsAssumption
    <3> QED BY <2>2, <3>1, Truncation DEF TruncationKeepsRunes
  <2> QED BY <2>1, <2>2 DEF FedFrom
<1> QED BY <1>1, FedFromInitially, NextKeepsFedFrom, PTL DEF TSpec

-----------------------------------------------------------------------------
(* The wire.  What a stream has brought is told by the number k of frames   *)
(* that have arrived: m pieces of the text first, then n calls, then the    *)
(* two that end it.                                                         *)
Script == IF mode = "chat" THEN B!writeSSE(reply) ELSE B!writeResponsesSSE(reply)

PieceCount(r) == IF r.text = << >> THEN 1 ELSE 2

Heard(r, k) ==
    IF k = 0 THEN << >>
    ELSE IF k = 1 THEN SubSeq(r.text, 1, Len(r.text) \div 2) ELSE r.text

CallsSeen(m, n, k) == IF k <= m THEN 0 ELSE IF k <= m + n THEN k - m ELSE n

Yes == TRUE
No  == FALSE

Sum(heard, calls, usage, choices) ==
    [text |-> heard, calls |-> calls, usage |-> usage, choices |-> choices]

Summed(heard, m, n, usage, k) ==
    Sum(heard, CallsSeen(m, n, k), IF k = m + n + 2 THEN usage ELSE No,
        IF k = 0 THEN No ELSE Yes)

Accumulated(r, k) == Summed(Heard(r, k), PieceCount(r), r.calls, r.usage, k)

Arrived(k) ==
    /\ frames = SubSeq(Script, k + 1, Len(Script))
    /\ deltas = IF sink THEN Heard(reply, k) ELSE << >>
    /\ mode = "chat" => acc = Accumulated(reply, k)
    /\ mode = "responses" =>
          /\ resp = IF k = Len(Script) THEN B!responsesBody(reply) ELSE NoReply
          /\ reply.streamError => k = 0

Wire ==
    /\ mode \in {"chat", "responses"} /\ stream \in BOOLEAN /\ sink \in BOOLEAN
    /\ stage \in {"rest", "called", "waiting", "streaming", "returned"}
    /\ reply \in Replies \cup {NoReply}
    /\ stage \in {"waiting", "streaming"} => reply \in Replies
    /\ stage = "waiting" => ~stream /\ deltas = << >>
    /\ stage = "streaming" => stream /\ \E k \in 0 .. Len(Script) : Arrived(k)
    /\ DecisionIsTheAnswer

Frames == [type : {"delta", "call", "finish", "usage", "terminal", "error"},
           text : Seq({"a", "b"})]

Piece(r, j) ==
    IF j = 1 THEN SubSeq(r.text, 1, Len(r.text) \div 2)
    ELSE SubSeq(r.text, (Len(r.text) \div 2) + 1, Len(r.text))

(* A text and where it is split. *)
LEMMA Halves ==
    ASSUME NEW S, NEW t \in Seq(S)
    PROVE  LET a == SubSeq(t, 1, Len(t) \div 2)
               b == SubSeq(t, (Len(t) \div 2) + 1, Len(t))
           IN  /\ a \in Seq(S) /\ b \in Seq(S) /\ a \o b = t /\ << >> \o a = a
               /\ t = << >> => a = << >>
               /\ Len(a) \in 0 .. Len(t) /\ a = SubSeq(t, 1, Len(a))
<1>1. Len(t) \in Nat /\ \A i \in 1 .. Len(t) : t[i] \in S
  BY LenProperties
<1>2. \A m \in Nat : m \div 2 \in 0 .. m
  OBVIOUS
<1>3. PICK n \in Nat : n = Len(t)
  BY <1>1
<1>4. PICK h \in 0 .. n : h = n \div 2
  BY <1>2
<1>5. SubSeq(t, 1, h) \in Seq(S) /\ Len(SubSeq(t, 1, h)) = h
  BY <1>1, <1>3, SubSeqProperties
<1>6. SubSeq(t, h + 1, n) \in Seq(S)
  BY <1>1, <1>3, SubSeqProperties
<1>7. SubSeq(t, 1, h) \o SubSeq(t, h + 1, n) = t
  <2>1. 1 \in 1 .. Len(t) + 1 /\ h \in 1 - 1 .. Len(t) /\ n \in h .. Len(t)
    BY <1>3
  <2>2. SubSeq(t, 1, h) \o SubSeq(t, h + 1, n) = SubSeq(t, 1, n)
    BY <2>1, ConcatAdjacentSubSeq
  <2>3. SubSeq(t, 1, n) = t
    BY <1>3, SubSeqFull
  <2> QED BY <2>2, <2>3
<1>8. << >> \o SubSeq(t, 1, h) = SubSeq(t, 1, h)
  BY <1>5, ConcatEmptySeq
<1>9. t = << >> => SubSeq(t, 1, h) = << >>
  BY <1>3, <1>5, EmptySeq
<1> QED BY <1>3, <1>4, <1>5, <1>6, <1>7, <1>8, <1>9

LEMMA PieceTypes ==
    ASSUME NEW r \in B!Reply
    PROVE  /\ r.text \in Seq({"a", "b"}) /\ r.calls \in Nat
           /\ PieceCount(r) \in {1, 2} /\ (PieceCount(r) = 1 <=> r.text = << >>)
           /\ Piece(r, 1) \in Seq({"a", "b"}) /\ Piece(r, 2) \in Seq({"a", "b"})
           /\ r.text = << >> => Piece(r, 1) = << >>
<1>1. r.text \in Seq({"a", "b"}) /\ r.calls \in Nat
  BY DEF B!Reply
<1>2. /\ Piece(r, 1) = SubSeq(r.text, 1, Len(r.text) \div 2)
      /\ Piece(r, 2) = SubSeq(r.text, (Len(r.text) \div 2) + 1, Len(r.text))
  BY DEF Piece
<1>3. /\ Piece(r, 1) \in Seq({"a", "b"}) /\ Piece(r, 2) \in Seq({"a", "b"})
      /\ r.text = << >> => Piece(r, 1) = << >>
  BY <1>1, <1>2, Halves
<1> QED BY <1>1, <1>3 DEF PieceCount

(* Every piece adds to what was heard, until all of it was. *)
LEMMA HeardMore ==
    ASSUME NEW r \in B!Reply
    PROVE  /\ Heard(r, 1) = Heard(r, 0) \o Piece(r, 1)
           /\ Heard(r, 2) = Heard(r, 1) \o Piece(r, 2)
           /\ r.text = << >> => Heard(r, 1) = Heard(r, 2)
           /\ \A k \in Nat : k >= 2 => Heard(r, k) = r.text
<1>1. r.text \in Seq({"a", "b"})
  BY PieceTypes
<1>2. /\ Piece(r, 1) = SubSeq(r.text, 1, Len(r.text) \div 2)
      /\ Piece(r, 2) = SubSeq(r.text, (Len(r.text) \div 2) + 1, Len(r.text))
  BY DEF Piece
<1>3. Heard(r, 0) = << >> /\ Heard(r, 1) = Piece(r, 1) /\ Heard(r, 2) = r.text
  <2>1. Heard(r, 0) = << >>
    BY DEF Heard
  <2>2. Heard(r, 1) = SubSeq(r.text, 1, Len(r.text) \div 2)
    BY DEF Heard
  <2>3. Heard(r, 2) = r.text
    BY DEF Heard
  <2> QED BY <1>2, <2>1, <2>2, <2>3
<1>4. /\ Piece(r, 1) \o Piece(r, 2) = r.text /\ << >> \o Piece(r, 1) = Piece(r, 1)
      /\ r.text = << >> => Piece(r, 1) = << >>
  BY <1>1, <1>2, Halves
<1>5. ASSUME NEW k \in Nat, k >= 2 PROVE Heard(r, k) = r.text
  <2>1. k # 0 /\ k # 1
    BY <1>5
  <2> QED BY <2>1, Zenon DEF Heard
<1> QED BY <1>3, <1>4, <1>5

(* What a provider streams over the chat wire. *)
LEMMA PiecesSent ==
    ASSUME NEW r \in B!Reply
    PROVE  LET p == IF r.text = << >> THEN <<B!Delta(<< >>)>> ELSE B!Pieces(r.text)
           IN  /\ p \in Seq(Frames) /\ Len(p) = PieceCount(r)
               /\ \A j \in 1 .. PieceCount(r) : p[j] = B!Delta(Piece(r, j))
<1>1. B!Delta(Piece(r, 1)) \in Frames /\ B!Delta(Piece(r, 2)) \in Frames
  BY PieceTypes DEF B!Delta, Frames
<1>2. CASE r.text = << >>
  <2>1. B!Delta(<< >>) = B!Delta(Piece(r, 1))
    BY <1>2, PieceTypes
  <2> QED BY <1>1, <1>2, <2>1 DEF PieceCount
<1>3. CASE r.text # << >>
  <2>1. B!Pieces(r.text) = <<B!Delta(Piece(r, 1)), B!Delta(Piece(r, 2))>>
    BY DEF B!Pieces, Piece
  <2> QED BY <1>1, <1>3, <2>1 DEF PieceCount
<1> QED BY <1>2, <1>3

ChatFrame(r, m, n, j) ==
    IF j <= m THEN B!Delta(Piece(r, j))
    ELSE IF j <= m + n THEN B!Plain("call")
    ELSE IF j = m + n + 1 THEN B!Plain("finish") ELSE B!Plain("usage")

ChatFramed(s, r, m, n) ==
    /\ s \in Seq(Frames) /\ Len(s) = m + n + 2
    /\ \A j \in 1 .. m + n + 2 : s[j] = ChatFrame(r, m, n, j)

LEMMA ChatFrames ==
    ASSUME NEW r, NEW m \in Nat, NEW n \in Nat,
           NEW p \in Seq(Frames), NEW c \in Seq(Frames), NEW e \in Seq(Frames),
           Len(p) = m, \A j \in 1 .. m : p[j] = B!Delta(Piece(r, j)),
           Len(c) = n, \A j \in 1 .. n : c[j] = B!Plain("call"),
           Len(e) = 2, e[1] = B!Plain("finish"), e[2] = B!Plain("usage")
    PROVE  ChatFramed(p \o c \o e, r, m, n)
<1>1. /\ p \o c \in Seq(Frames) /\ Len(p \o c) = m + n
      /\ \A i \in 1 .. m + n : (p \o c)[i] = IF i <= m THEN p[i] ELSE c[i - m]
  BY ConcatProperties
<1>2. PICK q \in Seq(Frames) : q = p \o c
  BY <1>1
<1>3. PICK l \in Nat : l = m + n
  OBVIOUS
<1>4. Len(q) = l /\ \A i \in 1 .. l : q[i] = IF i <= m THEN p[i] ELSE c[i - m]
  BY <1>1, <1>2, <1>3
<1>5. /\ q \o e \in Seq(Frames) /\ Len(q \o e) = Len(q) + Len(e)
      /\ \A i \in 1 .. Len(q) + Len(e) :
            (q \o e)[i] = IF i <= Len(q) THEN q[i] ELSE e[i - Len(q)]
  BY ConcatProperties
<1>6. PICK s \in Seq(Frames) : s = q \o e
  BY <1>5
<1>7. Len(s) = l + 2 /\ \A i \in 1 .. l + 2 : s[i] = IF i <= l THEN q[i] ELSE e[i - l]
  BY <1>4, <1>5, <1>6
<1>8. ASSUME NEW j \in 1 .. l + 2
      PROVE  s[j] = ChatFrame(r, m, n, j)
  <2>1. CASE j <= m
    <3>1. s[j] = p[j] /\ j \in 1 .. m
      BY <1>3, <1>4, <1>7, <2>1
    <3> QED BY <2>1, <3>1 DEF ChatFrame
  <2>2. CASE j > m /\ j <= l
    <3>1. s[j] = c[j - m] /\ j - m \in 1 .. n /\ ~(j <= m)
      BY <1>3, <1>4, <1>7, <2>2
    <3>2. s[j] = B!Plain("call")
      BY <3>1
    <3> QED BY <1>3, <2>2, <3>1, <3>2 DEF ChatFrame
  <2>3. CASE j = l + 1
    <3>1. j - l = 1 /\ ~(j <= m) /\ ~(j <= l)
      BY <1>3, <2>3
    <3>2. s[j] = e[1]
      BY <1>7, <3>1
    <3> QED BY <1>3, <2>3, <3>1, <3>2 DEF ChatFrame
  <2>4. CASE j = l + 2
    <3>1. j - l = 2 /\ ~(j <= m) /\ ~(j <= l) /\ j # l + 1
      BY <1>3, <2>4
    <3>2. s[j] = e[2]
      BY <1>7, <3>1
    <3> QED BY <1>3, <2>4, <3>1, <3>2 DEF ChatFrame
  <2> QED BY <1>3, <2>1, <2>2, <2>3, <2>4
<1>9. s = p \o c \o e /\ m + n + 2 = l + 2
  BY <1>2, <1>3, <1>6
<1> QED BY <1>7, <1>8, <1>9 DEF ChatFramed

LEMMA ChatScript ==
    ASSUME NEW r \in B!Reply, NEW m, NEW n, m = PieceCount(r), n = r.calls
    PROVE  /\ m \in {1, 2} /\ n \in Nat
           /\ ChatFramed(B!writeSSE(r), r, m, n)
<1> DEFINE p == IF r.text = << >> THEN <<B!Delta(<< >>)>> ELSE B!Pieces(r.text)
           c == [i \in 1 .. n |-> B!Plain("call")]
           e == <<B!Plain("finish"), B!Plain("usage")>>
<1>1. p \in Seq(Frames) /\ Len(p) = m /\ \A j \in 1 .. m : p[j] = B!Delta(Piece(r, j))
  BY PiecesSent
<1>2. m \in {1, 2} /\ n \in Nat
  BY PieceTypes
<1>3. \A t \in {"call", "finish", "usage"} : B!Plain(t) \in Frames
  BY EmptySeq DEF B!Plain, Frames
<1>4. c \in Seq(Frames) /\ Len(c) = n /\ \A i \in 1 .. n : c[i] = B!Plain("call")
  BY <1>2, <1>3
<1>5. e \in Seq(Frames) /\ Len(e) = 2 /\ e[1] = B!Plain("finish") /\ e[2] = B!Plain("usage")
  BY <1>3
<1>6. B!writeSSE(r) = p \o c \o e
  BY DEF B!writeSSE
<1>7. m \in Nat
  BY <1>2
<1> HIDE DEF p, c, e
<1>8. ChatFramed(p \o c \o e, r, m, n)
  BY <1>1, <1>2, <1>4, <1>5, <1>7, ChatFrames
<1> QED BY <1>2, <1>6, <1>8

(* The accumulator takes the next frame. *)
LEMMA PieceAdded ==
    ASSUME NEW h, NEW n, NEW u, NEW b, NEW p, NEW v
    PROVE  B!AddChunk(Sum(h, n, u, b), B!Delta(p), v) = Sum(h \o p, n, u, Yes)
BY DEF Yes, Sum, B!AddChunk, B!Delta

LEMMA ChunkAdded ==
    ASSUME NEW h, NEW n, NEW u, NEW b, NEW v
    PROVE  /\ B!AddChunk(Sum(h, n, u, b), B!Plain("call"), v) = Sum(h, n + 1, u, Yes)
           /\ B!AddChunk(Sum(h, n, u, b), B!Plain("finish"), v) = Sum(h, n, u, Yes)
           /\ B!AddChunk(Sum(h, n, u, b), B!Plain("usage"), v) = Sum(h, n, v, b)
BY DEF Yes, Sum, B!AddChunk, B!Plain

(* What was heard by the frame l, from what was heard before it. *)
HeardOn(g, h, r, m, l) ==
    /\ l <= m => g = h \o Piece(r, l)
    /\ l > m => g = h

(* The frame l is added to the sum of the k before it. *)
AddsUp(r, m, n, k, l, h, g, u) ==
    B!AddChunk(Summed(h, m, n, u, k), ChatFrame(r, m, n, l), u) = Summed(g, m, n, u, l)

LEMMA SummedMore ==
    ASSUME NEW r, NEW m \in {1, 2}, NEW n \in Nat, NEW k \in 0 .. m + n + 1,
           NEW l \in Nat, l - k = 1, NEW h, NEW g, NEW u, HeardOn(g, h, r, m, l)
    PROVE  AddsUp(r, m, n, k, l, h, g, u)
<1>1. CASE l <= m
  <2>1. ChatFrame(r, m, n, l) = B!Delta(Piece(r, l))
    BY <1>1 DEF ChatFrame
  <2>2. k <= m /\ k # m + n + 2 /\ l # m + n + 2 /\ l # 0
    BY <1>1
  <2>3. /\ Summed(h, m, n, u, k) = Sum(h, 0, No, IF k = 0 THEN No ELSE Yes)
        /\ Summed(g, m, n, u, l) = Sum(g, 0, No, Yes)
    BY <1>1, <2>2 DEF Summed, CallsSeen
  <2>4. g = h \o Piece(r, l)
    BY <1>1 DEF HeardOn
  <2> QED BY <2>1, <2>3, <2>4, PieceAdded DEF AddsUp
<1>2. CASE l > m /\ l <= m + n
  <2>1. ChatFrame(r, m, n, l) = B!Plain("call")
    BY <1>2 DEF ChatFrame
  <2>2. /\ k # m + n + 2 /\ l # m + n + 2 /\ l # 0 /\ k # 0
        /\ CallsSeen(m, n, k) = k - m /\ CallsSeen(m, n, l) = (k - m) + 1
    BY <1>2 DEF CallsSeen
  <2>3. /\ Summed(h, m, n, u, k) = Sum(h, k - m, No, Yes)
        /\ Summed(g, m, n, u, l) = Sum(g, (k - m) + 1, No, Yes)
    BY <2>2 DEF Summed
  <2>4. g = h
    BY <1>2 DEF HeardOn
  <2> QED BY <2>1, <2>3, <2>4, ChunkAdded DEF AddsUp
<1>3. CASE l = m + n + 1
  <2>1. ChatFrame(r, m, n, l) = B!Plain("finish")
    BY <1>3 DEF ChatFrame
  <2>2. /\ k # m + n + 2 /\ l # m + n + 2 /\ l # 0 /\ k # 0 /\ l > m
        /\ CallsSeen(m, n, k) = n /\ CallsSeen(m, n, l) = n
    BY <1>3 DEF CallsSeen
  <2>3. /\ Summed(h, m, n, u, k) = Sum(h, n, No, Yes)
        /\ Summed(g, m, n, u, l) = Sum(g, n, No, Yes)
    BY <2>2 DEF Summed
  <2>4. g = h
    BY <2>2 DEF HeardOn
  <2> QED BY <2>1, <2>3, <2>4, ChunkAdded DEF AddsUp
<1>4. CASE l = m + n + 2
  <2>1. ChatFrame(r, m, n, l) = B!Plain("usage")
    BY <1>4 DEF ChatFrame
  <2>2. /\ k # m + n + 2 /\ l # 0 /\ k # 0 /\ l > m
        /\ CallsSeen(m, n, k) = n /\ CallsSeen(m, n, l) = n
    BY <1>4 DEF CallsSeen
  <2>3. /\ Summed(h, m, n, u, k) = Sum(h, n, No, Yes)
        /\ Summed(g, m, n, u, l) = Sum(g, n, u, Yes)
    BY <1>4, <2>2 DEF Summed
  <2>4. g = h
    BY <2>2 DEF HeardOn
  <2> QED BY <2>1, <2>3, <2>4, ChunkAdded DEF AddsUp
<1> QED BY <1>1, <1>2, <1>3, <1>4

(* The frames of the text and of the calls. *)
Sized(r, m, n) == m = PieceCount(r) /\ n = r.calls

LEMMA HeardNext ==
    ASSUME NEW r \in B!Reply, NEW m \in {1, 2}, m = PieceCount(r),
           NEW k \in Nat, NEW l \in Nat, l - k = 1
    PROVE  HeardOn(Heard(r, l), Heard(r, k), r, m, l)
<1>1. m = 1 <=> r.text = << >>
  BY PieceTypes
<1>2. CASE l <= m
  <2>1. (k = 0 /\ l = 1) \/ (k = 1 /\ l = 2)
    BY <1>2
  <2>2. Heard(r, l) = Heard(r, k) \o Piece(r, l)
    BY <2>1, HeardMore
  <2> QED BY <1>2, <2>2 DEF HeardOn
<1>3. CASE l > m
  <2>1. l >= 2 /\ (k >= 2 \/ (k = 1 /\ m = 1 /\ l = 2))
    BY <1>3
  <2>2. Heard(r, l) = Heard(r, k)
    <3>1. \A j \in Nat : j >= 2 => Heard(r, j) = r.text
      BY HeardMore
    <3>2. CASE k >= 2
      BY <2>1, <3>1, <3>2
    <3>3. CASE k = 1 /\ m = 1 /\ l = 2
      BY <1>1, <3>3, HeardMore
    <3> QED BY <2>1, <3>2, <3>3
  <2> QED BY <1>3, <2>2 DEF HeardOn
<1> QED BY <1>2, <1>3

(* The accumulator follows a chat stream. *)
Folds(r, m, n, k, l) ==
    B!AddChunk(Accumulated(r, k), ChatFrame(r, m, n, l), r.usage) = Accumulated(r, l)

LEMMA AccumulatedMore ==
    ASSUME NEW r \in B!Reply, NEW m \in {1, 2}, NEW n \in Nat, NEW k \in 0 .. m + n + 1,
           NEW l \in Nat, l - k = 1, Sized(r, m, n)
    PROVE  Folds(r, m, n, k, l)
<1>1. HeardOn(Heard(r, l), Heard(r, k), r, m, l)
  BY HeardNext DEF Sized
<1>2. AddsUp(r, m, n, k, l, Heard(r, k), Heard(r, l), r.usage)
  BY <1>1, SummedMore
<1> QED BY <1>2 DEF Accumulated, Sized, AddsUp, Folds

(* What the sink makes of a frame. *)
SinkAfter(heard, frame) == IF frame.type = "delta" THEN heard \o frame.text ELSE heard

LEMMA ChatHeard ==
    ASSUME NEW r \in B!Reply, NEW m \in {1, 2}, NEW n \in Nat, NEW k \in 0 .. m + n + 1,
           NEW l \in Nat, l - k = 1, Sized(r, m, n)
    PROVE  SinkAfter(Heard(r, k), ChatFrame(r, m, n, l)) = Heard(r, l)
<1>1. HeardOn(Heard(r, l), Heard(r, k), r, m, l)
  BY HeardNext DEF Sized
<1>2. CASE l <= m
  <2>1. ChatFrame(r, m, n, l) = B!Delta(Piece(r, l))
    BY <1>2 DEF ChatFrame
  <2> QED BY <1>1, <1>2, <2>1 DEF HeardOn, SinkAfter, B!Delta
<1>3. CASE l > m
  <2>1. ChatFrame(r, m, n, l).type # "delta"
    BY <1>3 DEF ChatFrame, B!Plain
  <2> QED BY <1>1, <1>3, <2>1 DEF HeardOn, SinkAfter
<1> QED BY <1>2, <1>3

(* What a provider streams over the Responses wire. *)
EventCount(r) == IF r.streamError \/ r.text = << >> THEN 1 ELSE 3

EventFrame(r, j) ==
    IF r.streamError THEN B!Plain("error")
    ELSE IF r.text # << >> /\ j <= 2 THEN B!Delta(Piece(r, j)) ELSE B!Plain("terminal")

Evented(s, r) ==
    /\ s \in Seq(Frames) /\ Len(s) = EventCount(r)
    /\ \A j \in 1 .. EventCount(r) : s[j] = EventFrame(r, j)

Three(s, a, b, c) == s \in Seq(Frames) /\ Len(s) = 3 /\ s[1] = a /\ s[2] = b /\ s[3] = c

LEMMA ThreeFrames ==
    ASSUME NEW a \in Frames, NEW b \in Frames, NEW c \in Frames
    PROVE  Three(<<a, b>> \o <<c>>, a, b, c)
<1>1. <<a, b>> \in Seq(Frames) /\ <<c>> \in Seq(Frames)
  OBVIOUS
<1>2. /\ <<a, b>> \o <<c>> \in Seq(Frames) /\ Len(<<a, b>> \o <<c>>) = Len(<<a, b>>) + Len(<<c>>)
      /\ \A i \in 1 .. Len(<<a, b>>) + Len(<<c>>) :
            (<<a, b>> \o <<c>>)[i] = IF i <= Len(<<a, b>>) THEN <<a, b>>[i] ELSE <<c>>[i - Len(<<a, b>>)]
  BY <1>1, ConcatProperties
<1>3. Len(<<a, b>>) = 2 /\ Len(<<c>>) = 1
  OBVIOUS
<1> QED BY <1>2, <1>3 DEF Three

LEMMA EventScript ==
    ASSUME NEW r \in B!Reply
    PROVE  Evented(B!writeResponsesSSE(r), r)
<1>1. /\ B!Plain("error") \in Frames /\ B!Plain("terminal") \in Frames
      /\ B!Delta(Piece(r, 1)) \in Frames /\ B!Delta(Piece(r, 2)) \in Frames
  BY EmptySeq, PieceTypes DEF B!Plain, B!Delta, Frames
<1>2. CASE r.streamError
  <2>1. B!writeResponsesSSE(r) = <<B!Plain("error")>> /\ EventCount(r) = 1
    BY <1>2 DEF B!writeResponsesSSE, EventCount
  <2>2. EventFrame(r, 1) = B!Plain("error")
    BY <1>2 DEF EventFrame
  <2> QED BY <1>1, <2>1, <2>2 DEF Evented
<1>3. CASE ~r.streamError /\ r.text = << >>
  <2>1. B!writeResponsesSSE(r) = << >> \o <<B!Plain("terminal")>> /\ EventCount(r) = 1
    BY <1>3 DEF B!writeResponsesSSE, EventCount
  <2>2. EventFrame(r, 1) = B!Plain("terminal")
    BY <1>3 DEF EventFrame
  <2>3. << >> \o <<B!Plain("terminal")>> = <<B!Plain("terminal")>>
    BY <1>1, ConcatEmptySeq
  <2> QED BY <1>1, <2>1, <2>2, <2>3 DEF Evented
<1>4. CASE ~r.streamError /\ r.text # << >>
  <2>1. /\ B!writeResponsesSSE(r) =
               <<B!Delta(Piece(r, 1)), B!Delta(Piece(r, 2))>> \o <<B!Plain("terminal")>>
        /\ EventCount(r) = 3
    BY <1>4 DEF B!writeResponsesSSE, B!Pieces, Piece, EventCount
  <2>2. /\ EventFrame(r, 1) = B!Delta(Piece(r, 1)) /\ EventFrame(r, 2) = B!Delta(Piece(r, 2))
        /\ EventFrame(r, 3) = B!Plain("terminal")
    BY <1>4 DEF EventFrame
  <2>3. \A a, b, c \in Frames : Three(<<a, b>> \o <<c>>, a, b, c)
    BY ThreeFrames
  <2>4. Three(B!writeResponsesSSE(r), EventFrame(r, 1), EventFrame(r, 2), EventFrame(r, 3))
    BY <1>1, <2>1, <2>2, <2>3
  <2> QED BY <2>1, <2>4 DEF Evented, Three
<1> QED BY <1>2, <1>3, <1>4

LEMMA EventHeard ==
    ASSUME NEW r \in B!Reply, ~r.streamError, NEW k \in 0 .. EventCount(r) - 1,
           NEW l \in Nat, l - k = 1
    PROVE  SinkAfter(Heard(r, k), EventFrame(r, l)) = Heard(r, l)
<1>1. CASE r.text = << >>
  <2>1. k = 0 /\ l = 1 /\ EventFrame(r, l).type = "terminal"
    BY <1>1 DEF EventCount, EventFrame, B!Plain
  <2>2. Heard(r, 1) = r.text
    BY <1>1, HeardMore
  <2>3. Heard(r, 0) = << >>
    BY DEF Heard
  <2> QED BY <1>1, <2>1, <2>2, <2>3 DEF SinkAfter
<1>2. CASE r.text # << >>
  <2>1. PICK m \in {1, 2} : m = 2 /\ m = PieceCount(r)
    BY <1>2 DEF PieceCount
  <2>2. k \in Nat /\ l \in 1 .. 3
    BY <1>2 DEF EventCount
  <2>3. HeardOn(Heard(r, l), Heard(r, k), r, m, l)
    BY <2>1, <2>2, HeardNext
  <2>4. CASE l <= 2
    <3>1. EventFrame(r, l) = B!Delta(Piece(r, l))
      BY <1>2, <2>4 DEF EventFrame
    <3> QED BY <2>1, <2>3, <2>4, <3>1 DEF HeardOn, SinkAfter, B!Delta
  <2>5. CASE l = 3
    <3>1. EventFrame(r, l).type = "terminal"
      BY <1>2, <2>5 DEF EventFrame, B!Plain
    <3> QED BY <2>1, <2>3, <2>5, <3>1 DEF HeardOn, SinkAfter
  <2> QED BY <2>2, <2>4, <2>5
<1> QED BY <1>1, <1>2

(* The frames still to arrive. *)
LEMMA FrameArrives ==
    ASSUME NEW w \in Seq(Frames), NEW k \in 0 .. Len(w), NEW l \in Nat, l - k = 1,
           NEW f, f = SubSeq(w, l, Len(w))
    PROVE  /\ f = << >> <=> k = Len(w)
           /\ k < Len(w) => Head(f) = w[l] /\ Tail(f) = SubSeq(w, l + 1, Len(w))
<1>1. Len(w) \in Nat /\ \A i \in 1 .. Len(w) : w[i] \in Frames
  BY LenProperties
<1>2. CASE k = Len(w)
  BY <1>1, <1>2, SubSeqEmpty
<1>3. CASE k < Len(w)
  <2>1. l \in 1 .. Len(w) /\ Len(w) \in l .. Len(w)
    BY <1>1, <1>3
  <2>2. Head(f) = w[l] /\ Tail(f) = SubSeq(w, l + 1, Len(w))
    BY <2>1, HeadTailOfSubSeq
  <2>3. Len(f) = Len(w) - l + 1
    BY <1>1, <2>1, SubSeqProperties
  <2>4. Len(f) # 0
    BY <1>1, <2>1, <2>3
  <2>5. f # << >>
    BY <2>4, EmptySeq
  <2> QED BY <1>1, <1>3, <2>2, <2>5
<1> QED BY <1>1, <1>2, <1>3

(* The steps of a stream. *)
LEMMA WireFacts ==
    ASSUME Wire, stage \in {"waiting", "streaming"}
    PROVE  reply \in B!Reply /\ reply \in Replies /\ reply # NoReply
BY RepliesAssumption DEF Wire

LEMMA ChatArrival ==
    ASSUME reply \in B!Reply, mode = "chat", NEW k \in 0 .. Len(Script), Arrived(k)
    PROVE  \E m \in {1, 2}, n \in Nat :
              /\ Sized(reply, m, n) /\ k \in 0 .. m + n + 2 /\ Len(Script) = m + n + 2
              /\ (frames = << >> <=> k = m + n + 2)
              /\ \A l \in Nat : l - k = 1 /\ frames # << >> =>
                    /\ k \in 0 .. m + n + 1 /\ l \in 0 .. m + n + 2
                    /\ Head(frames) = ChatFrame(reply, m, n, l)
                    /\ Tail(frames) = SubSeq(Script, l + 1, Len(Script))
<1>1. PICK m \in {1, 2}, n \in Nat : Sized(reply, m, n) /\ ChatFramed(B!writeSSE(reply), reply, m, n)
  BY ChatScript DEF Sized
<1>2. PICK w \in Seq(Frames) : w = Script /\ ChatFramed(w, reply, m, n)
  BY <1>1 DEF Script, ChatFramed
<1>3. Len(w) = m + n + 2 /\ \A j \in 1 .. m + n + 2 : w[j] = ChatFrame(reply, m, n, j)
  BY <1>2 DEF ChatFramed
<1>4. PICK z \in Nat : z = m + n + 2
  OBVIOUS
<1>5. PICK l \in Nat : l = k + 1 /\ l - k = 1
  BY <1>2, <1>3
<1>6. frames = SubSeq(w, l, Len(w))
  BY <1>2, <1>5 DEF Arrived
<1>7. /\ frames = << >> <=> k = Len(w)
      /\ k < Len(w) => Head(frames) = w[l] /\ Tail(frames) = SubSeq(w, l + 1, Len(w))
  BY <1>2, <1>5, <1>6, FrameArrives
<1>8. k \in 0 .. z /\ Len(w) = z
  BY <1>2, <1>3, <1>4
<1>9. ASSUME frames # << >>
      PROVE  /\ k \in 0 .. m + n + 1 /\ l \in 0 .. m + n + 2
             /\ Head(frames) = ChatFrame(reply, m, n, l)
             /\ Tail(frames) = SubSeq(w, l + 1, Len(w))
  <2>1. k < z /\ l \in 1 .. m + n + 2
    BY <1>4, <1>5, <1>7, <1>8, <1>9
  <2>2. k \in 0 .. m + n + 1
    BY <1>4, <1>8, <2>1
  <2> QED BY <1>3, <1>7, <1>8, <2>1, <2>2
<1>10. \A j \in Nat : j - k = 1 => j = l
  BY <1>5, <1>8
<1> QED BY <1>1, <1>2, <1>3, <1>4, <1>7, <1>8, <1>9, <1>10

LEMMA HearNext ==
    ASSUME NEW h, NEW g, NEW f, B!Hear(f), deltas = IF sink THEN h ELSE << >>,
           SinkAfter(h, f) = g, sink \in BOOLEAN
    PROVE  deltas' = IF sink THEN g ELSE << >>
BY DEF B!Hear, SinkAfter

LEMMA ChunkKeepsWire == Wire /\ B!Chunk => Wire'
<1> SUFFICES ASSUME Wire, B!Chunk PROVE Wire'
  OBVIOUS
<1>1. /\ stage = "streaming" /\ mode = "chat" /\ frames # << >>
      /\ acc' = B!AddChunk(acc, Head(frames), reply.usage)
      /\ B!Hear(Head(frames)) /\ frames' = Tail(frames)
      /\ stage' = stage /\ mode' = mode /\ stream' = stream /\ sink' = sink /\ reply' = reply
  BY DEF B!Chunk, B!Receiving, B!brainConfig
<1>2. reply \in B!Reply /\ stream /\ sink \in BOOLEAN
  BY <1>1, WireFacts DEF Wire
<1>3. PICK k \in 0 .. Len(Script) : Arrived(k)
  BY <1>1 DEF Wire
<1>4. PICK m \in {1, 2}, n \in Nat :
              /\ Sized(reply, m, n) /\ k \in 0 .. m + n + 2 /\ Len(Script) = m + n + 2
              /\ \A l \in Nat : l - k = 1 =>
                    /\ k \in 0 .. m + n + 1 /\ l \in 0 .. m + n + 2
                    /\ Head(frames) = ChatFrame(reply, m, n, l)
                    /\ Tail(frames) = SubSeq(Script, l + 1, Len(Script))
  BY <1>1, <1>2, <1>3, ChatArrival
<1>5. PICK l \in Nat : l - k = 1
  <2>1. k \in Nat
    BY <1>4
  <2>2. k + 1 \in Nat /\ (k + 1) - k = 1
    BY <2>1
  <2> QED BY <2>2
<1>6. /\ k \in 0 .. m + n + 1 /\ l \in 0 .. Len(Script)
      /\ Head(frames) = ChatFrame(reply, m, n, l)
      /\ Tail(frames) = SubSeq(Script, l + 1, Len(Script))
  BY <1>4, <1>5
<1>7. acc' = Accumulated(reply, l)
  <2>1. Folds(reply, m, n, k, l)
    BY <1>2, <1>4, <1>5, <1>6, AccumulatedMore
  <2>2. acc = Accumulated(reply, k)
    BY <1>1, <1>3 DEF Arrived
  <2> QED BY <1>1, <1>6, <2>1, <2>2 DEF Folds
<1>8. deltas' = IF sink THEN Heard(reply, l) ELSE << >>
  <2>1. SinkAfter(Heard(reply, k), Head(frames)) = Heard(reply, l)
    BY <1>2, <1>4, <1>5, <1>6, ChatHeard
  <2>2. deltas = IF sink THEN Heard(reply, k) ELSE << >>
    BY <1>3 DEF Arrived
  <2> QED BY <1>1, <1>2, <2>1, <2>2, HearNext
<1>9. Script' = Script
  BY <1>1 DEF Script
<1>10. Arrived(l)'
  BY <1>1, <1>6, <1>7, <1>8, <1>9 DEF Arrived
<1>11. B!DecisionIsTheAnswer'
  BY <1>1 DEF B!DecisionIsTheAnswer
<1>12. \E j \in 0 .. Len(Script') : Arrived(j)'
  BY <1>6, <1>9, <1>10
<1> QED BY <1>1, <1>2, <1>11, <1>12 DEF Wire, DecisionIsTheAnswer

LEMMA EventArrival ==
    ASSUME reply \in B!Reply, mode = "responses", NEW k \in 0 .. Len(Script), Arrived(k)
    PROVE  /\ Len(Script) = EventCount(reply) /\ k \in Nat
           /\ \A l \in Nat : l - k = 1 /\ frames # << >> =>
                 /\ k \in 0 .. EventCount(reply) - 1 /\ l \in 0 .. Len(Script)
                 /\ Head(frames) = EventFrame(reply, l)
                 /\ Tail(frames) = SubSeq(Script, l + 1, Len(Script))
<1>1. PICK w \in Seq(Frames) : w = Script /\ Evented(w, reply)
  BY EventScript DEF Script, Evented
<1>2. PICK z \in Nat : z = EventCount(reply)
  BY DEF EventCount
<1>3. Len(w) = z /\ k \in 0 .. z /\ \A j \in 1 .. z : w[j] = EventFrame(reply, j)
  BY <1>1, <1>2 DEF Evented
<1>4. ASSUME NEW l \in Nat, l - k = 1, frames # << >>
      PROVE  /\ k \in 0 .. z - 1 /\ l \in 1 .. z
             /\ Head(frames) = EventFrame(reply, l)
             /\ Tail(frames) = SubSeq(w, l + 1, Len(w))
  <2>1. l = k + 1
    BY <1>3, <1>4
  <2>2. frames = SubSeq(w, l, Len(w))
    BY <1>1, <2>1 DEF Arrived
  <2>3. k < Len(w) /\ Head(frames) = w[l] /\ Tail(frames) = SubSeq(w, l + 1, Len(w))
    BY <1>1, <1>3, <1>4, <2>2, FrameArrives
  <2>4. k \in 0 .. z - 1 /\ l \in 1 .. z
    BY <1>3, <2>1, <2>3
  <2> QED BY <1>3, <2>3, <2>4
<1> QED BY <1>1, <1>2, <1>3, <1>4

LEMMA EventKeepsWire == Wire /\ B!ResponseEvent => Wire'
<1> SUFFICES ASSUME Wire, B!ResponseEvent PROVE Wire'
  OBVIOUS
<1>1. /\ stage = "streaming" /\ mode = "responses" /\ frames # << >>
      /\ Head(frames).type # "error"
      /\ B!Hear(Head(frames)) /\ frames' = Tail(frames)
      /\ resp' = (IF Head(frames).type = "terminal" THEN B!responsesBody(reply) ELSE resp)
      /\ stage' = stage /\ mode' = mode /\ stream' = stream /\ sink' = sink /\ reply' = reply
  BY DEF B!ResponseEvent, B!Receiving, B!brainConfig
<1>2. reply \in B!Reply /\ stream /\ sink \in BOOLEAN
  BY <1>1, WireFacts DEF Wire
<1>3. PICK k \in 0 .. Len(Script) : Arrived(k)
  BY <1>1 DEF Wire
<1>4. k \in Nat /\ Len(Script) = EventCount(reply)
  BY <1>1, <1>2, <1>3, EventArrival
<1>5. PICK l \in Nat : l - k = 1
  <2>1. k + 1 \in Nat /\ (k + 1) - k = 1
    BY <1>4
  <2> QED BY <2>1
<1>6. /\ k \in 0 .. EventCount(reply) - 1 /\ l \in 0 .. Len(Script)
      /\ Head(frames) = EventFrame(reply, l)
      /\ Tail(frames) = SubSeq(Script, l + 1, Len(Script))
  BY <1>1, <1>2, <1>3, <1>5, EventArrival
<1>7. ~reply.streamError
  BY <1>1, <1>6 DEF EventFrame, B!Plain
<1>8. resp' = (IF l = Len(Script) THEN B!responsesBody(reply) ELSE NoReply)
  <2>1. resp = NoReply
    BY <1>1, <1>3, <1>4, <1>6 DEF Arrived, EventCount
  <2>2. Head(frames).type = "terminal" <=> l = Len(Script)
    BY <1>4, <1>5, <1>6, <1>7 DEF EventCount, EventFrame, B!Plain, B!Delta
  <2> QED BY <1>1, <2>1, <2>2
<1>9. deltas' = IF sink THEN Heard(reply, l) ELSE << >>
  <2>1. SinkAfter(Heard(reply, k), Head(frames)) = Heard(reply, l)
    BY <1>2, <1>5, <1>6, <1>7, EventHeard
  <2>2. deltas = IF sink THEN Heard(reply, k) ELSE << >>
    BY <1>3 DEF Arrived
  <2> QED BY <1>1, <1>2, <2>1, <2>2, HearNext
<1>10. Script' = Script
  BY <1>1 DEF Script
<1>11. Arrived(l)'
  BY <1>1, <1>6, <1>7, <1>8, <1>9, <1>10 DEF Arrived
<1>12. B!DecisionIsTheAnswer'
  BY <1>1 DEF B!DecisionIsTheAnswer
<1>13. \E j \in 0 .. Len(Script') : Arrived(j)'
  BY <1>6, <1>10, <1>11
<1> QED BY <1>1, <1>2, <1>12, <1>13 DEF Wire, DecisionIsTheAnswer

LEMMA RequestKeepsWire == Wire /\ B!Request => Wire'
<1> SUFFICES ASSUME Wire, B!Request PROVE Wire'
  OBVIOUS
<1>1. /\ reply' \in Replies /\ reply' \in B!Reply
      /\ frames' = (IF mode = "chat" THEN B!writeSSE(reply') ELSE B!writeResponsesSSE(reply'))
      /\ acc' = B!Empty /\ resp' = NoReply /\ deltas' = << >>
      /\ stage' = (IF stream THEN "streaming" ELSE "waiting")
      /\ mode' = mode /\ stream' = stream /\ sink' = sink
      /\ mode \in {"chat", "responses"} /\ stream \in BOOLEAN /\ sink \in BOOLEAN
  BY RepliesAssumption DEF B!Request, B!brainConfig, Wire
<1>2. PICK m \in {1, 2}, n \in Nat :
         Sized(reply', m, n) /\ ChatFramed(B!writeSSE(reply'), reply', m, n)
  BY <1>1, ChatScript DEF Sized
<1>3. PICK w \in Seq(Frames) : w = Script' /\ frames' = w /\ Len(w) \in Nat \ {0}
  <2>1. CASE mode = "chat"
    <3>1. m + n + 2 \in Nat \ {0}
      OBVIOUS
    <3> QED BY <1>1, <1>2, <2>1, <3>1 DEF Script, ChatFramed
  <2>2. CASE mode = "responses"
    <3>1. Evented(B!writeResponsesSSE(reply'), reply')
      BY <1>1, EventScript
    <3> QED BY <1>1, <2>2, <3>1 DEF Script, Evented, EventCount
  <2> QED BY <1>1, <2>1, <2>2
<1>4. Heard(reply', 0) = << >>
  BY DEF Heard
<1>5. Accumulated(reply', 0) = B!Empty
  <2>1. 0 <= m /\ 0 # m + n + 2
    OBVIOUS
  <2>2. Summed(<< >>, m, n, reply'.usage, 0) = Sum(<< >>, 0, No, No)
    BY <2>1 DEF Summed, CallsSeen
  <2> QED BY <1>2, <1>4, <2>2 DEF Accumulated, Sized, Sum, No, B!Empty
<1>6. frames' = SubSeq(w, 1, Len(w))
  BY <1>3, SubSeqFull
<1>7. 0 # Len(w) /\ 0 + 1 = 1
  BY <1>3
<1>8. Arrived(0)'
  BY <1>1, <1>3, <1>4, <1>5, <1>6, <1>7 DEF Arrived
<1>9. 0 \in 0 .. Len(Script')
  BY <1>3
<1>10. \E j \in 0 .. Len(Script') : Arrived(j)'
  BY <1>8, <1>9
<1>11. B!DecisionIsTheAnswer'
  BY <1>1 DEF B!DecisionIsTheAnswer
<1> QED BY <1>1, <1>10, <1>11 DEF Wire, DecisionIsTheAnswer

(* What has arrived of a text is a beginning of it. *)
LEMMA HeardBegins ==
    ASSUME NEW r \in B!Reply, NEW k \in Nat
    PROVE  Heard(r, k) = SubSeq(r.text, 1, Len(Heard(r, k)))
<1>1. r.text \in Seq({"a", "b"})
  BY PieceTypes
<1>2. CASE k = 0
  <2>1. Heard(r, k) = << >> /\ Len(<< >>) = 0
    BY <1>2, EmptySeq DEF Heard
  <2>2. SubSeq(r.text, 1, 0) = << >>
    BY SubSeqEmpty
  <2> QED BY <2>1, <2>2
<1>3. CASE k = 1
  <2>1. Heard(r, k) = SubSeq(r.text, 1, Len(r.text) \div 2)
    BY <1>3 DEF Heard
  <2> QED BY <1>1, <2>1, Halves
<1>4. CASE k >= 2
  <2>1. Heard(r, k) = r.text
    BY <1>4, HeardMore
  <2> QED BY <1>1, <2>1, SubSeqFull
<1> QED BY <1>2, <1>3, <1>4

LEMMA FailureKeepsWire ==
    ASSUME Wire, B!Return(B!Failed), UNCHANGED deltas
    PROVE  Wire'
<1>1. /\ stage' = "returned" /\ decision' = B!Failed
      /\ mode' = mode /\ stream' = stream /\ sink' = sink /\ reply' = reply
  BY DEF B!Return, B!brainConfig
<1>2. B!DecisionIsTheAnswer'
  BY <1>1 DEF B!DecisionIsTheAnswer, B!Failed
<1> QED BY <1>1, <1>2 DEF Wire, DecisionIsTheAnswer

LEMMA AnswerKeepsWire == Wire /\ B!Answered => Wire'
<1> SUFFICES ASSUME Wire, B!Answered PROVE Wire'
  OBVIOUS
<1>1. /\ stage = "waiting" /\ ~reply.errStatus /\ deltas' = deltas
      /\ B!Return(IF mode = "chat" THEN B!Decided(reply)
                  ELSE B!responseDecisionOf(B!responsesBody(reply)))
  BY DEF B!Answered
<1>2. mode \in {"chat", "responses"} /\ reply # NoReply /\ ~stream /\ deltas = << >>
      /\ stream \in BOOLEAN
  BY <1>1, WireFacts DEF Wire
<1>3. CASE mode = "responses" /\ reply.status = "failed"
  <2>1. B!responsesBody(reply).status = "failed"
    BY <1>1, <1>3, WireFacts DEF B!responsesBody, B!Reply
  <2>2. B!Return(B!Failed)
    BY <1>1, <1>3, <2>1 DEF B!responseDecisionOf
  <2> QED BY <1>1, <2>2, FailureKeepsWire
<1>4. CASE mode = "chat" \/ reply.status # "failed"
  <2>1. B!Return(B!Decided(reply))
    BY <1>1, <1>2, <1>4 DEF B!responseDecisionOf, B!responsesBody
  <2>2. /\ stage' = "returned" /\ decision' = B!Decided(reply)
        /\ mode' = mode /\ stream' = stream /\ sink' = sink /\ reply' = reply
    BY <2>1 DEF B!Return, B!brainConfig
  <2>3. B!Has(decision', reply)
    BY <2>2 DEF B!Has, B!Decided
  <2>4. B!DecisionIsTheAnswer'
    BY <1>1, <1>2, <1>4, <2>2, <2>3 DEF B!DecisionIsTheAnswer, B!Has
  <2> QED BY <2>2, <2>4 DEF Wire, DecisionIsTheAnswer
<1> QED BY <1>2, <1>3, <1>4

(* A chat stream that ends: what arrived is the decision, if any choice did.*)
LEMMA ChatEndKeepsWire ==
    ASSUME Wire, B!StreamEnds, mode = "chat", acc.choices
    PROVE  Wire'
<1>1. /\ stage = "streaming" /\ ~reply.errStatus /\ stage' = "returned"
      /\ decision' = B!Decided(acc)
      /\ UNCHANGED <<mode, stream, sink, reply, frames, acc, deltas>>
  BY DEF B!StreamEnds, B!Receiving, B!Return, B!brainConfig
<1>2. reply \in B!Reply /\ reply # NoReply /\ stream /\ sink \in BOOLEAN
  BY <1>1, WireFacts DEF Wire
<1>3. PICK k \in 0 .. Len(Script) : Arrived(k)
  BY <1>1 DEF Wire
<1>4. PICK m \in {1, 2}, n \in Nat :
              /\ Sized(reply, m, n) /\ k \in 0 .. m + n + 2
              /\ (frames = << >> <=> k = m + n + 2)
  BY <1>2, <1>3, ChatArrival
<1>5. acc = Accumulated(reply, k) /\ deltas = IF sink THEN Heard(reply, k) ELSE << >>
  BY <1>3 DEF Arrived
<1>6. /\ decision'.text = Heard(reply, k) /\ decision'.calls = CallsSeen(m, n, k)
      /\ decision'.usage = IF k = m + n + 2 THEN reply.usage ELSE No
  BY <1>1, <1>4, <1>5 DEF Accumulated, Summed, Sum, Sized, B!Decided
<1>7. CallsSeen(m, n, k) <= n
  BY <1>4 DEF CallsSeen
<1>8. Heard(reply, k) = SubSeq(reply.text, 1, Len(Heard(reply, k)))
  BY <1>2, <1>4, HeardBegins
<1>9. frames = << >> => B!Has(decision', reply)
  <2> SUFFICES ASSUME frames = << >> PROVE B!Has(decision', reply)
    OBVIOUS
  <2>1. k = m + n + 2 /\ k \in Nat /\ k >= 2 /\ CallsSeen(m, n, k) = n
    BY <1>4 DEF CallsSeen
  <2>2. Heard(reply, k) = reply.text
    BY <1>2, <2>1, HeardMore
  <2> QED BY <1>4, <1>6, <2>1, <2>2 DEF B!Has, Sized
<1>10. n = reply.calls
  BY <1>4 DEF Sized
<1>11. B!DecisionIsTheAnswer'
  BY <1>1, <1>2, <1>5, <1>6, <1>7, <1>8, <1>9, <1>10 DEF B!DecisionIsTheAnswer, B!Has
<1> QED BY <1>1, <1>11 DEF Wire, DecisionIsTheAnswer

(* A Responses stream that ends behind its terminal event. *)
LEMMA EventEndKeepsWire ==
    ASSUME Wire, B!StreamEnds, mode = "responses", resp # NoReply, resp.status # "failed"
    PROVE  Wire'
<1>1. /\ stage = "streaming" /\ ~reply.errStatus /\ stage' = "returned"
      /\ decision' = B!Decided(resp)
      /\ UNCHANGED <<mode, stream, sink, reply, frames, acc, deltas>>
  BY DEF B!StreamEnds, B!Receiving, B!Return, B!brainConfig, B!responseDecisionOf
<1>2. reply \in B!Reply /\ reply # NoReply /\ stream /\ sink \in BOOLEAN
  BY <1>1, WireFacts DEF Wire
<1>3. PICK k \in 0 .. Len(Script) : Arrived(k)
  BY <1>1 DEF Wire
<1>4. k = EventCount(reply) /\ k \in Nat /\ resp = B!responsesBody(reply)
      /\ (reply.streamError => k = 0)
  BY <1>2, <1>3, EventArrival DEF Arrived
<1>5. ~reply.streamError
  BY <1>4 DEF EventCount
<1>6. resp = reply
  <2>1. CASE reply.status = "failed"
    BY <1>2, <1>4, <2>1 DEF B!responsesBody, B!Reply
  <2>2. CASE reply.status # "failed"
    BY <1>4, <2>2 DEF B!responsesBody
  <2> QED BY <2>1, <2>2
<1>7. B!Has(decision', reply)
  BY <1>1, <1>6 DEF B!Has, B!Decided
<1>8. Heard(reply, k) = reply.text
  <2>1. CASE reply.text = << >>
    <3>1. k = 1
      BY <1>4, <2>1 DEF EventCount
    <3> QED BY <1>2, <2>1, <3>1, HeardMore
  <2>2. CASE reply.text # << >>
    <3>1. k >= 2
      BY <1>4, <1>5, <2>2 DEF EventCount
    <3> QED BY <1>2, <1>4, <3>1, HeardMore
  <2> QED BY <2>1, <2>2
<1>9. deltas' = IF sink THEN reply.text ELSE << >>
  BY <1>1, <1>3, <1>8 DEF Arrived
<1>10. B!DecisionIsTheAnswer'
  BY <1>1, <1>2, <1>5, <1>6, <1>7, <1>9 DEF B!DecisionIsTheAnswer, B!Has
<1> QED BY <1>1, <1>10 DEF Wire, DecisionIsTheAnswer

LEMMA EndKeepsWire == Wire /\ B!StreamEnds => Wire'
<1> SUFFICES ASSUME Wire, B!StreamEnds PROVE Wire'
  OBVIOUS
<1>1. mode \in {"chat", "responses"}
  BY DEF Wire
<1>2. CASE mode = "chat" /\ acc.choices
  BY <1>2, ChatEndKeepsWire
<1>3. CASE mode = "responses" /\ resp # NoReply /\ resp.status # "failed"
  BY <1>3, EventEndKeepsWire
<1>4. CASE \/ mode = "chat" /\ ~acc.choices
           \/ mode = "responses" /\ (resp = NoReply \/ resp.status = "failed")
  <2>1. B!Return(B!Failed) /\ UNCHANGED deltas
    BY <1>4 DEF B!StreamEnds, B!responseDecisionOf
  <2> QED BY <2>1, FailureKeepsWire
<1> QED BY <1>1, <1>2, <1>3, <1>4

LEMMA BrainKeepsWire == Wire /\ B!BrainStep => Wire'
<1> SUFFICES ASSUME Wire, B!BrainStep PROVE Wire'
  OBVIOUS
<1>1. CASE B!RenderFails
  <2>1. B!Return(B!Failed) /\ UNCHANGED deltas
    BY <1>1 DEF B!RenderFails, B!Return, B!wireVars
  <2> QED BY <2>1, FailureKeepsWire
<1>2. CASE B!ChunkRefused \/ B!ErrorEvent \/ B!RequestFails
  <2>1. B!Return(B!Failed) /\ UNCHANGED deltas
    BY <1>2 DEF B!ChunkRefused, B!ErrorEvent, B!RequestFails
  <2> QED BY <2>1, FailureKeepsWire
<1> QED BY <1>1, <1>2, RequestKeepsWire, AnswerKeepsWire, ChunkKeepsWire, EventKeepsWire,
           EndKeepsWire
        DEF B!BrainStep, B!LocalStep, B!ProviderStep

LEMMA NextKeepsWire == Wire /\ [TNext]_tvars => Wire'
<1> SUFFICES ASSUME Wire, [TNext]_tvars PROVE Wire'
  OBVIOUS
<1>1. CASE BrainWorks(B!LocalStep) \/ BrainWorks(cancelled /\ B!RequestFails)
           \/ BrainWorks(B!ProviderStep) \/ BrainWorks(B!RequestFails)
  <2>1. B!BrainStep
    BY <1>1 DEF BrainWorks, Attempting, B!BrainStep
  <2> QED BY <2>1, BrainKeepsWire
<1>2. CASE UNCHANGED tvars \/ AskMembrane \/ GateRuled \/ DraftRuled \/ TurnActs \/ Thought
           \/ ToolWaits \/ Feedback \/ Environment
  <2>1. UNCHANGED <<mode, stream, sink, stage, reply, frames, acc, resp, deltas, decision>>
    BY <1>2 DEF tvars, AskMembrane, GateRuled, DraftRuled, TurnActs, Thought, ToolWaits, Feedback,
       Environment, brainVars, brainConfig, wireVars
  <2>2. Script' = Script
    BY <2>1 DEF Script
  <2>3. \A k : Arrived(k)' <=> Arrived(k)
    BY <2>1, <2>2 DEF Arrived
  <2>4. B!DecisionIsTheAnswer' <=> B!DecisionIsTheAnswer
    BY <2>1 DEF B!DecisionIsTheAnswer
  <2> QED BY <2>1, <2>2, <2>3, <2>4 DEF Wire, DecisionIsTheAnswer
<1>3. CASE TurnThinks \/ TurnThinkReturns
  <2>1. /\ UNCHANGED <<mode, stream, sink>> /\ reply' \in {reply, NoReply}
        /\ \/ stage' \in {"called", "rest"}
           \/ UNCHANGED <<stage, reply, frames, acc, resp, deltas, decision>>
    BY <1>3 DEF TurnThinks, TurnThinkReturns, brainVars, brainConfig, wireVars
  <2>2. CASE stage' \in {"called", "rest"}
    <3>1. B!DecisionIsTheAnswer'
      BY <2>2 DEF B!DecisionIsTheAnswer
    <3> QED BY <2>1, <2>2, <3>1 DEF Wire, DecisionIsTheAnswer
  <2>3. CASE UNCHANGED <<stage, reply, frames, acc, resp, deltas, decision>>
    <3>1. Script' = Script
      BY <2>1, <2>3 DEF Script
    <3>2. \A k : Arrived(k)' <=> Arrived(k)
      BY <2>1, <2>3, <3>1 DEF Arrived
    <3>3. B!DecisionIsTheAnswer' <=> B!DecisionIsTheAnswer
      BY <2>1, <2>3 DEF B!DecisionIsTheAnswer
    <3> QED BY <2>1, <2>3, <3>1, <3>2, <3>3 DEF Wire, DecisionIsTheAnswer
  <2> QED BY <2>1, <2>2, <2>3
<1> QED BY <1>1, <1>2, <1>3 DEF TNext, TStep

LEMMA WireInitially == TInit => Wire
BY DEF TInit, B!BrainInit, Wire, DecisionIsTheAnswer, B!DecisionIsTheAnswer, B!Failed

(* For every answer a provider may give, however long its text and however  *)
(* many its calls, a decision is that answer, the sink has heard its text   *)
(* once, and neither an error, a failed run nor a stream that lost its      *)
(* terminal event becomes one.                                              *)
THEOREM AnswerDecides == TSpec => []DecisionIsTheAnswer
<1>1. Wire => DecisionIsTheAnswer
  BY DEF Wire
<1> QED BY <1>1, WireInitially, NextKeepsWire, PTL DEF TSpec

-----------------------------------------------------------------------------
(* Types.  A turn that is over stays as it is, so what was fed back stays   *)
(* with the tool call whose answer it is.                                   *)
Rest ==
    /\ reason \in Nat /\ said \in {"none", "draft", "denial", "withheld"}
    /\ fed # Unfed => phase = "over" /\ kind = "act" /\ Settled

LEMMA OverIsOver == phase = "over" /\ [TNext]_tvars => UNCHANGED tvars
BY DEF TNext, TStep, tvars, AskMembrane, GateRuled, DraftRuled, Thought, ToolWaits, Feedback,
   TurnThinks, TurnThinkReturns, TurnActs, BrainWorks, Attempting, Environment

LEMMA NextKeepsRest == Ruled /\ Phases /\ Rest /\ [TNext]_tvars => Rest'
<1> SUFFICES ASSUME Ruled, Phases, Rest, [TNext]_tvars PROVE Rest'
  OBVIOUS
<1>1. CASE phase = "over"
  <2>1. UNCHANGED <<reason, said, fed, phase, kind, pc>>
    BY <1>1, OverIsOver DEF tvars, vars, config, guardVars, turnVars
  <2> QED BY <2>1 DEF Rest, Settled
<1>2. CASE phase # "over" /\ AskMembrane
  <2>1. said' = said /\ fed' = fed /\ fed = Unfed
    BY <1>2 DEF AskMembrane, turnVars, Phases
  <2>2. reason' \in {reason, 0, asked, Len(votes) + 1}
    BY <1>2 DEF AskMembrane, G!GuardStep, G!NoLayer, G!Layer, G!AllRuled, G!Rule
  <2>3. asked \in Nat /\ Len(votes) + 1 \in Nat
    BY DEF Ruled
  <2> QED BY <2>1, <2>2, <2>3 DEF Rest
<1>3. CASE phase # "over" /\ Feedback
  <2>1. reason' = reason /\ said' = said /\ phase' = "over" /\ kind' = kind /\ kind = "act"
        /\ pc' = pc /\ Settled
    BY <1>3 DEF Feedback, vars, config, guardVars
  <2> QED BY <2>1 DEF Rest, Settled
<1>4. CASE phase # "over" /\ DraftRuled
  <2>1. reason' = reason /\ fed' = fed /\ fed = Unfed
        /\ said' \in {said, "draft", "denial", "withheld"}
    BY <1>4 DEF DraftRuled, guardVars, Phases
  <2> QED BY <2>1 DEF Rest
<1>5. CASE phase # "over" /\ ~AskMembrane /\ ~Feedback /\ ~DraftRuled
  <2>1. reason' = reason /\ said' = said /\ fed' = fed
    BY <1>5 DEF TNext, TStep, tvars, GateRuled, Thought, ToolWaits, TurnThinks,
       TurnThinkReturns, TurnActs, BrainWorks, Attempting, Environment, guardVars, turnVars
  <2>2. fed = Unfed
    BY <1>5 DEF Phases
  <2> QED BY <2>1, <2>2 DEF Rest
<1> QED BY <1>1, <1>2, <1>3, <1>4, <1>5

LEMMA RestInitially == TInit => Rest
BY DEF TInit, G!GuardInit, Rest

(* Type correctness of a turn with its attempts, its membrane and its brain.*)
THEOREM TurnTypeCorrect == TSpec => []TurnTypeOK
<1>1. IInv /\ Ruled /\ Phases /\ Budget /\ Wire /\ Rest => TurnTypeOK
  <2> SUFFICES ASSUME IInv, Ruled, Phases, Budget, Wire, Rest PROVE TurnTypeOK
    OBVIOUS
  <2>1. TypeOK
    BY DEF IInv
  <2>2. G!GuardTypeOK
    BY DEF Ruled, Phases, Rest, G!GuardTypeOK
  <2> QED BY <2>1, <2>2 DEF Phases, Budget, Wire, Rest, TurnTypeOK
<1>2. TSpec => []IInv
  BY TurnImplementsAttempts, AttemptsInvariant, PTL
<1> QED BY <1>1, <1>2, MembraneInitially, BudgetInitially, WireInitially, RestInitially,
           NextKeepsRuled, NextKeepsPhases, NextKeepsBudget, NextKeepsWire, NextKeepsRest,
           PTL DEF TSpec

=============================================================================
