---------------------------- MODULE AttemptsProofs ----------------------------
(***************************************************************************)
(* What the attempts of a Think or of a tool call guarantee, for every      *)
(* number of retries and every length of the fallback stack.                *)
(***************************************************************************)
EXTENDS Attempts, TLAPS

(* Which control points each of the two callers has. *)
Callers ==
    /\ kind = "think" =>
          /\ pc \in {"attempt", "checked", "thinking", "ok", "failed", "cancelled"}
          /\ stack = 1 /\ ~timeout /\ ~expired
    /\ kind = "act" => pc \notin {"checked", "thinking", "cancelled"}

(* What the last answer can be; a further attempt has one behind it that    *)
(* was no result.                                                           *)
LastAnswer ==
    /\ attempt > 0 => answer # "none"
    /\ pc \in {"attempt", "checked", "thinking"} => answer \in {"none", "error", "nil"}
    /\ kind = "act" /\ pc \in {"attempt", "stack", "acting", "failed"} =>
          answer \in {"none", "error"}
    /\ pc \in {"returned", "decide"} => answer # "none"
    /\ pc \notin {"attempt", "failed", "ok", "cancelled"} => attempt <= MaxAttempts

(* The timer lives inside an attempt; one that fired under a failed attempt *)
(* is on its way to the end.                                                *)
Timers ==
    /\ timer # "off" => timeout /\ pc \in {"stack", "acting", "returned"}
    /\ expired => /\ pc \in {"decide", "failed"}
                  /\ pc = "decide" => answer = "error" /\ timeout /\ actErr
    /\ pc = "decide" /\ actErr /\ answer = "error" => cancelled \/ expired

(* How many calls began after the caller cancelled: none where the context  *)
(* is about to be read and was not found done, and at a new attempt of a    *)
(* tool none, since Decide would have ended it.                             *)
LateCalls ==
    /\ late > 0 => cancelled
    /\ pc = "checked" \/ (kind = "act" /\ pc = "attempt") => late = 0
    /\ pc = "stack" => late <= member - 1
    /\ pc = "acting" => member <= stack /\ late <= member
    /\ late <= stack

(* The inductive invariant. *)
IInv ==
    /\ TypeOK /\ Callers /\ LastAnswer /\ Timers /\ LateCalls
    /\ GivesUpForAReason /\ CancelBoundsWork /\ FailureHasACause

-----------------------------------------------------------------------------
(* The number of attempts is bounded by a natural number. *)
LEMMA BoundIsNat == ASSUME TypeOK PROVE MaxAttempts \in Nat /\ retries \in Int
BY AttemptsAssumption DEF TypeOK, MaxAttempts

LEMMA Initially == Init => IInv
<1> SUFFICES ASSUME Init PROVE IInv
  OBVIOUS
<1>1. retries \in Int /\ stack \in Nat
  BY AttemptsAssumption DEF Init
<1>a. attempt \in 0 .. MaxAttempts + 1 /\ member \in 1 .. stack + 1 /\ late \in Nat
  BY <1>1 DEF Init, MaxAttempts
<1>2. TypeOK
  BY <1>1, <1>a DEF Init, TypeOK, Answers
<1>3. Callers /\ LastAnswer /\ Timers
  BY <1>1 DEF Init, Callers, LastAnswer, Timers, MaxAttempts
<1>4. LateCalls /\ CancelBoundsWork
  BY <1>1 DEF Init, LateCalls, CancelBoundsWork
<1>5. GivesUpForAReason /\ FailureHasACause
  BY DEF Init, GivesUpForAReason, FailureHasACause
<1> QED BY <1>2, <1>3, <1>4, <1>5 DEF IInv

(* Every action keeps the invariant. *)
LEMMA ThinkGivesUpKeeps == IInv /\ ThinkGivesUp => IInv'
<1> SUFFICES ASSUME IInv, ThinkGivesUp PROVE IInv'
  OBVIOUS
<1> USE BoundIsNat DEF IInv, ThinkGivesUp, config, hist
<1>1. TypeOK' BY DEF TypeOK, LastAnswer, LateCalls, MaxAttempts, Answers
<1>2. Callers' BY DEF Callers, TypeOK
<1>3. LastAnswer' BY DEF LastAnswer, Callers, TypeOK, MaxAttempts
<1>4. Timers' BY DEF Timers, Callers, TypeOK
<1>5. LateCalls' BY DEF LateCalls, Callers, Timers, TypeOK
<1>6. GivesUpForAReason'
  BY DEF GivesUpForAReason, Timers, LastAnswer, Callers, TypeOK, MaxAttempts
<1>7. CancelBoundsWork'
  BY <1>2, <1>5 DEF CancelBoundsWork, Callers, LateCalls
<1>8. FailureHasACause'
  BY DEF FailureHasACause, LastAnswer, Callers, TypeOK, MaxAttempts
<1> QED BY <1>1, <1>2, <1>3, <1>4, <1>5, <1>6, <1>7, <1>8

LEMMA ThinkChecksKeeps == IInv /\ ThinkChecks => IInv'
<1> SUFFICES ASSUME IInv, ThinkChecks PROVE IInv'
  OBVIOUS
<1> USE BoundIsNat DEF IInv, ThinkChecks, config, hist
<1>1. TypeOK' BY DEF TypeOK, LastAnswer, LateCalls, MaxAttempts, Answers
<1>2. Callers' BY DEF Callers, TypeOK
<1>3. LastAnswer' BY DEF LastAnswer, Callers, TypeOK, MaxAttempts
<1>4. Timers' BY DEF Timers, Callers, TypeOK
<1>5. LateCalls' BY DEF LateCalls, Callers, Timers, TypeOK
<1>6. GivesUpForAReason'
  BY DEF GivesUpForAReason, Timers, LastAnswer, Callers, TypeOK, MaxAttempts
<1>7. CancelBoundsWork'
  BY <1>2, <1>5 DEF CancelBoundsWork, Callers, LateCalls
<1>8. FailureHasACause'
  BY DEF FailureHasACause, LastAnswer, Callers, TypeOK, MaxAttempts
<1> QED BY <1>1, <1>2, <1>3, <1>4, <1>5, <1>6, <1>7, <1>8

LEMMA ThinkKeeps == IInv /\ Think => IInv'
<1> SUFFICES ASSUME IInv, Think PROVE IInv'
  OBVIOUS
<1> USE BoundIsNat DEF IInv, Think, config, hist, Call
<1>1. TypeOK' BY DEF TypeOK, LastAnswer, LateCalls, MaxAttempts, Answers
<1>2. Callers' BY DEF Callers, TypeOK
<1>3. LastAnswer' BY DEF LastAnswer, Callers, TypeOK, MaxAttempts
<1>4. Timers' BY DEF Timers, Callers, TypeOK
<1>5. LateCalls' BY DEF LateCalls, Callers, Timers, TypeOK
<1>6. GivesUpForAReason'
  BY DEF GivesUpForAReason, Timers, LastAnswer, Callers, TypeOK, MaxAttempts
<1>7. CancelBoundsWork'
  BY <1>2, <1>5 DEF CancelBoundsWork, Callers, LateCalls
<1>8. FailureHasACause'
  BY DEF FailureHasACause, LastAnswer, Callers, TypeOK, MaxAttempts
<1> QED BY <1>1, <1>2, <1>3, <1>4, <1>5, <1>6, <1>7, <1>8

LEMMA ThinkReturnsKeeps == IInv /\ ThinkReturns => IInv'
<1> SUFFICES ASSUME IInv, ThinkReturns PROVE IInv'
  OBVIOUS
<1> USE BoundIsNat DEF IInv, ThinkReturns, config, hist, Answers
<1>1. TypeOK' BY DEF TypeOK, LastAnswer, LateCalls, MaxAttempts, Answers
<1>2. Callers' BY DEF Callers, TypeOK
<1>3. LastAnswer' BY DEF LastAnswer, Callers, TypeOK, MaxAttempts
<1>4. Timers' BY DEF Timers, Callers, TypeOK
<1>5. LateCalls' BY DEF LateCalls, Callers, Timers, TypeOK
<1>6. GivesUpForAReason'
  BY DEF GivesUpForAReason, Timers, LastAnswer, Callers, TypeOK, MaxAttempts
<1>7. CancelBoundsWork'
  BY <1>2, <1>5 DEF CancelBoundsWork, Callers, LateCalls
<1>8. FailureHasACause'
  BY DEF FailureHasACause, LastAnswer, Callers, TypeOK, MaxAttempts
<1> QED BY <1>1, <1>2, <1>3, <1>4, <1>5, <1>6, <1>7, <1>8

LEMMA ActGivesUpKeeps == IInv /\ ActGivesUp => IInv'
<1> SUFFICES ASSUME IInv, ActGivesUp PROVE IInv'
  OBVIOUS
<1> USE BoundIsNat DEF IInv, ActGivesUp, config, hist
<1>1. TypeOK' BY DEF TypeOK, LastAnswer, LateCalls, MaxAttempts, Answers
<1>2. Callers' BY DEF Callers, TypeOK
<1>3. LastAnswer' BY DEF LastAnswer, Callers, TypeOK, MaxAttempts
<1>4. Timers' BY DEF Timers, Callers, TypeOK
<1>5. LateCalls' BY DEF LateCalls, Callers, Timers, TypeOK
<1>6. GivesUpForAReason'
  BY DEF GivesUpForAReason, Timers, LastAnswer, Callers, TypeOK, MaxAttempts
<1>7. CancelBoundsWork'
  BY <1>2, <1>5 DEF CancelBoundsWork, Callers, LateCalls
<1>8. FailureHasACause'
  BY DEF FailureHasACause, LastAnswer, Callers, TypeOK, MaxAttempts
<1> QED BY <1>1, <1>2, <1>3, <1>4, <1>5, <1>6, <1>7, <1>8

LEMMA ActKeeps == IInv /\ Act => IInv'
<1> SUFFICES ASSUME IInv, Act PROVE IInv'
  OBVIOUS
<1> USE BoundIsNat DEF IInv, Act, config, hist
<1>1. TypeOK' BY DEF TypeOK, LastAnswer, LateCalls, MaxAttempts, Answers
<1>2. Callers' BY DEF Callers, TypeOK
<1>3. LastAnswer' BY DEF LastAnswer, Callers, TypeOK, MaxAttempts
<1>4. Timers' BY DEF Timers, Callers, TypeOK
<1>5. LateCalls' BY DEF LateCalls, Callers, Timers, TypeOK
<1>6. GivesUpForAReason'
  BY DEF GivesUpForAReason, Timers, LastAnswer, Callers, TypeOK, MaxAttempts
<1>7. CancelBoundsWork'
  BY <1>2, <1>5 DEF CancelBoundsWork, Callers, LateCalls
<1>8. FailureHasACause'
  BY DEF FailureHasACause, LastAnswer, Callers, TypeOK, MaxAttempts
<1> QED BY <1>1, <1>2, <1>3, <1>4, <1>5, <1>6, <1>7, <1>8

LEMMA AskMemberKeeps == IInv /\ AskMember => IInv'
<1> SUFFICES ASSUME IInv, AskMember PROVE IInv'
  OBVIOUS
<1> USE BoundIsNat DEF IInv, AskMember, config, hist, Call
<1>1. TypeOK' BY DEF TypeOK, LastAnswer, LateCalls, MaxAttempts, Answers
<1>2. Callers' BY DEF Callers, TypeOK
<1>3. LastAnswer' BY DEF LastAnswer, Callers, TypeOK, MaxAttempts
<1>4. Timers' BY DEF Timers, Callers, TypeOK
<1>5. LateCalls' BY DEF LateCalls, Callers, Timers, TypeOK
<1>6. GivesUpForAReason'
  BY DEF GivesUpForAReason, Timers, LastAnswer, Callers, TypeOK, MaxAttempts
<1>7. CancelBoundsWork'
  BY <1>2, <1>5 DEF CancelBoundsWork, Callers, LateCalls
<1>8. FailureHasACause'
  BY DEF FailureHasACause, LastAnswer, Callers, TypeOK, MaxAttempts
<1> QED BY <1>1, <1>2, <1>3, <1>4, <1>5, <1>6, <1>7, <1>8

LEMMA StackFailsKeeps == IInv /\ StackFails => IInv'
<1> SUFFICES ASSUME IInv, StackFails PROVE IInv'
  OBVIOUS
<1> USE BoundIsNat DEF IInv, StackFails, config, hist, Answers
<1>1. TypeOK' BY DEF TypeOK, LastAnswer, LateCalls, MaxAttempts, Answers
<1>2. Callers' BY DEF Callers, TypeOK
<1>3. LastAnswer' BY DEF LastAnswer, Callers, TypeOK, MaxAttempts
<1>4. Timers' BY DEF Timers, Callers, TypeOK
<1>5. LateCalls' BY DEF LateCalls, Callers, Timers, TypeOK
<1>6. GivesUpForAReason'
  BY DEF GivesUpForAReason, Timers, LastAnswer, Callers, TypeOK, MaxAttempts
<1>7. CancelBoundsWork'
  BY <1>2, <1>5 DEF CancelBoundsWork, Callers, LateCalls
<1>8. FailureHasACause'
  BY DEF FailureHasACause, LastAnswer, Callers, TypeOK, MaxAttempts
<1> QED BY <1>1, <1>2, <1>3, <1>4, <1>5, <1>6, <1>7, <1>8

LEMMA MemberReturnsKeeps == IInv /\ MemberReturns => IInv'
<1> SUFFICES ASSUME IInv, MemberReturns PROVE IInv'
  OBVIOUS
<1> USE BoundIsNat DEF IInv, MemberReturns, config, hist, Answers
<1>1. TypeOK' BY DEF TypeOK, LastAnswer, LateCalls, MaxAttempts, Answers
<1>2. Callers' BY DEF Callers, TypeOK
<1>3. LastAnswer' BY DEF LastAnswer, Callers, TypeOK, MaxAttempts
<1>4. Timers' BY DEF Timers, Callers, TypeOK
<1>5. LateCalls' BY DEF LateCalls, Callers, Timers, TypeOK
<1>6. GivesUpForAReason'
  BY DEF GivesUpForAReason, Timers, LastAnswer, Callers, TypeOK, MaxAttempts
<1>7. CancelBoundsWork'
  BY <1>2, <1>5 DEF CancelBoundsWork, Callers, LateCalls
<1>8. FailureHasACause'
  BY DEF FailureHasACause, LastAnswer, Callers, TypeOK, MaxAttempts
<1> QED BY <1>1, <1>2, <1>3, <1>4, <1>5, <1>6, <1>7, <1>8

LEMMA ReleaseKeeps == IInv /\ Release => IInv'
<1> SUFFICES ASSUME IInv, Release PROVE IInv'
  OBVIOUS
<1> USE BoundIsNat DEF IInv, Release, config, hist
<1>1. TypeOK' BY DEF TypeOK, LastAnswer, LateCalls, MaxAttempts, Answers
<1>2. Callers' BY DEF Callers, TypeOK
<1>3. LastAnswer' BY DEF LastAnswer, Callers, TypeOK, MaxAttempts
<1>4. Timers' BY DEF Timers, Callers, TypeOK
<1>5. LateCalls' BY DEF LateCalls, Callers, Timers, TypeOK
<1>6. GivesUpForAReason'
  BY DEF GivesUpForAReason, Timers, LastAnswer, Callers, TypeOK, MaxAttempts
<1>7. CancelBoundsWork'
  BY <1>2, <1>5 DEF CancelBoundsWork, Callers, LateCalls
<1>8. FailureHasACause'
  BY DEF FailureHasACause, LastAnswer, Callers, TypeOK, MaxAttempts
<1> QED BY <1>1, <1>2, <1>3, <1>4, <1>5, <1>6, <1>7, <1>8

LEMMA DecideKeeps == IInv /\ Decide => IInv'
<1> SUFFICES ASSUME IInv, Decide PROVE IInv'
  OBVIOUS
<1> USE BoundIsNat DEF IInv, Decide, config, hist, Answers
<1>1. TypeOK' BY DEF TypeOK, LastAnswer, LateCalls, MaxAttempts, Answers
<1>2. Callers' BY DEF Callers, TypeOK
<1>3. LastAnswer' BY DEF LastAnswer, Callers, TypeOK, MaxAttempts
<1>4. Timers' BY DEF Timers, Callers, TypeOK
<1>5. LateCalls' BY DEF LateCalls, Callers, Timers, TypeOK
<1>6. GivesUpForAReason'
  BY DEF GivesUpForAReason, Timers, LastAnswer, Callers, TypeOK, MaxAttempts
<1>7. CancelBoundsWork'
  BY <1>2, <1>5 DEF CancelBoundsWork, Callers, LateCalls
<1>8. FailureHasACause'
  BY DEF FailureHasACause, LastAnswer, Callers, TypeOK, MaxAttempts
<1> QED BY <1>1, <1>2, <1>3, <1>4, <1>5, <1>6, <1>7, <1>8

LEMMA CancelKeeps == IInv /\ Cancel => IInv'
<1> SUFFICES ASSUME IInv, Cancel PROVE IInv'
  OBVIOUS
<1> USE BoundIsNat DEF IInv, Cancel, config, hist, Settled
<1>1. TypeOK' BY DEF TypeOK, LastAnswer, LateCalls, MaxAttempts, Answers
<1>2. Callers' BY DEF Callers, TypeOK
<1>3. LastAnswer' BY DEF LastAnswer, Callers, TypeOK, MaxAttempts
<1>4. Timers' BY DEF Timers, Callers, TypeOK
<1>5. LateCalls' BY DEF LateCalls, Callers, Timers, TypeOK
<1>6. GivesUpForAReason'
  BY DEF GivesUpForAReason, Timers, LastAnswer, Callers, TypeOK, MaxAttempts
<1>7. CancelBoundsWork'
  BY <1>2, <1>5 DEF CancelBoundsWork, Callers, LateCalls
<1>8. FailureHasACause'
  BY DEF FailureHasACause, LastAnswer, Callers, TypeOK, MaxAttempts
<1> QED BY <1>1, <1>2, <1>3, <1>4, <1>5, <1>6, <1>7, <1>8

LEMMA TimerFiresKeeps == IInv /\ TimerFires => IInv'
<1> SUFFICES ASSUME IInv, TimerFires PROVE IInv'
  OBVIOUS
<1> USE BoundIsNat DEF IInv, TimerFires, config, hist
<1>1. TypeOK' BY DEF TypeOK, LastAnswer, LateCalls, MaxAttempts, Answers
<1>2. Callers' BY DEF Callers, TypeOK
<1>3. LastAnswer' BY DEF LastAnswer, Callers, TypeOK, MaxAttempts
<1>4. Timers' BY DEF Timers, Callers, TypeOK
<1>5. LateCalls' BY DEF LateCalls, Callers, Timers, TypeOK
<1>6. GivesUpForAReason'
  BY DEF GivesUpForAReason, Timers, LastAnswer, Callers, TypeOK, MaxAttempts
<1>7. CancelBoundsWork'
  BY <1>2, <1>5 DEF CancelBoundsWork, Callers, LateCalls
<1>8. FailureHasACause'
  BY DEF FailureHasACause, LastAnswer, Callers, TypeOK, MaxAttempts
<1> QED BY <1>1, <1>2, <1>3, <1>4, <1>5, <1>6, <1>7, <1>8

(* A stuttering step keeps it. *)
LEMMA StutterKeeps == IInv /\ UNCHANGED vars => IInv'
BY DEF IInv, TypeOK, Callers, LastAnswer, Timers, LateCalls, GivesUpForAReason,
  CancelBoundsWork, FailureHasACause, MaxAttempts, vars, config, hist

LEMMA NextKeeps == IInv /\ [Next]_vars => IInv'
BY ThinkGivesUpKeeps, ThinkChecksKeeps, ThinkKeeps, ThinkReturnsKeeps, ActGivesUpKeeps,
  ActKeeps, AskMemberKeeps, StackFailsKeeps, MemberReturnsKeeps, ReleaseKeeps, DecideKeeps,
  CancelKeeps, TimerFiresKeeps, StutterKeeps DEF Next, Step

-----------------------------------------------------------------------------
(* The conjunction of the invariants a Think's and a tool call's attempts   *)
(* keep is inductive.                                                       *)
THEOREM AttemptsInvariant == Spec => []IInv
BY Initially, NextKeeps, PTL DEF Spec

(* For all retries and stacks an error is reported early only for a reason. *)
THEOREM NoEarlyFailure == Spec => []GivesUpForAReason
<1>1. IInv => GivesUpForAReason
  BY DEF IInv
<1> QED BY <1>1, AttemptsInvariant, PTL

(* For all retries and stacks a cancelled caller waits for no more than one *)
(* Think, or one attempt's members: thinkWithRetry reads the context before *)
(* each Think and actWithRetry behind each failed attempt.                  *)
THEOREM CancelIsBounded == Spec => []CancelBoundsWork
<1>1. IInv => CancelBoundsWork
  BY DEF IInv
<1> QED BY <1>1, AttemptsInvariant, PTL

(* A reported failure has a cause. *)
THEOREM FailureCaused == Spec => []FailureHasACause
<1>1. IInv => FailureHasACause
  BY DEF IInv
<1> QED BY <1>1, AttemptsInvariant, PTL

(* A tool that gave a result, a business failure or a missing effect among  *)
(* them, is not asked again: only Think and AskMember call, and behind a    *)
(* result the control is never where AskMember starts.                      *)
THEOREM ResultIsFinal == Spec => RanIsFinal
<1>1. IInv /\ [Next]_vars =>
        [kind = "act" /\ answer \in {"ok", "business", "nil"} => ~Calling']_vars
  <2> SUFFICES ASSUME IInv, Next, kind = "act", answer \in {"ok", "business", "nil"}
               PROVE ~Calling'
    OBVIOUS
  <2>1. ~Think /\ ~AskMember /\ ~Calling
    BY DEF IInv, Callers, LastAnswer, Think, AskMember, Calling
  <2> QED BY <2>1 DEF Next, Step, ThinkGivesUp, ThinkChecks, ThinkReturns, ActGivesUp, Act,
        StackFails, MemberReturns, Release, Decide, Cancel, TimerFires, Calling
<1> QED BY <1>1, AttemptsInvariant, PTL DEF Spec, RanIsFinal

(* After a timeout that fired under a failed attempt the tool is not asked  *)
(* again.                                                                   *)
THEOREM NoRetryAfterTimeout == Spec => TimeoutIsFinal
<1>1. IInv /\ [Next]_vars => [expired => ~Calling']_vars
  <2> SUFFICES ASSUME IInv, Next, expired PROVE ~Calling'
    OBVIOUS
  <2>1. ~Think /\ ~AskMember /\ ~Calling
    BY DEF IInv, Timers, Think, AskMember, Calling
  <2> QED BY <2>1 DEF Next, Step, ThinkGivesUp, ThinkChecks, ThinkReturns, ActGivesUp, Act,
        StackFails, MemberReturns, Release, Decide, Cancel, TimerFires, Calling
<1> QED BY <1>1, AttemptsInvariant, PTL DEF Spec, TimeoutIsFinal
=============================================================================
