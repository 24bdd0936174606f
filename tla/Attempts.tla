------------------------------- MODULE Attempts -------------------------------
(***************************************************************************)
(* The attempts inside one Think or one tool call of the decision loop.     *)
(*                                                                         *)
(* A Think is tried again after an error or a missing decision until the    *)
(* context is done.  A tool call may have a timeout of its own per attempt, *)
(* and its port may be a fallback stack, whose members are tried in order   *)
(* inside the same attempt.  The caller's context may be cancelled and the  *)
(* timer may fire at any time; a port answers what it likes even then.      *)
(***************************************************************************)
EXTENDS Integers

CONSTANTS
    Retries,    \* the values of MaxRetries and ToolMaxRetries to try
    Stacks      \* the lengths of the tool port's fallback stack

ASSUME AttemptsAssumption == Retries \subseteq Int /\ Stacks \subseteq Nat

VARIABLES
    kind,       \* "think" or "act": which of the two callers this is
    retries,    \* the configured retries
    timeout,    \* a per-attempt timeout is configured
    stack,      \* members of the port, 1 for a plain one
    cancelled,  \* the caller's context is done
    timer,      \* the attempt's own timer
    attempt,    \* the loop counter
    member,     \* the member that is asked
    answer,     \* what the last call of the port gave back
    actErr,     \* the attempt's context error, read before it is released
    pc

(* History. *)
VARIABLES
    late,       \* calls begun when the caller's context was done
    expired     \* an attempt failed after its own timer had fired

config == <<kind, retries, timeout, stack>>
hist   == <<late, expired>>
vars   == <<config, cancelled, timer, attempt, member, answer, actErr, pc, hist>>

(* A failed call hands back "error"; the others are results, a business     *)
(* failure and a missing value among them.                                  *)
Answers == {"ok", "business", "nil", "error"}

Init ==
    /\ kind \in {"think", "act"} /\ retries \in Retries
    /\ timeout \in BOOLEAN /\ (kind = "think" => ~timeout)
    /\ stack \in Stacks /\ (kind = "think" => stack = 1)
    /\ cancelled \in BOOLEAN /\ timer = "off" /\ attempt = 0 /\ member = 1
    /\ answer = "none" /\ actErr = FALSE /\ pc = "attempt"
    /\ late = 0 /\ expired = FALSE

(* Mutant: a negative configuration is taken as it is. *)
MaxAttemptsRaw == retries
(* A negative configuration means no retry, and one attempt. *)
MaxAttempts == IF retries < 0 THEN 0 ELSE retries

(* The brain, or a member of the tool port, is at work. *)
Calling == pc \in {"thinking", "acting"}

Call == late' = late + (IF cancelled THEN 1 ELSE 0)

-----------------------------------------------------------------------------
(* thinkWithRetry *)

ThinkGivesUp ==
    /\ kind = "think" /\ pc = "attempt"
    /\ \/ attempt > MaxAttempts /\ pc' = "failed"
       \/ attempt <= MaxAttempts /\ cancelled /\ pc' = "cancelled"
    /\ UNCHANGED <<config, cancelled, timer, attempt, member, answer, actErr, hist>>

(* The context is read, and the Thinker called in a step of its own: the    *)
(* caller may cancel in between.                                            *)
ThinkChecks ==
    /\ kind = "think" /\ pc = "attempt" /\ attempt <= MaxAttempts /\ ~cancelled
    /\ pc' = "checked"
    /\ UNCHANGED <<config, cancelled, timer, attempt, member, answer, actErr, hist>>

Think ==
    /\ pc = "checked" /\ Call /\ pc' = "thinking"
    /\ UNCHANGED <<config, cancelled, timer, attempt, member, answer, actErr, expired>>

(* Mutant: a missing decision is not counted as an attempt. *)
ThinkReturnsUncounted ==
    /\ pc = "thinking" /\ answer' \in Answers \ {"business"}
    /\ IF answer' = "ok" THEN pc' = "ok" ELSE pc' = "attempt"
    /\ attempt' = attempt + (IF answer' = "error" THEN 1 ELSE 0)
    /\ UNCHANGED <<config, cancelled, timer, member, actErr, hist>>

ThinkReturns ==
    /\ pc = "thinking" /\ answer' \in Answers \ {"business"}
    /\ IF answer' = "ok" THEN pc' = "ok" /\ UNCHANGED attempt
                         ELSE pc' = "attempt" /\ attempt' = attempt + 1
    /\ UNCHANGED <<config, cancelled, timer, member, actErr, hist>>

-----------------------------------------------------------------------------
(* actWithRetry; the context is not looked at before an attempt. *)

ActGivesUp ==
    /\ kind = "act" /\ pc = "attempt" /\ attempt > MaxAttempts /\ pc' = "failed"
    /\ UNCHANGED <<config, cancelled, timer, attempt, member, answer, actErr, hist>>

(* Mutant: one attempt too many. *)
ActOneMore ==
    /\ kind = "act" /\ pc = "attempt" /\ attempt <= MaxAttempts + 1
    /\ timer' = (IF timeout THEN "armed" ELSE "off")
    /\ member' = 1 /\ pc' = "stack"
    /\ UNCHANGED <<config, cancelled, attempt, answer, actErr, hist>>

Act ==
    /\ kind = "act" /\ pc = "attempt" /\ attempt <= MaxAttempts
    /\ timer' = (IF timeout THEN "armed" ELSE "off")
    /\ member' = 1 /\ pc' = "stack"
    /\ UNCHANGED <<config, cancelled, attempt, answer, actErr, hist>>

(* The fallback stack: the next member, or no member is left and the stack  *)
(* fails with all their errors.                                             *)
AskMember ==
    /\ pc = "stack" /\ member <= stack /\ Call /\ pc' = "acting"
    /\ UNCHANGED <<config, cancelled, timer, attempt, member, answer, actErr, expired>>

StackFails ==
    /\ pc = "stack" /\ member > stack /\ answer' = "error" /\ pc' = "returned"
    /\ UNCHANGED <<config, cancelled, timer, attempt, member, actErr, hist>>

(* Mutant: a business failure goes on to the next member. *)
MemberReturnsBusinessAsError ==
    /\ pc = "acting" /\ answer' \in Answers
    /\ IF answer' \in {"error", "business"}
       THEN pc' = "stack" /\ member' = member + 1
       ELSE pc' = "returned" /\ UNCHANGED member
    /\ UNCHANGED <<config, cancelled, timer, attempt, actErr, hist>>

MemberReturns ==
    /\ pc = "acting" /\ answer' \in Answers
    /\ IF answer' = "error" THEN pc' = "stack" /\ member' = member + 1
                            ELSE pc' = "returned" /\ UNCHANGED member
    /\ UNCHANGED <<config, cancelled, timer, attempt, actErr, hist>>

(* Mutant: the attempt's context is read after it was released. *)
ReleaseFirst ==
    /\ pc = "returned" /\ pc' = "decide"
    /\ actErr' = (cancelled \/ timeout) /\ timer' = "off"
    /\ expired' = (expired \/ (answer = "error" /\ timer = "fired"))
    /\ UNCHANGED <<config, cancelled, attempt, member, answer, late>>

(* The attempt's context is read, then released. *)
Release ==
    /\ pc = "returned" /\ pc' = "decide"
    /\ actErr' = (cancelled \/ timer = "fired") /\ timer' = "off"
    /\ expired' = (expired \/ (answer = "error" /\ timer = "fired"))
    /\ UNCHANGED <<config, cancelled, attempt, member, answer, late>>

(* Mutants: the timeout does not end the attempts; nor does the caller.     *)
DecideWithoutTimeout ==
    /\ pc = "decide"
    /\ IF answer # "error" THEN pc' = "ok" /\ UNCHANGED attempt
       ELSE IF cancelled THEN pc' = "failed" /\ UNCHANGED attempt
       ELSE pc' = "attempt" /\ attempt' = attempt + 1
    /\ UNCHANGED <<config, cancelled, timer, member, answer, actErr, hist>>

DecideWithoutCaller ==
    /\ pc = "decide"
    /\ IF answer # "error" THEN pc' = "ok" /\ UNCHANGED attempt
       ELSE IF timeout /\ actErr THEN pc' = "failed" /\ UNCHANGED attempt
       ELSE pc' = "attempt" /\ attempt' = attempt + 1
    /\ UNCHANGED <<config, cancelled, timer, member, answer, actErr, hist>>

(* A result is final, a missing effect included.  An error is final when   *)
(* the caller's context is done by now, or the attempt's was when the port  *)
(* came back.                                                               *)
Decide ==
    /\ pc = "decide"
    /\ IF answer # "error" THEN pc' = "ok" /\ UNCHANGED attempt
       ELSE IF cancelled \/ (timeout /\ actErr)
            THEN pc' = "failed" /\ UNCHANGED attempt
            ELSE pc' = "attempt" /\ attempt' = attempt + 1
    /\ UNCHANGED <<config, cancelled, timer, member, answer, actErr, hist>>

-----------------------------------------------------------------------------
(* The environment. *)
Settled == pc \in {"ok", "failed", "cancelled"}

Cancel ==
    /\ ~cancelled /\ ~Settled /\ cancelled' = TRUE
    /\ UNCHANGED <<config, timer, attempt, member, answer, actErr, pc, hist>>

TimerFires ==
    /\ timer = "armed" /\ timer' = "fired"
    /\ UNCHANGED <<config, cancelled, attempt, member, answer, actErr, pc, hist>>

Step ==
    \/ ThinkGivesUp \/ ThinkChecks \/ Think \/ ThinkReturns
    \/ ActGivesUp \/ Act \/ AskMember \/ StackFails \/ MemberReturns
    \/ Release \/ Decide

Next == Step \/ Cancel \/ TimerFires

Spec == Init /\ [][Next]_vars

-----------------------------------------------------------------------------
(* Types, and the counters agree with the loop. *)
TypeOK ==
    /\ kind \in {"think", "act"} /\ retries \in Retries /\ timeout \in BOOLEAN
    /\ stack \in Nat /\ cancelled \in BOOLEAN
    /\ timer \in {"off", "armed", "fired"}
    /\ attempt \in 0 .. MaxAttempts + 1 /\ member \in 1 .. stack + 1
    /\ answer \in Answers \cup {"none"} /\ actErr \in BOOLEAN
    /\ pc \in {"attempt", "checked", "thinking", "stack", "acting", "returned", "decide",
               "ok", "failed", "cancelled"}
    /\ late \in Nat /\ expired \in BOOLEAN

(* A tool that ran is never run again: after any answer that is not an      *)
(* execution error, a business failure and a missing effect included, no    *)
(* member and no further attempt is asked.                                  *)
RanIsFinal ==
    [][kind = "act" /\ answer \in {"ok", "business", "nil"} => ~Calling']_vars

(* Once an attempt failed after its own timeout had fired, its tool is not  *)
(* asked again.                                                             *)
TimeoutIsFinal == [][expired => ~Calling']_vars

(* An error is reported before the attempts are used up only because the    *)
(* caller's context is done or a timeout really fired, never because the    *)
(* attempt's own context was released.                                      *)
GivesUpForAReason ==
    pc = "failed" => attempt = MaxAttempts + 1 \/ cancelled \/ expired

(* However many retries are left, after the caller cancelled at most one    *)
(* Think begins, whose check of the context the cancellation came too late  *)
(* for (retry.go 48-52), and of a tool call what one attempt may still ask: *)
(* each member once (retry.go 76-95, no check before the first).            *)
CancelBoundsWork == late <= (IF kind = "think" THEN 1 ELSE stack)

(* A failure has a cause: the port was asked and said so, or it is an empty *)
(* stack.  With no attempt at all there would be an error wrapping nil, or  *)
(* a result that is neither.                                                *)
FailureHasACause ==
    pc = "failed" => answer = "error" \/ (kind = "think" /\ answer = "nil")
=============================================================================
