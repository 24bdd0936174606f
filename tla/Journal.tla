------------------------------- MODULE Journal -------------------------------
(***************************************************************************)
(* The decision loop under a host that journals what the loop yields and    *)
(* may die at any moment.  A handle is saved as it is yielded, used by the  *)
(* next Resume, and stays in the journal until that run has settled or has *)
(* yielded the next one.  A host that comes back has the journal and        *)
(* nothing else: a run in the middle, the pause request and the cell are    *)
(* gone, so it builds the cell anew under the same id and resumes the saved *)
(* handle, a second time if the dead run was its first use.                 *)
(***************************************************************************)
EXTENDS DecisionLoopProperties

CONSTANT MaxRestarts    \* bound: times the host dies in one chain

ASSUME RestartsAssumption == MaxRestarts \in Nat

VARIABLES
    restarts,   \* times the host came back in this chain
    told,       \* calls with a journalled result, or a journalled question
    forgone,    \* executed calls of settled or dead runs, never told
    lost,       \* calls a dead run issued that no saved handle knows
    reopened,   \* restarts that found the call still to be executed
    before      \* executions of the call when a restart last found it so

journalVars == <<restarts, told, forgone, lost, reopened, before>>
jvars == <<vars, journalVars>>

(* What the journal has to resume: the newest handle yielded, else the one  *)
(* under way.                                                               *)
Saved == IF Valid(held) THEN held ELSE sess

Untold == {c \in Calls : acted[c] > 0 /\ c \notin told}

(* The calls a Resume of the handle may execute. *)
ToExecute(s) == s.remaining \cup (IF s.kind = "callAsk" THEN {s.pending} ELSE {})

Answered(s) == {c \in Calls : s.toolResults[c] + s.refusals[c] > 0}

JInit ==
    /\ Init
    /\ restarts = 0 /\ told = {} /\ forgone = {} /\ lost = {}
    /\ reopened = NoneOf /\ before = NoneOf

(* A result is in the journal once the consumer has taken its event, a      *)
(* tool's question once the handle that waits for the answer is saved.      *)
Journalled ==
    /\ told' = told \cup {c \in Calls : toolResults'[c] > toolResults[c]}
                    \cup (IF held' # held /\ held'.kind = "tool" THEN {held'.pending} ELSE {})
    /\ forgone' = IF pc' = "idle" THEN {c \in Calls : acted'[c] > 0} \ told' ELSE forgone
    /\ UNCHANGED <<restarts, lost, reopened, before>>

Step == LoopStep /\ Journalled

(* A stimulus starts a new chain, and its journal anew. *)
Host ==
    \/ Cycle /\ told' = {} /\ forgone' = {} /\ lost' = {} /\ reopened' = NoneOf
             /\ before' = NoneOf /\ restarts' = 0
    \/ (Resume \/ ResumeRefused \/ Pause \/ Unpause \/ Cancel) /\ UNCHANGED journalVars

(* The process dies and is started again. *)
Crash ==
    /\ restarts < MaxRestarts /\ restarts' = restarts + 1
    /\ held' = Saved /\ heard' = Saved.out
    /\ forgone' = Untold
    /\ lost' = {c \in Issued : c \notin Answered(Saved) \cup ToExecute(Saved) \cup {Saved.pending}}
    /\ reopened' = [c \in Calls |-> reopened[c] + IF c \in ToExecute(Saved) THEN 1 ELSE 0]
    /\ before' = [c \in Calls |-> IF c \in ToExecute(Saved) THEN acted[c] ELSE before[c]]
    /\ pc' = "idle" /\ last' = "none" /\ stopped' = FALSE
    /\ pauseFlag' = FALSE /\ cancelled' = FALSE
    /\ state' = "Idle" /\ outcome' = "none" /\ final' = << >>
    /\ toolResults' = NoneOf /\ refusals' = NoneOf /\ vetoes' = {}
    /\ round' = 0 /\ calls' = {} /\ out' = << >> /\ DropPass
    /\ Suspension("pause", NoCall, {})
    /\ sess' = ZeroSession /\ stage' = "rounds" /\ audits' = 0
    /\ standing' = FALSE /\ late' = 0
    /\ UNCHANGED <<cfg, countVars, auditVars, acted, told>>

JNext == Step \/ Host \/ Crash

(* A run that is left alone moves on; the host may never start one. *)
JSpec == JInit /\ [][JNext]_jvars /\ WF_jvars(Step)

-----------------------------------------------------------------------------
(* A tool executes once, and once more for every restart that found it      *)
(* still open in the saved handle, never after its answer was saved with    *)
(* one and never for a question already asked (port.go 160-164: resuming a  *)
(* handle twice replays its remaining calls, and no other), and each time   *)
(* only under an Allow of that run.  And whatever was replayed, the brain   *)
(* thinks on exactly one answer to every call of the chain it continues,    *)
(* and on none of a call that died with its run.                            *)
RestartsKeepTheLedger ==
    /\ \A c \in Calls : /\ acted[c] <= 1 + reopened[c]
                        /\ acted[c] > before[c] => verdict[c] = "Allow"
    /\ pc \in {"think", "done", "doneEvent"} =>
          \A c \in Issued : Settled(c) = IF c \in lost THEN 0 ELSE 1
    /\ \A c \in lost : c \notin ToExecute(Saved) \cup Answered(Saved)

(* What the world has seen and the journal has not: never more than the     *)
(* one call under way, or the admitted batch; nothing when the brain thinks *)
(* again, when the run ends by itself, or when a handle is saved.  So a     *)
(* host that comes back knows every effect but those of the last call or    *)
(* batch (loop.go yields each result before the next call is taken).        *)
UnjournalledWorkIsBounded ==
    LET unknown == Untold \ forgone
    IN  /\ Cardinality(unknown) <= IF batch = {} THEN 1 ELSE Cardinality(batch)
        /\ Valid(held) => unknown = {}
        /\ pc \in {"round", "think", "pausing", "done", "doneEvent", "error"} =>
              unknown = {}

=============================================================================
