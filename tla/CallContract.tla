---------------------------- MODULE CallContract ----------------------------
(***************************************************************************)
(* What the decision loop promises about tool calls, without a loop: a     *)
(* chain issues calls, executes a call at most once and only while it is   *)
(* open, closes each with one answer, issues more only when none is open,  *)
(* and may be parked with its open calls and continued with the same ones. *)
(***************************************************************************)
EXTENDS Naturals

CONSTANT MaxCalls    \* bound: calls issued in one chain

VARIABLES
    phase,       \* rest, live or parked
    issued,      \* number of calls issued in this chain
    open,        \* calls without an answer
    executed     \* calls a tool has executed

cvars == <<phase, issued, open, executed>>

Init == phase = "rest" /\ issued = 0 /\ open = {} /\ executed = {}

(* A new stimulus starts a new chain; a parked one is abandoned. *)
Begin ==
    /\ phase # "live" /\ phase' = "live"
    /\ issued' = 0 /\ open' = {} /\ executed' = {}

(* The brain is asked only when it can see every answer. *)
Issue ==
    /\ phase = "live" /\ open = {}
    /\ issued' \in issued .. MaxCalls /\ open' = issued + 1 .. issued'
    /\ UNCHANGED <<phase, executed>>

Execute ==
    /\ phase = "live"
    /\ \E c \in open \ executed : executed' = executed \cup {c}
    /\ UNCHANGED <<phase, issued, open>>

(* A result, a failure or a refusal. *)
Answer ==
    /\ phase = "live"
    /\ \E c \in open : open' = open \ {c}
    /\ UNCHANGED <<phase, issued, executed>>

Park ==
    /\ phase = "live" /\ phase' = "parked"
    /\ UNCHANGED <<issued, open, executed>>

(* Continuing may bring the answer of an executed call with it. *)
Continue ==
    /\ phase = "parked" /\ phase' = "live"
    /\ \/ open' = open
       \/ \E c \in open \cap executed : open' = open \ {c}
    /\ UNCHANGED <<issued, executed>>

(* An error, a spent budget or a lost consumer gives the open calls up. *)
End ==
    /\ phase = "live" /\ phase' = "rest" /\ open' = {}
    /\ UNCHANGED <<issued, executed>>

Next == Begin \/ Issue \/ Execute \/ Answer \/ Park \/ Continue \/ End

Spec == Init /\ [][Next]_cvars
=============================================================================
