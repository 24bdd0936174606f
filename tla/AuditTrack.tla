----------------------------- MODULE AuditTrack -----------------------------
(***************************************************************************)
(* What the cell promises about the audits of one kind of swap, without a  *)
(* cell: an audit is committed once, waits in a queue, is drained with the *)
(* whole queue by a run that holds nothing yet, and then is either         *)
(* received, in the order it was drained in, or handed back in front of    *)
(* the queue together with everything else the run still holds.            *)
(***************************************************************************)
EXTENDS Naturals, Sequences

CONSTANTS
    Runs,        \* the runs that may hold audits
    Audits       \* records with a number in field new

VARIABLES
    committed,   \* the audits in the order of their swaps
    queue,       \* the ones no run holds
    held,        \* what each run has drained and not delivered
    received     \* what consumers received

avars == <<committed, queue, held, received>>

Init ==
    /\ committed = << >> /\ queue = << >> /\ received = << >>
    /\ held = [r \in Runs |-> << >>]

(* A swap stores its audit under a number larger than every earlier one. *)
Commit(audit) ==
    /\ \A i \in DOMAIN committed : committed[i].new < audit.new
    /\ committed' = Append(committed, audit) /\ queue' = Append(queue, audit)
    /\ UNCHANGED <<held, received>>

Drain(r) ==
    /\ held[r] = << >> /\ held' = [held EXCEPT ![r] = queue]
    /\ queue' = << >>
    /\ UNCHANGED <<committed, received>>

Receive(r) ==
    /\ held[r] # << >> /\ held' = [held EXCEPT ![r] = Tail(held[r])]
    /\ received' = Append(received, Head(held[r]))
    /\ UNCHANGED <<committed, queue>>

HandBack(r) ==
    /\ queue' = held[r] \o queue /\ held' = [held EXCEPT ![r] = << >>]
    /\ UNCHANGED <<committed, received>>

Next ==
    \/ \E audit \in Audits : Commit(audit)
    \/ \E r \in Runs : Drain(r) \/ Receive(r) \/ HandBack(r)

Spec == Init /\ [][Next]_avars
=============================================================================
