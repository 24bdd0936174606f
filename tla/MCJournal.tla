------------------------------ MODULE MCJournal ------------------------------
(* Constant values for checking the loop under a journalling host. *)
EXTENDS Journal

(* Both paths, the configuration swapped between a suspension and a resume. *)
JournalConfigs == {[maxRounds |-> 2, parallel |-> FALSE, window |-> 0],
                   [maxRounds |-> 2, parallel |-> TRUE, window |-> 0]}
=============================================================================
