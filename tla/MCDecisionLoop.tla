--------------------------- MODULE MCDecisionLoop ---------------------------
(* Constant values for checking the decision loop. *)
EXTENDS DecisionLoopLedger

(* Strict serial execution, with the default cap and with small ones. *)
SerialConfigs == {[maxRounds |-> n, parallel |-> FALSE, window |-> 0] : n \in {0, 1, 2}}

(* Opt-in batches, without a ceiling and one call at a time. *)
ParallelConfigs == {[maxRounds |-> 1, parallel |-> TRUE, window |-> 1],
                    [maxRounds |-> 2, parallel |-> TRUE, window |-> 0]}

(* The host may swap the configuration between a suspension and its Resume. *)
MixedConfigs == {[maxRounds |-> 2, parallel |-> FALSE, window |-> 0],
                 [maxRounds |-> 1, parallel |-> TRUE, window |-> 2]}
=============================================================================
