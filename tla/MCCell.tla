------------------------------- MODULE MCCell -------------------------------
(* Constant values for checking the cell. *)
EXTENDS CellProperties, TLC

CONSTANTS r1, r2, h1, h2, act, sandbox

Symmetric == Permutations({r1, r2}) \cup Permutations({h1, h2})
=============================================================================
