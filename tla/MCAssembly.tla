------------------------------ MODULE MCAssembly ------------------------------
(* Constant values for checking the assembly. *)
EXTENDS Assembly, TLC

CONSTANTS h1, h2

Symmetric == Permutations({h1, h2})
=============================================================================
