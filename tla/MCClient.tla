------------------------------ MODULE MCClient ------------------------------
(***************************************************************************)
(* Values of the constants of Client for TLC: a process of the agent, or   *)
(* two that share its files, a few keys and one or two capabilities.       *)
(***************************************************************************)
EXTENDS Client, TLC

CONSTANTS p1, p2, nobody, k1, k2, k3, c1, none, torn

\* Processes and keys are interchangeable.
Interchange == Permutations(Procs) \cup Permutations(Keys)
=============================================================================
