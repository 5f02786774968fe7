--------------------------- MODULE MCPresentation ---------------------------
(***************************************************************************)
(* Values of the constants of Presentation for TLC: processes that change  *)
(* key and charter beside the one that presents, a claim that an SD-JWT    *)
(* offers and one that it does not.                                        *)
(***************************************************************************)
EXTENDS Presentation, TLC

CONSTANTS p1, p2, nobody, k1, k2, k3, c1, s1, none, torn

Interchange == Permutations(Procs) \cup Permutations(Keys)
=============================================================================
