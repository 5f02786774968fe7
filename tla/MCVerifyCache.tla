--------------------------- MODULE MCVerifyCache ---------------------------
(***************************************************************************)
(* Names for the threads of VerifyCache.                                   *)
(***************************************************************************)
EXTENDS VerifyCache

CONSTANTS t1, t2
=============================================================================
