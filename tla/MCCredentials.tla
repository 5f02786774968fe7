--------------------------- MODULE MCCredentials ---------------------------
(***************************************************************************)
(* Names for the keys and the verifications of Credentials.                *)
(***************************************************************************)
EXTENDS Credentials

CONSTANTS k1, k2, v1
=============================================================================
