----------------------------- MODULE MCSigning -----------------------------
(***************************************************************************)
(* Values of the constants of Signing for TLC.  The radices are the real   *)
(* ones; signatures are short enough for TLC's integers, of every length   *)
(* modulo 3, and begin and end at the boundaries of the encodings.         *)
(***************************************************************************)
EXTENDS Signing

CONSTANTS p1, p2, p3

MCSignatures ==
  {<<0>>, <<57>>, <<58>>} \cup {<<0, 58>>, <<1, 0>>, <<255, 255>>}
  \cup {<<0, 0, 1>>, <<0, 255, 0>>, <<255, 255, 255>>}
=============================================================================
