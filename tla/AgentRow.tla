------------------------------ MODULE AgentRow ------------------------------
(***************************************************************************)
(* The row of one agent, as readers of the registry find it: what the      *)
(* transactions of all handlers may do to it, whoever sent them and        *)
(* however they interleave.  Registry implements this module for each of   *)
(* its agents; Credentials verifies against it.                            *)
(*                                                                         *)
(* The handlers ask for 404 and 410 when they load the row.  When they     *)
(* commit it may have been revoked: rotations and reissues reach a revoked *)
(* row too, and leave it revoked.                                          *)
(***************************************************************************)
EXTENDS Integers

CONSTANTS
  Keys,  \* key pairs
  Ttl    \* CHARTER_TTL_DAYS; 0: charters do not expire

VARIABLES
  now,   \* the registry's clock
  row    \* key and validUntil of the charter, if there are any; revoked or not

\* A value that may be absent.
Opt(S) == {o \in SUBSET S : \A x, y \in o : x = y}

Rows == [key : Opt(Keys), until : Opt(Nat), revoked : BOOLEAN]

NoAgent == [key |-> {}, until |-> {}, revoked |-> FALSE]

RowInit == now = 0 /\ row = NoAgent

Enrolled == row.key # {}

\* issue_charter_vc: the lifetime is counted from now.
ProlongedLifetime == IF row.until = {} THEN {now + Ttl} ELSE {u + Ttl : u \in row.until}
Lifetime == IF Ttl > 0 THEN {now + Ttl} ELSE {}

WithCharter(r) == [r EXCEPT !.until = Lifetime]

Enrol ==
  /\ ~Enrolled
  /\ \E key \in Keys : row' = WithCharter([row EXCEPT !.key = {key}])

Rotate ==
  /\ Enrolled
  /\ \E key \in Keys : row' = WithCharter([row EXCEPT !.key = {key}])

Reissue ==
  /\ Enrolled
  /\ row' = WithCharter(row)

Revoke ==
  /\ Enrolled
  /\ row' = [row EXCEPT !.revoked = TRUE]

Issue == (Enrol \/ Rotate \/ Reissue) /\ UNCHANGED now
Withdraw == Revoke /\ UNCHANGED now
Pass == now' = now + 1 /\ UNCHANGED row

RowNext == Issue \/ Withdraw \/ Pass

RowSpec == RowInit /\ [][RowNext]_<<now, row>>
=============================================================================
