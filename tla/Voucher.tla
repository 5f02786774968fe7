------------------------------ MODULE Voucher ------------------------------
(***************************************************************************)
(* Operator vouchers (app/voucher.py) and the checks the registry makes of *)
(* a charter against one (_check_key_binding and _clamp in app/main.py).   *)
(* Everything here is pure: single use is the caller's business.           *)
(*                                                                         *)
(* A value that the code may leave out (Python's None, a missing JSON      *)
(* member) is a set with at most one element, empty when it is absent, so  *)
(* that `if x is not None' becomes a quantifier over x.                    *)
(***************************************************************************)
EXTENDS Integers

CONSTANTS
  Agents,         \* agent_id slugs
  Keys,           \* agents' public keys; a key stands for its RFC 7638 thumbprint
  Caps, Scopes,   \* the opaque capability and scope strings
  Operators,      \* values of the charter's "operator" claim
  OperatorKeys,   \* key pairs that may have signed a voucher
  Kids,           \* key ids, the "" of a key without one included
  Audiences,      \* DIDs a voucher may be addressed to
  RegistryDid,    \* the one of this registry
  Jwks,           \* the trusted operator JWKS: kid -> key and ceiling
  Vouchers,       \* voucher tokens, each with a jti of its own
  Payload         \* what each token says

Opt(S) == {o \in SUBSET S : \A x, y \in o : x = y}

Purposes == {"enroll", "amend", "revoke"}

\* One entry of the JWKS: the public key and its private "ceiling" member.
OperatorJwk == [key : OperatorKeys, caps : Opt(SUBSET Caps), scopes : Opt(SUBSET Scopes)]

\* The decoded token.  complete: it has three parts that decode, alg EdDSA, a
\* jti, string lists and a well-formed cnf.  signer is whoever signed it.
VoucherPayload ==
  [complete : BOOLEAN, kid : Kids, signer : OperatorKeys, aud : Audiences,
   exp : Opt(Nat), sub : Opt(Agents), purpose : Purposes,
   caps : Opt(SUBSET Caps), scopes : Opt(SUBSET Scopes),
   operator : Opt(Operators), jkt : Opt(Keys)]

ASSUME VoucherAssumption ==
  /\ RegistryDid \in Audiences
  /\ DOMAIN Jwks \subseteq Kids
  /\ \A k \in DOMAIN Jwks : Jwks[k] \in OperatorJwk
  /\ Payload \in [Vouchers -> VoucherPayload]

\* A charter as the agent submits it: "id" is a claim like any other.
Charter == [id : Opt(Agents), caps : Opt(SUBSET Caps),
            scopes : Opt(SUBSET Scopes), operator : Opt(Operators)]

----------------------------------------------------------------------------
\* verify_voucher

\* The trusted entry by the header's kid; the only one if there is but one.
SelectedKids(v) ==
  {k \in DOMAIN Jwks : \/ k = Payload[v].kid
                       \/ Payload[v].kid \notin DOMAIN Jwks /\ DOMAIN Jwks = {k}}

\* _apply_ceiling refuses a voucher that asks for more than the signing key may
\* grant; one that asks for nothing gets the ceiling.
WithinCeiling(requested, ceiling) ==
  \A r \in requested, c \in ceiling : r \subseteq c

UnderCeiling(requested, ceiling) ==
  IF requested = {} THEN ceiling ELSE requested

\* All verify_voucher asks of a token but its time: entry k vouches for it.
Endorsed(v, k) ==
  LET p == Payload[v] IN
  /\ p.complete
  /\ k \in SelectedKids(v)
  /\ Jwks[k].key = p.signer
  /\ p.aud = RegistryDid
  /\ p.sub # {}
  /\ WithinCeiling(p.caps, Jwks[k].caps)
  /\ WithinCeiling(p.scopes, Jwks[k].scopes)

\* verify_voucher returns a grant, at time now: a token without exp has none left.
Verifies(v, k, now) ==
  /\ Endorsed(v, k)
  /\ \E e \in Payload[v].exp : now < e

\* The bounds of that grant; its sub, purpose, operator and jkt are the payload's.
GrantCaps(v, k) == UnderCeiling(Payload[v].caps, Jwks[k].caps)
GrantScopes(v, k) == UnderCeiling(Payload[v].scopes, Jwks[k].scopes)

----------------------------------------------------------------------------
\* What the handlers check against a grant

\* _check_key_binding: a voucher bound to a key is good for that key only.
KeyBound(v, key) == \A j \in Payload[v].jkt : j = key

\* A registry that takes an absent claim for a narrow one.
ClampForgetsAbsent(claimed, bound, required) ==
  \A b \in bound, c \in claimed : c \subseteq b

\* _clamp: the claim, if there is one, lies within the bound, if there is one;
\* a bound that is required is not met by saying nothing.
Clamp(claimed, bound, required) ==
  \A b \in bound : /\ required => claimed # {}
                   /\ \A c \in claimed : c \subseteq b

\* The two clamps of a charter against the voucher, as register and amend make them.
WithinGrant(charter, v, k) ==
  /\ Clamp(charter.caps, GrantCaps(v, k), FALSE)
  /\ Clamp(charter.scopes, GrantScopes(v, k), TRUE)

=============================================================================
