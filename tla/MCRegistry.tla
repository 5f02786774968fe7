----------------------------- MODULE MCRegistry -----------------------------
(***************************************************************************)
(* Values of the constants of Registry for TLC: a trusted operator key     *)
(* without a ceiling, a node's key with one, a stranger's key; and for     *)
(* each kind of run a collection of vouchers and of requested charters.    *)
(***************************************************************************)
EXTENDS Registry

CONSTANTS a1, a2, k1, k2, k3, c1, c2, s1, s2, o1, o2,
          root, node, stranger, t1, t2,
          ve, vf, va, vb, vc, vd, vr, vq

Yes(x) == {x}
No == {}

MCJwks ==
  [kid \in {"root", "node"} |->
     IF kid = "root" THEN [key |-> root, caps |-> No, scopes |-> No]
     ELSE [key |-> node, caps |-> Yes({c1}), scopes |-> Yes({s1})]]

Token(purpose, a) ==
  [complete |-> TRUE, kid |-> "root", signer |-> root, aud |-> "here", exp |-> Yes(2),
   sub |-> Yes(a), purpose |-> purpose, caps |-> No, scopes |-> No,
   operator |-> No, jkt |-> No]

NoClaims == [id |-> No, caps |-> No, scopes |-> No, operator |-> No]

\* One agent: enrolled by the root under an operator and with its key bound,
\* amended by the node within its ceiling, revoked by the root.
RacesPayload ==
  [v \in {ve, va, vr} |->
     CASE v = ve -> [Token("enroll", a1) EXCEPT !.caps = Yes({c1, c2}), !.scopes = Yes({s1}),
                                                !.operator = Yes(o1), !.jkt = Yes(k1)]
       [] v = va -> [Token("amend", a1) EXCEPT !.kid = "node", !.signer = node]
       [] v = vr -> Token("revoke", a1)]

RacesCharters ==
  {[NoClaims EXCEPT !.caps = Yes({c1, c2}), !.scopes = Yes({s1})],
   [NoClaims EXCEPT !.caps = Yes({c1}), !.scopes = Yes({s1}), !.operator = Yes(o2)],
   [NoClaims EXCEPT !.caps = Yes({c1})]}

\* Two agents enrolled side by side, one of them with two vouchers; it is also
\* amended, and revoked.  One of the charters has an "id" of its own.
CrowdPayload ==
  [v \in {ve, vf, vb, va, vr} |->
     CASE v = ve -> [Token("enroll", a1) EXCEPT !.caps = Yes({c1}), !.scopes = Yes({s1})]
       [] v = vf -> [Token("enroll", a2) EXCEPT !.caps = Yes({c2}), !.scopes = Yes({s1})]
       [] v = vb -> Token("enroll", a1)
       [] v = va -> [Token("amend", a1) EXCEPT !.caps = Yes({c2})]
       [] v = vr -> Token("revoke", a1)]

CrowdCharters ==
  {[NoClaims EXCEPT !.caps = Yes({c1}), !.scopes = Yes({s1})],
   [NoClaims EXCEPT !.caps = Yes({c2}), !.scopes = Yes({s1}), !.id = Yes(a1)]}

\* Amendments of one agent: by the root, once under an operator and once not, by
\* the node without a kid and beyond its ceiling, by a stranger, for elsewhere.
AmendPayload ==
  [v \in {va, vb, vc, vd, vq, vr} |->
     CASE v = va -> [Token("amend", a1) EXCEPT !.caps = Yes({c1, c2}), !.scopes = Yes({s1}),
                                               !.operator = Yes(o1)]
       [] v = vb -> [Token("amend", a1) EXCEPT !.operator = Yes(o2), !.jkt = Yes(k1)]
       [] v = vc -> [Token("amend", a1) EXCEPT !.kid = "node", !.signer = node,
                                               !.caps = Yes({c1, c2})]
       [] v = vd -> [Token("amend", a1) EXCEPT !.kid = "node", !.signer = node]
       [] v = vq -> [Token("amend", a1) EXCEPT !.signer = stranger]
       [] v = vr -> [Token("amend", a1) EXCEPT !.aud = "there"]]

AmendCharters ==
  {[NoClaims EXCEPT !.caps = Yes({c1, c2}), !.scopes = Yes({s1, s2})],
   [NoClaims EXCEPT !.caps = Yes({c1}), !.scopes = Yes({s1}), !.operator = Yes(o2)],
   [NoClaims EXCEPT !.scopes = Yes({s1})],
   [NoClaims EXCEPT !.caps = Yes({c1})]}
=============================================================================
