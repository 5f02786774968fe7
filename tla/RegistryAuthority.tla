------------------------- MODULE RegistryAuthority -------------------------
(***************************************************************************)
(* Proofs about what Registry lets be claimed: every charter in force lies *)
(* within one spent voucher and has the operator it was enrolled under,    *)
(* the registry keeps the promise of Lifecycle, and only a handler that    *)
(* was overtaken breaks what holds when handlers take turns.               *)
(*                                                                         *)
(* A handler may commit a charter it decided on long ago, when the row and *)
(* the vouchers were others; so the invariants also speak of the charters  *)
(* that handlers are about to commit (ClaimsRooted, Decided), and of the   *)
(* vouchers they have verified (Vouched).                                  *)
(***************************************************************************)
EXTENDS RegistryProofs

----------------------------------------------------------------------------
\* The checks against a grant imply the mandate

LEMMA PermittedCaps ==
  ASSUME NEW all, NEW listed \in Opt(SUBSET all), NEW ceiling \in Opt(SUBSET all),
         WithinCeiling(listed, ceiling), NEW c \in SUBSET all,
         \A b \in UnderCeiling(listed, ceiling) : c \subseteq b
  PROVE  c \subseteq Permitted(all, listed, ceiling)
<1> SUFFICES ASSUME NEW x \in c PROVE x \in Permitted(all, listed, ceiling)
  OBVIOUS
<1>1. CASE listed = {}
  BY <1>1 DEF UnderCeiling, Permitted
<1>2. CASE listed # {}
  <2>1. PICK l : listed = {l}
    BY <1>2, OptElement DEF Opt
  <2>2. x \in l
    BY <1>2, <2>1 DEF UnderCeiling
  <2>3. QED
    BY <2>1, <2>2 DEF Permitted, WithinCeiling
<1>3. QED
  BY <1>1, <1>2

LEMMA GrantMandates ==
  ASSUME NEW v \in Vouchers, NEW k \in Kids, Endorsed(v, k),
         NEW a, Payload[v].sub = {a}, Payload[v].purpose \in {"enroll", "amend"},
         NEW charter \in Charter, WithinGrant(charter, v, k)
  PROVE  Mandates(v, a, charter)
<1> DEFINE p == Payload[v]
           j == Jwks[k]
<1>1. /\ p.caps \in Opt(SUBSET Caps) /\ p.scopes \in Opt(SUBSET Scopes)
  BY VoucherAssumption DEF VoucherPayload
<1>2. k \in DOMAIN Jwks /\ j.caps \in Opt(SUBSET Caps) /\ j.scopes \in Opt(SUBSET Scopes)
  BY VoucherAssumption DEF Endorsed, SelectedKids, OperatorJwk
<1>3. WithinCeiling(p.caps, j.caps) /\ WithinCeiling(p.scopes, j.scopes)
  BY DEF Endorsed
<1>4. CapsHeld(charter) \subseteq Permitted(Caps, p.caps, j.caps)
  <2>1. ASSUME NEW c \in charter.caps PROVE c \subseteq Permitted(Caps, p.caps, j.caps)
    <3>1. c \in SUBSET Caps
      BY <2>1 DEF Charter, Opt
    <3>2. \A b \in UnderCeiling(p.caps, j.caps) : c \subseteq b
      BY <2>1 DEF WithinGrant, Clamp, GrantCaps
    <3>3. QED
      BY <1>1, <1>2, <1>3, <3>1, <3>2, PermittedCaps
  <2>2. QED
    BY <2>1 DEF CapsHeld
<1>5. ScopesHeld(charter) \subseteq Permitted(Scopes, p.scopes, j.scopes)
  <2>1. ASSUME NEW c \in charter.scopes PROVE c \subseteq Permitted(Scopes, p.scopes, j.scopes)
    <3>1. c \in SUBSET Scopes
      BY <2>1 DEF Charter, Opt
    <3>2. \A b \in UnderCeiling(p.scopes, j.scopes) : c \subseteq b
      BY <2>1 DEF WithinGrant, Clamp, GrantScopes
    <3>3. QED
      BY <1>1, <1>2, <1>3, <3>1, <3>2, PermittedCaps
  <2>2. CASE charter.scopes = {}
    <3>1. UnderCeiling(p.scopes, j.scopes) = {}
      BY <2>2 DEF WithinGrant, Clamp, GrantScopes
    <3>2. p.scopes = {} /\ j.scopes = {}
      BY <3>1 DEF UnderCeiling
    <3>3. QED
      BY <2>2, <3>2 DEF ScopesHeld, Permitted
  <2>3. QED
    BY <2>1, <2>2 DEF ScopesHeld
<1>6. Warranted(v, k)
  BY DEF Endorsed, Warranted
<1>7. QED
  BY <1>2, <1>4, <1>5, <1>6 DEF Mandates, Warrant

\* A mandate for a charter is one for every narrower charter.
LEMMA MandateNarrows ==
  ASSUME NEW v, NEW a, NEW c, NEW d, Mandates(v, a, c),
         CapsHeld(d) \subseteq CapsHeld(c), ScopesHeld(d) \subseteq ScopesHeld(c)
  PROVE  Mandates(v, a, d)
BY DEF Mandates

LEMMA RenewalNarrows ==
  ASSUME NEW charter \in Charter, NEW current, Renewable(charter, current)
  PROVE  /\ CapsHeld(charter) \subseteq CapsHeld(current)
         /\ ScopesHeld(charter) \subseteq ScopesHeld(current)
<1>1. CapsHeld(charter) \subseteq CapsHeld(current)
  BY DEF Renewable, Clamp, CapsHeld
<1>2. ScopesHeld(charter) \subseteq Scopes
  BY DEF ScopesHeld, Charter, Opt
<1>3. ScopesHeld(charter) \subseteq ScopesHeld(current)
  BY <1>2 DEF Renewable, Clamp, ScopesHeld
<1>4. QED
  BY <1>1, <1>3

\* Charters that hold the same are mandated by the same.
SameClaims(c, d) == c.caps = d.caps /\ c.scopes = d.scopes

LEMMA MandateOfSame ==
  ASSUME NEW v, NEW a, NEW c, NEW d, Mandates(v, a, c), SameClaims(c, d)
  PROVE  Mandates(v, a, d)
BY DEF Mandates, SameClaims, CapsHeld, ScopesHeld

----------------------------------------------------------------------------
\* The vouchers of the handlers in flight

\* The handler's voucher, if it has one, was good for its agent and purpose.
Ticket(s, purpose) ==
  \A v \in s.voucher : /\ \E k \in Kids : Endorsed(v, k)
                       /\ Payload[v].sub = {s.agent}
                       /\ Payload[v].purpose = purpose

VoucherOK(s) ==
  /\ s.op = "register" => Ticket(s, "enroll") /\ (RequireVoucher => s.voucher # {})
  /\ s.op = "rotate" => s.voucher = {}
  /\ s.op = "reissue" /\ s.step = "write" => Ticket(s, "amend")
  /\ s.op = "revoke" /\ s.step = "write" =>
       Ticket(s, "revoke") /\ (RequireVoucher => s.voucher # {})

Vouched == \A t \in Busy : VoucherOK(session[t])

LEMMA GrantIsTicket ==
  ASSUME NEW vo \in Opt(Vouchers), NEW a, NEW purpose, NEW always,
         VerifyGrant(vo, a, purpose, always)
  PROVE  /\ \A v \in vo : /\ \E k \in Kids : Endorsed(v, k)
                          /\ Payload[v].sub = {a} /\ Payload[v].purpose = purpose
         /\ RequireVoucher \/ always => vo # {}
BY DEF VerifyGrant, Verifies, Opt

LEMMA TicketOfSession ==
  ASSUME NEW s, s.voucher \in Opt(Vouchers), NEW purpose, NEW always,
         VerifyGrant(s.voucher, s.agent, purpose, always)
  PROVE  Ticket(s, purpose) /\ (RequireVoucher => s.voucher # {})
BY GrantIsTicket DEF Ticket

LEMMA OpensVouched ==
  ASSUME TypeInv, NEW s, Opens(s)
  PROVE  VoucherOK(s)
<1>1. CASE OpensRegister(s)
  <2>1. PICK a \in Agents, key \in Keys, charter \in RequestedCharters, vo \in Opt(Vouchers) :
          s = Enrolling(a, key, charter, vo) /\ VerifyGrant(vo, a, "enroll", FALSE)
    BY <1>1 DEF OpensRegister
  <2>2. s.op = "register" /\ s.voucher = vo /\ s.agent = a
    BY <2>1 DEF Enrolling
  <2>3. QED
    BY <2>1, <2>2, TicketOfSession DEF VoucherOK
<1>2. CASE OpensRotate(s) \/ OpensRenew(s)
  <2>1. s.op \in {"rotate", "reissue"} /\ s.voucher = {}
    BY <1>2 DEF OpensRotate, OpensRenew, Rotating, Reissuing
  <2>2. QED
    BY <2>1 DEF VoucherOK, Ticket
<1>3. CASE OpensAmend(s) \/ OpensRevoke(s)
  <2>1. s.op \in {"reissue", "revoke"} /\ s.step = "voucher"
    BY <1>3 DEF OpensAmend, OpensRevoke, Reissuing, Revoking
  <2>2. QED
    BY <2>1 DEF VoucherOK
<1>4. QED
  BY <1>1, <1>2, <1>3 DEF Opens

LEMMA ProceedsVouched ==
  ASSUME TypeInv, NEW t \in Busy, VoucherOK(session[t]), NEW s, Proceeds(session[t], s)
  PROVE  VoucherOK(s)
<1>1. session[t] \in Session /\ session[t].voucher \in Opt(Vouchers)
  BY DEF TypeInv, TypeOK, Session
<1>2. s.op = session[t].op /\ s.agent = session[t].agent /\ s.voucher = session[t].voucher
  BY <1>1 DEF Proceeds, ProceedsRegister, ProceedsAmend, ProceedsRevoke, Session
<1>3. /\ s.op \in {"register", "reissue", "revoke"}
      /\ s.op = "reissue" => VerifyGrant(s.voucher, s.agent, "amend", TRUE)
      /\ s.op = "revoke" => VerifyGrant(s.voucher, s.agent, "revoke", FALSE)
  BY <1>2 DEF Proceeds, ProceedsRegister, ProceedsAmend, ProceedsRevoke
<1>4. s.op = "register" => Ticket(s, "enroll") /\ (RequireVoucher => s.voucher # {})
  BY <1>2 DEF VoucherOK, Ticket
<1>5. QED
  BY <1>1, <1>2, <1>3, <1>4, TicketOfSession DEF VoucherOK

LEMMA VouchedStep == TypeInv /\ Vouched /\ [Next]_vars => Vouched'
<1> SUFFICES ASSUME TypeInv, Vouched, [Next]_vars PROVE Vouched'
  OBVIOUS
<1>1. ASSUME NEW t \in Threads, NEW s, Hold(t, s), VoucherOK(s) PROVE Vouched'
  BY <1>1, SessionsAfterHold DEF Vouched
<1>2. ASSUME NEW t \in Busy, Close(t) PROVE Vouched'
  BY <1>2, SessionsAfterClose DEF Vouched
<1>3. CASE UNCHANGED session
  BY <1>3 DEF Vouched, Busy
<1>4. Busy \subseteq Threads
  BY DEF TypeInv, TypeOK
<1>5. QED
  BY <1>1, <1>2, <1>3, <1>4, StepCases, WritesClose, OpensVouched, ProceedsVouched DEF Vouched

----------------------------------------------------------------------------
\* The charters about to be committed

Committing(s) == s.step = "write" /\ s.op # "revoke"

\* The voucher that the handler's own transaction will spend, or if it has none one
\* that is spent, mandates what the handler is about to commit.
Rooted(s) ==
  \E v \in IF s.voucher = {} THEN consumed ELSE s.voucher : Mandates(v, s.agent, s.claims)

ClaimsRooted == RequireVoucher => \A t \in Busy : Committing(session[t]) => Rooted(session[t])

\* Both at once: what is in force and what is about to be.
AuthorityInv == TypeInv /\ Vouched /\ AuthorityRooted /\ ClaimsRooted

LEMMA OpensRooted ==
  ASSUME TypeInv, AuthorityRooted, RequireVoucher, NEW s, Opens(s), Committing(s)
  PROVE  s.voucher = {} /\ \E v \in consumed : Mandates(v, s.agent, s.claims)
<1>1. ASSUME NEW a \in Registered
      PROVE  /\ rows[a].charter \in CharterVc
             /\ rows[a].charter.operator \in Opt(Operators)
             /\ \E v \in consumed : Mandates(v, a, rows[a].charter)
  BY <1>1 DEF TypeInv, TypeOK, AuthorityRooted, Row, CharterVc
<1>2. CASE OpensRotate(s)
  <2>1. PICK a \in Registered, key \in Keys, signer \in Keys : s = Rotating(a, key, signer)
    BY <1>2 DEF OpensRotate
  <2>2. s.agent = a /\ s.voucher = {} /\ SameClaims(rows[a].charter, s.claims)
    BY <2>1 DEF Rotating, SameClaims, ClaimsOf
  <2>3. QED
    BY <1>1, <2>2, MandateOfSame
<1>3. CASE OpensRenew(s)
  <2>1. PICK a \in Registered, signer \in Keys, charter \in RequestedCharters :
          /\ s = Reissuing("write", a, Reissuable(charter, rows[a].charter.operator), signer, {})
          /\ Renewable(charter, rows[a].charter)
    BY <1>3 DEF OpensRenew
  <2>2. charter \in Charter
    BY RegistryAssumption
  <2>3. s.agent = a /\ s.voucher = {} /\ SameClaims(charter, s.claims)
    BY <1>1, <2>1, <2>2, ReissuableType DEF Reissuing, SameClaims
  <2>4. PICK v \in consumed : Mandates(v, a, rows[a].charter)
    BY <1>1
  <2>5. Mandates(v, a, charter)
    BY <2>1, <2>2, <2>4, RenewalNarrows, MandateNarrows
  <2>6. QED
    BY <2>3, <2>5, MandateOfSame
<1>4. s.step = "write"
  BY DEF Committing
<1>5. ~OpensRegister(s)
  <2>1. \A a, key, charter, vo : Enrolling(a, key, charter, vo).step = "select"
    BY DEF Enrolling
  <2>2. QED
    BY <1>4, <2>1 DEF OpensRegister
<1>6. ~OpensAmend(s)
  BY <1>4 DEF OpensAmend, Reissuing
<1>7. ~OpensRevoke(s)
  BY <1>4 DEF OpensRevoke, Revoking
<1>8. QED
  BY <1>2, <1>3, <1>5, <1>6, <1>7 DEF Opens

LEMMA ProceedsRooted ==
  ASSUME TypeInv, RequireVoucher, NEW t \in Busy, VoucherOK(session[t]),
         NEW s, Proceeds(session[t], s), Committing(s)
  PROVE  \E v \in s.voucher : Mandates(v, s.agent, s.claims)
<1> DEFINE r == session[t]
<1>1. /\ r \in Session /\ r.voucher \in Opt(Vouchers) /\ r.claims \in Charter
  BY DEF TypeInv, TypeOK, Session
<1>2. /\ s.op = r.op /\ s.agent = r.agent /\ s.voucher = r.voucher
      /\ SameClaims(r.claims, s.claims)
      /\ WithinVoucher(r.claims, r.voucher)
  <2>1. CASE ProceedsRegister(r, s)
    <3>1. SameClaims(r.claims, Pinned(r.claims, r.voucher))
      BY <1>1 DEF Pinned, SameClaims, Charter
    <3>2. QED
      BY <1>1, <2>1, <3>1 DEF ProceedsRegister, Session
  <2>2. CASE ProceedsAmend(r, s)
    <3>1. PICK operator \in Opt(Operators) :
            /\ WithinVoucher(r.claims, r.voucher)
            /\ s = [r EXCEPT !.step = "write", !.claims = Reissuable(r.claims, operator)]
      BY <2>2 DEF ProceedsAmend
    <3>2. SameClaims(r.claims, Reissuable(r.claims, operator))
      BY <1>1 DEF Reissuable, SameClaims, Charter
    <3>3. QED
      BY <1>1, <3>1, <3>2 DEF Session
  <2>3. ~ProceedsRevoke(r, s)
    BY <1>1 DEF ProceedsRevoke, Committing, Session
  <2>4. QED
    BY <2>1, <2>2, <2>3 DEF Proceeds
<1>3. VoucherOK(s)
  BY ProceedsVouched
<1>4. r.voucher # {} /\ (Ticket(s, "enroll") \/ Ticket(s, "amend"))
  <2>1. CASE r.op = "register"
    BY <1>2, <1>3, <2>1 DEF VoucherOK
  <2>2. CASE r.op = "reissue"
    <3>1. VerifyGrant(r.voucher, r.agent, "amend", TRUE)
      BY <2>2 DEF Proceeds, ProceedsRegister, ProceedsAmend, ProceedsRevoke
    <3>2. r.voucher # {}
      BY <1>1, <3>1, GrantIsTicket
    <3>3. QED
      BY <1>2, <1>3, <2>2, <3>2 DEF VoucherOK, Committing
  <2>3. r.op \in {"register", "reissue"}
    BY <1>2 DEF Proceeds, ProceedsRegister, ProceedsAmend, ProceedsRevoke, Committing
  <2>4. QED
    BY <2>1, <2>2, <2>3
<1>5. PICK v \in r.voucher : TRUE
  BY <1>4
<1>6. v \in Vouchers
  BY <1>1, <1>5 DEF Opt
<1>7. PICK k \in Kids : Endorsed(v, k)
  BY <1>2, <1>4, <1>5 DEF Ticket
<1>8. Payload[v].sub = {s.agent} /\ Payload[v].purpose \in {"enroll", "amend"}
  BY <1>2, <1>4, <1>5 DEF Ticket
<1>9. WithinGrant(r.claims, v, k)
  BY <1>2, <1>5, <1>7 DEF WithinVoucher, Endorsed
<1>10. Mandates(v, s.agent, r.claims)
  BY <1>1, <1>6, <1>7, <1>8, <1>9, GrantMandates
<1>11. QED
  BY <1>2, <1>5, <1>10, MandateOfSame

----------------------------------------------------------------------------
\* Steps

LEMMA ClaimsRootedStep ==
  ASSUME AuthorityInv, [Next]_vars, consumed \subseteq consumed'
  PROVE  ClaimsRooted'
<1> SUFFICES ASSUME RequireVoucher, NEW u \in Busy', Committing(session'[u])
             PROVE  \E v \in IF session'[u].voucher = {} THEN consumed'
                             ELSE session'[u].voucher :
                      Mandates(v, session'[u].agent, session'[u].claims)
  BY DEF ClaimsRooted, Rooted, Committing, Mandates, Warrant, Warranted
<1> DEFINE Goal == \E v \in IF session'[u].voucher = {} THEN consumed'
                            ELSE session'[u].voucher :
                     Mandates(v, session'[u].agent, session'[u].claims)
<1>1. CASE u \in Busy /\ session'[u] = session[u]
  BY <1>1 DEF AuthorityInv, ClaimsRooted, Rooted
<1>2. ASSUME NEW t \in Threads, NEW s, Hold(t, s), Opens(s)
      PROVE  (u \in Busy /\ session'[u] = session[u]) \/ Goal
  <2>1. \/ u \in Busy /\ session'[u] = session[u]
        \/ session'[u] = s
    BY <1>2, SessionsAfterHold DEF AuthorityInv
  <2>2. QED
    BY <1>2, <2>1, OpensRooted DEF AuthorityInv
<1>3. ASSUME NEW t \in Busy, NEW s, Hold(t, s), Proceeds(session[t], s)
      PROVE  (u \in Busy /\ session'[u] = session[u]) \/ Goal
  <2>1. t \in Threads /\ VoucherOK(session[t])
    BY DEF AuthorityInv, Vouched, TypeInv, TypeOK
  <2>2. \/ u \in Busy /\ session'[u] = session[u]
        \/ session'[u] = s
    BY <1>3, <2>1, SessionsAfterHold DEF AuthorityInv
  <2>3. QED
    BY <1>3, <2>1, <2>2, ProceedsRooted DEF AuthorityInv
<1>4. ASSUME NEW t \in Busy, Close(t)
      PROVE  u \in Busy /\ session'[u] = session[u]
  BY <1>4, SessionsAfterClose DEF AuthorityInv
<1>5. CASE UNCHANGED session
  BY <1>1, <1>5 DEF Busy
<1> HIDE DEF Goal
<1>6. QED
  BY <1>1, <1>2, <1>3, <1>4, <1>5, StepCases, WritesClose DEF AuthorityInv, Goal

\* The table stays rooted when every charter in it is an old one or one for which
\* a voucher is now spent.
LEMMA RowsRooted ==
  ASSUME AuthorityRooted, consumed \subseteq consumed',
         RequireVoucher =>
           \A a \in Registered' :
             \/ a \in Registered /\ SameClaims(rows[a].charter, rows'[a].charter)
             \/ \E v \in consumed' : \E c : Mandates(v, a, c) /\ SameClaims(c, rows'[a].charter)
  PROVE  AuthorityRooted'
<1> SUFFICES ASSUME RequireVoucher, NEW a \in Registered'
             PROVE  \E v \in consumed' : Mandates(v, a, rows'[a].charter)
  BY DEF AuthorityRooted
<1>1. CASE a \in Registered /\ SameClaims(rows[a].charter, rows'[a].charter)
  BY <1>1, MandateOfSame DEF AuthorityRooted
<1>2. CASE \E v \in consumed' : \E c : Mandates(v, a, c) /\ SameClaims(c, rows'[a].charter)
  BY <1>2, MandateOfSame
<1>3. QED
  BY <1>1, <1>2

LEMMA CommitRooted ==
  ASSUME AuthorityInv, RequireVoucher, NEW t \in Busy, Committing(session[t]),
         consumed' = consumed \cup session[t].voucher
  PROVE  \E v \in consumed' : Mandates(v, session[t].agent, session[t].claims)
BY DEF AuthorityInv, ClaimsRooted, Rooted

LEMMA RegisterRooted ==
  ASSUME AuthorityInv, NEW t \in Threads, RegisterWrite(t)
  PROVE  consumed \subseteq consumed' /\ AuthorityRooted'
<1> DEFINE s == session[t]
<1>1. t \in Busy /\ Committing(s) /\ s \in Session
  BY DEF RegisterWrite, At, Committing, AuthorityInv, TypeInv, TypeOK
<1>2. consumed' = consumed \cup s.voucher
  BY DEF RegisterWrite, Consume
<1>3. /\ Registered' = Registered \cup {s.agent}
      /\ \A b \in Registered : rows'[b] = rows[b]
  BY RegisterWriteType DEF AuthorityInv
<1>4. rows'[s.agent].charter = IssueCharter(s.agent, s.claims, NextRowId)
  BY DEF RegisterWrite, Put
<1>5. SameClaims(s.claims, rows'[s.agent].charter)
  BY <1>4 DEF IssueCharter, SameClaims
<1>6. QED
  <2>1. \A b \in Registered : SameClaims(rows[b].charter, rows'[b].charter)
    BY <1>3 DEF SameClaims
  <2>2. RequireVoucher => \E v \in consumed' : Mandates(v, s.agent, s.claims)
    BY <1>1, <1>2, CommitRooted
  <2>3. QED
    BY <1>2, <1>3, <1>5, <2>1, <2>2, RowsRooted DEF AuthorityInv

\* Rotation and reissue put the claims the handler holds into the agent's row.
LEMMA ReplaceRooted ==
  ASSUME AuthorityInv, NEW t \in Threads, RotateWrite(t) \/ ReissueWrite(t)
  PROVE  consumed \subseteq consumed' /\ AuthorityRooted'
<1> DEFINE s == session[t]
<1>1. t \in Busy /\ Committing(s) /\ s.op # "register"
  BY DEF RotateWrite, ReissueWrite, At, Committing
<1>2. s.agent \in Registered /\ VoucherOK(s)
  BY <1>1 DEF AuthorityInv, TypeInv, SessionOK, Vouched
<1>3. consumed' = consumed \cup s.voucher
  <2>1. CASE RotateWrite(t)
    BY <1>2, <2>1 DEF RotateWrite, At, VoucherOK
  <2>2. CASE ReissueWrite(t)
    BY <2>2 DEF ReissueWrite, Consume
  <2>3. QED
    BY <2>1, <2>2
<1>4. \E r : /\ rows' = [rows EXCEPT ![s.agent] = r]
             /\ r.charter = IssueCharter(s.agent, s.claims, SeenRow(s).index)
  <2>1. /\ Rotated(s).charter = IssueCharter(s.agent, s.claims, SeenRow(s).index)
        /\ Reissued(s).charter = IssueCharter(s.agent, s.claims, SeenRow(s).index)
    BY <1>1, WrittenRow DEF AuthorityInv
  <2>2. QED
    BY <2>1 DEF RotateWrite, ReissueWrite
<1>5. PICK r : /\ rows' = [rows EXCEPT ![s.agent] = r]
               /\ r.charter = IssueCharter(s.agent, s.claims, SeenRow(s).index)
  BY <1>4
<1>6. /\ Registered' = Registered
      /\ \A b \in Registered : rows'[b] = IF b = s.agent THEN r ELSE rows[b]
  BY <1>5 DEF AuthorityInv, TypeInv, TypeOK, Registered
<1>7. SameClaims(s.claims, rows'[s.agent].charter)
  BY <1>2, <1>5, <1>6 DEF IssueCharter, SameClaims
<1>8. QED
  <2>1. \A b \in Registered \ {s.agent} : SameClaims(rows[b].charter, rows'[b].charter)
    BY <1>6 DEF SameClaims
  <2>2. RequireVoucher => \E v \in consumed' : Mandates(v, s.agent, s.claims)
    BY <1>1, <1>3, CommitRooted
  <2>3. QED
    BY <1>3, <1>6, <1>7, <2>1, <2>2, RowsRooted DEF AuthorityInv

LEMMA RevokeRooted ==
  ASSUME AuthorityInv, NEW t \in Threads, RevokeWrite(t)
  PROVE  consumed \subseteq consumed' /\ AuthorityRooted'
<1>1. consumed \subseteq consumed'
  BY DEF RevokeWrite, Consume
<1>2. /\ Registered' = Registered
      /\ \A b \in Registered : rows[b] \in Row /\ rows'[b].charter = rows[b].charter
  BY DEF RevokeWrite, AuthorityInv, TypeInv, TypeOK, Registered, Row
<1>3. QED
  BY <1>1, <1>2, RowsRooted DEF AuthorityInv, SameClaims

THEOREM AuthorityStep == AuthorityInv /\ [Next]_vars => AuthorityInv'
<1> SUFFICES ASSUME AuthorityInv, [Next]_vars PROVE AuthorityInv'
  OBVIOUS
<1>1. consumed \subseteq consumed' /\ AuthorityRooted'
  <2>1. ASSUME NEW t \in Threads, Writes(t)
        PROVE  consumed \subseteq consumed' /\ AuthorityRooted'
    BY <2>1, RegisterRooted, ReplaceRooted, RevokeRooted DEF Writes
  <2>2. CASE Quiet
    BY <2>2 DEF Quiet, AuthorityInv, AuthorityRooted, Registered
  <2>3. QED
    BY <2>1, <2>2, StepCases DEF AuthorityInv
<1>2. ClaimsRooted'
  BY <1>1, ClaimsRootedStep
<1>3. TypeInv' /\ Vouched'
  BY NextType, VouchedStep DEF AuthorityInv
<1>4. QED
  BY <1>1, <1>2, <1>3 DEF AuthorityInv

\* In every reachable state, the charter in force for an agent lies within one
\* voucher that was spent on it and within the ceiling of the key that signed it.
THEOREM CharterWithinVoucher == Spec => []AuthorityRooted
<1>1. Init => AuthorityInv
  BY InitType DEF Init, AuthorityInv, Vouched, AuthorityRooted, ClaimsRooted, Busy, Registered, Empty
<1>2. AuthorityInv => AuthorityRooted
  BY DEF AuthorityInv
<1>3. QED
  BY <1>1, <1>2, AuthorityStep, PTL DEF Spec

----------------------------------------------------------------------------
\* The pinned operator

\* Voucher v, once spent, pins the operator of agent a.
Pins(v, a) ==
  Payload[v].purpose = "enroll" /\ Payload[v].sub = {a} /\ Payload[v].operator # {}

\* A handler of a pinned agent remembers the operator, and will sign no other.
SessionsPinned ==
  \A t \in Busy : \A v \in consumed :
    session[t].op # "register" /\ Pins(v, session[t].agent) =>
      /\ SeenRow(session[t]).charter.operator = Payload[v].operator
      /\ Committing(session[t]) => session[t].claims.operator = Payload[v].operator

\* An enrolment about to be committed has taken the operator from its voucher.
EnrolmentsPinned ==
  \A t \in Busy : session[t].op = "register" /\ session[t].step = "write" =>
    \A v \in session[t].voucher :
      Payload[v].operator # {} => session[t].claims.operator = Payload[v].operator

\* Only its own enrolment spends the voucher that pins an agent.
SpentOnEnrolled == \A v \in consumed, a \in Agents : Pins(v, a) => a \in Registered

PinInv ==
  /\ TypeInv /\ Vouched
  /\ SessionsPinned /\ EnrolmentsPinned /\ SpentOnEnrolled /\ OperatorPinned

\* Where a voucher that pins comes from.
LEMMA NewlyPinned ==
  ASSUME PinInv, [Next]_vars, NEW v \in consumed', v \notin consumed, NEW a, Pins(v, a)
  PROVE  \E t \in Threads : /\ RegisterWrite(t)
                            /\ v \in session[t].voucher /\ a = session[t].agent
                            /\ a \notin Registered
<1>1. ~Quiet
  BY DEF Quiet
<1>2. PICK t \in Threads : Writes(t)
  BY <1>1, StepCases DEF PinInv
<1>3. t \in Busy /\ VoucherOK(session[t])
  BY <1>2, WritesClose DEF PinInv, Vouched
<1>4. CASE RegisterWrite(t)
  <2>1. /\ v \in session[t].voucher /\ session[t].op = "register"
        /\ session[t].agent \notin Registered
    BY <1>4 DEF RegisterWrite, Consume, At
  <2>2. a = session[t].agent
    BY <1>3, <2>1 DEF VoucherOK, Ticket, Pins
  <2>3. QED
    BY <1>4, <2>1, <2>2
<1>5. ~RotateWrite(t)
  BY DEF RotateWrite
<1>6. ~ReissueWrite(t)
  <2>1. ReissueWrite(t) => v \in session[t].voucher /\ Ticket(session[t], "amend")
    BY <1>3 DEF ReissueWrite, Consume, At, VoucherOK
  <2>2. QED
    BY <2>1 DEF Ticket, Pins
<1>7. ~RevokeWrite(t)
  <2>1. RevokeWrite(t) => v \in session[t].voucher /\ Ticket(session[t], "revoke")
    BY <1>3 DEF RevokeWrite, Consume, At, VoucherOK
  <2>2. QED
    BY <2>1 DEF Ticket, Pins
<1>8. QED
  BY <1>2, <1>4, <1>5, <1>6, <1>7 DEF Writes

\* A handler that opens takes over the operator of the charter it has read.
LEMMA OpensPinned ==
  ASSUME TypeInv, OperatorPinned, NEW s, Opens(s), s.op # "register",
         NEW v \in consumed, Pins(v, s.agent)
  PROVE  /\ SeenRow(s).charter.operator = Payload[v].operator
         /\ Committing(s) => s.claims.operator = Payload[v].operator
<1>1. s.agent \in Registered /\ SeenRow(s) = rows[s.agent]
  BY SeenOfOpening
<1>2. rows[s.agent].charter.operator = Payload[v].operator
  BY <1>1 DEF OperatorPinned, Pins
<1>3. ASSUME Committing(s) PROVE s.claims.operator = rows[s.agent].charter.operator
  <2>1. ~OpensRegister(s) /\ ~OpensAmend(s) /\ ~OpensRevoke(s)
    <3>1. \A a, key, charter, vo : Enrolling(a, key, charter, vo).op = "register"
      BY DEF Enrolling
    <3>2. ~OpensRegister(s)
      BY <3>1 DEF OpensRegister
    <3>3. ~OpensAmend(s)
      BY <1>3 DEF OpensAmend, Reissuing, Committing
    <3>4. ~OpensRevoke(s)
      BY <1>3 DEF OpensRevoke, Revoking, Committing
    <3>5. QED
      BY <3>2, <3>3, <3>4
  <2>2. CASE OpensRotate(s)
    BY <2>2 DEF OpensRotate, Rotating, ClaimsOf
  <2>3. CASE OpensRenew(s)
    <3>1. PICK a \in Registered, signer \in Keys, charter \in RequestedCharters :
            s = Reissuing("write", a, Reissuable(charter, rows[a].charter.operator),
                          signer, {})
      BY <2>3 DEF OpensRenew
    <3>2. charter \in Charter /\ rows[a].charter.operator \in Opt(Operators)
      BY <3>1, RegistryAssumption DEF TypeInv, TypeOK, Row, CharterVc
    <3>3. QED
      BY <3>1, <3>2, ReissuableType DEF Reissuing
  <2>4. QED
    BY <2>1, <2>2, <2>3 DEF Opens
<1>4. QED
  BY <1>1, <1>2, <1>3

\* An amendment of a pinned agent is refused, or keeps its operator.
LEMMA ProceedsPinned ==
  ASSUME PinInv, NEW t \in Busy, NEW s, Proceeds(session[t], s), s.op # "register",
         NEW v \in consumed, Pins(v, s.agent)
  PROVE  /\ SeenRow(s).charter.operator = Payload[v].operator
         /\ Committing(s) => s.claims.operator = Payload[v].operator
<1> DEFINE r == session[t]
<1>1. /\ s.op = r.op /\ s.agent = r.agent /\ SeenRow(s) = SeenRow(r)
  BY SeenOfProceeding DEF PinInv
<1>2. SeenRow(r).charter.operator = Payload[v].operator
  BY <1>1 DEF PinInv, SessionsPinned
<1>3. ASSUME Committing(s) PROVE s.claims.operator = Payload[v].operator
  <2>1. ProceedsAmend(r, s)
    BY <1>1, <1>3 DEF Proceeds, ProceedsRegister, ProceedsRevoke, Committing
  <2>2. r \in Session
    BY DEF PinInv, TypeInv, TypeOK
  <2>3. PICK operator \in Opt(Operators) :
          /\ SeenRow(r).charter.operator \in {{}, operator}
          /\ s = [r EXCEPT !.step = "write", !.claims = Reissuable(r.claims, operator)]
    BY <2>1 DEF ProceedsAmend
  <2>4. operator = Payload[v].operator
    BY <1>2, <2>3 DEF Pins
  <2>5. s.claims = Reissuable(r.claims, operator) /\ r.claims \in Charter
    BY <2>2, <2>3 DEF Session
  <2>6. QED
    BY <2>4, <2>5, ReissuableType
<1>4. QED
  BY <1>1, <1>2, <1>3

LEMMA SessionsPinnedStep ==
  ASSUME PinInv, [Next]_vars
  PROVE  SessionsPinned'
<1> SUFFICES ASSUME NEW u \in Busy', NEW v \in consumed',
                    session'[u].op # "register", Pins(v, session'[u].agent)
             PROVE  /\ SeenRow(session'[u]).charter.operator = Payload[v].operator
                    /\ Committing(session'[u]) =>
                         session'[u].claims.operator = Payload[v].operator
  BY DEF SessionsPinned, SeenRow, Committing, Pins
<1>1. CASE u \in Busy /\ session'[u] = session[u]
  <2>1. session[u].agent \in Registered
    BY <1>1 DEF PinInv, TypeInv, SessionOK
  <2>2. v \in consumed
    BY <1>1, <2>1, NewlyPinned
  <2>3. QED
    BY <1>1, <2>2 DEF PinInv, SessionsPinned
<1>2. Quiet => v \in consumed
  BY DEF Quiet
<1>3. ASSUME NEW t \in Threads, NEW s, Hold(t, s), Opens(s), Quiet
      PROVE  \/ u \in Busy /\ session'[u] = session[u]
             \/ /\ SeenRow(session'[u]).charter.operator = Payload[v].operator
                /\ Committing(session'[u]) =>
                     session'[u].claims.operator = Payload[v].operator
  <2>1. \/ u \in Busy /\ session'[u] = session[u]
        \/ session'[u] = s
    BY <1>3, SessionsAfterHold DEF PinInv
  <2>2. QED
    BY <1>2, <1>3, <2>1, OpensPinned DEF PinInv
<1>4. ASSUME NEW t \in Busy, NEW s, Hold(t, s), Proceeds(session[t], s), Quiet
      PROVE  \/ u \in Busy /\ session'[u] = session[u]
             \/ /\ SeenRow(session'[u]).charter.operator = Payload[v].operator
                /\ Committing(session'[u]) =>
                     session'[u].claims.operator = Payload[v].operator
  <2>1. \/ u \in Busy /\ session'[u] = session[u]
        \/ session'[u] = s
    BY <1>4, SessionsAfterHold DEF PinInv, TypeInv, TypeOK
  <2>2. QED
    BY <1>2, <1>4, <2>1, ProceedsPinned
<1>5. ASSUME NEW t \in Busy, Close(t)
      PROVE  u \in Busy /\ session'[u] = session[u]
  BY <1>5, SessionsAfterClose DEF PinInv
<1>6. CASE UNCHANGED session
  BY <1>1, <1>6 DEF Busy
<1>7. QED
  BY <1>1, <1>3, <1>4, <1>5, <1>6, StepCases, WritesClose DEF PinInv

LEMMA EnrolmentsPinnedStep ==
  ASSUME PinInv, [Next]_vars
  PROVE  EnrolmentsPinned'
<1> DEFINE Good(s) == s.op = "register" /\ s.step = "write" =>
             \A v \in s.voucher :
               Payload[v].operator # {} => s.claims.operator = Payload[v].operator
<1>1. ASSUME NEW t \in Threads, NEW s, Hold(t, s), Good(s) PROVE EnrolmentsPinned'
  BY <1>1, SessionsAfterHold DEF PinInv, EnrolmentsPinned
<1>2. ASSUME NEW t \in Busy, Close(t) PROVE EnrolmentsPinned'
  BY <1>2, SessionsAfterClose DEF PinInv, EnrolmentsPinned
<1>3. CASE UNCHANGED session
  BY <1>3 DEF PinInv, EnrolmentsPinned, Busy
<1>4. ASSUME NEW s, Opens(s) PROVE Good(s)
  <2>1. OpensRegister(s) => s.step = "select"
    BY DEF OpensRegister, Enrolling
  <2>2. OpensRotate(s) => s.op = "rotate"
    BY DEF OpensRotate, Rotating
  <2>3. OpensRenew(s) \/ OpensAmend(s) => s.op = "reissue"
    BY DEF OpensRenew, OpensAmend, Reissuing
  <2>4. OpensRevoke(s) => s.op = "revoke"
    BY DEF OpensRevoke, Revoking
  <2>5. QED
    BY <1>4, <2>1, <2>2, <2>3, <2>4 DEF Opens
<1>5. ASSUME NEW t \in Busy, NEW s, Proceeds(session[t], s) PROVE Good(s)
  <2>1. session[t] \in Session /\ s.op = session[t].op
    BY <1>5, SeenOfProceeding DEF PinInv, TypeInv, TypeOK
  <2>2. CASE ProceedsRegister(session[t], s)
    <3>1. /\ s.claims = Pinned(session[t].claims, session[t].voucher)
          /\ s.voucher = session[t].voucher
      BY <2>1, <2>2 DEF ProceedsRegister, Session
    <3>2. session[t].claims \in Charter /\ session[t].voucher \in Opt(Vouchers)
      BY <2>1 DEF Session
    <3>3. QED
      BY <3>1, <3>2, PinnedType
  <2>3. CASE ProceedsAmend(session[t], s) \/ ProceedsRevoke(session[t], s)
    BY <2>1, <2>3 DEF ProceedsAmend, ProceedsRevoke
  <2>4. QED
    BY <1>5, <2>2, <2>3 DEF Proceeds
<1>6. Busy \subseteq Threads
  BY DEF PinInv, TypeInv, TypeOK
<1> HIDE DEF Good
<1>7. QED
  BY <1>1, <1>2, <1>3, <1>4, <1>5, <1>6, StepCases, WritesClose DEF PinInv

LEMMA SpentOnEnrolledStep ==
  ASSUME PinInv, [Next]_vars
  PROVE  SpentOnEnrolled'
<1> SUFFICES ASSUME NEW v \in consumed', NEW a \in Agents, Pins(v, a)
             PROVE  a \in Registered'
  BY DEF SpentOnEnrolled, Pins
<1>1. CASE v \in consumed
  BY <1>1, WriteEffect DEF PinInv, SpentOnEnrolled
<1>2. CASE v \notin consumed
  BY <1>2, NewlyPinned, RegisterWriteType DEF PinInv
<1>3. QED
  BY <1>1, <1>2

\* What a transaction leaves in the rows of pinned agents.
LEMMA RegisterPinned ==
  ASSUME PinInv, NEW t \in Threads, RegisterWrite(t)
  PROVE  OperatorPinned'
<1> DEFINE s == session[t]
<1>1. /\ Registered' = Registered \cup {s.agent} /\ s.agent \notin Registered
      /\ \A b \in Registered : rows'[b] = rows[b]
  BY RegisterWriteType DEF PinInv, RegisterWrite
<1>2. rows'[s.agent].charter.operator = s.claims.operator
  BY DEF RegisterWrite, Put, IssueCharter
<1>3. t \in Busy /\ s.op = "register" /\ s.step = "write"
      /\ consumed' = consumed \cup s.voucher /\ s.agent \in Agents
  BY DEF RegisterWrite, At, Consume, PinInv, TypeInv, TypeOK, Session
<1>4. Ticket(s, "enroll")
  BY <1>3 DEF PinInv, Vouched, VoucherOK
<1> SUFFICES ASSUME NEW a \in Registered', NEW v \in consumed', Pins(v, a)
             PROVE  rows'[a].charter.operator = Payload[v].operator
  BY DEF OperatorPinned, Pins
<1>5. CASE a = s.agent
  <2>1. v \in s.voucher
    BY <1>1, <1>3, <1>5 DEF PinInv, SpentOnEnrolled
  <2>2. QED
    BY <1>2, <1>3, <1>5, <2>1 DEF PinInv, EnrolmentsPinned, Pins
<1>6. CASE a # s.agent
  <2>1. a \in Registered /\ rows'[a] = rows[a]
    BY <1>1, <1>6
  <2>2. v \in consumed
    BY <1>3, <1>4, <1>6 DEF Ticket, Pins
  <2>3. QED
    BY <2>1, <2>2 DEF PinInv, OperatorPinned, Pins
<1>7. QED
  BY <1>5, <1>6

LEMMA ReplacePinned ==
  ASSUME PinInv, [Next]_vars, NEW t \in Threads, RotateWrite(t) \/ ReissueWrite(t)
  PROVE  OperatorPinned'
<1> DEFINE s == session[t]
<1>1. /\ t \in Busy /\ s.op # "register" /\ Committing(s) /\ Registered' = Registered
  BY RotateWriteType, ReissueWriteType
     DEF RotateWrite, ReissueWrite, At, Committing, PinInv
<1>2. /\ Rotated(s).charter = IssueCharter(s.agent, s.claims, SeenRow(s).index)
      /\ Reissued(s).charter = IssueCharter(s.agent, s.claims, SeenRow(s).index)
  BY <1>1, WrittenRow DEF PinInv
<1>3. PICK r : /\ rows' = [rows EXCEPT ![s.agent] = r]
               /\ r.charter = IssueCharter(s.agent, s.claims, SeenRow(s).index)
  BY <1>2 DEF RotateWrite, ReissueWrite
<1>4. \A b \in Registered : rows'[b] = IF b = s.agent THEN r ELSE rows[b]
  BY <1>3 DEF PinInv, TypeInv, TypeOK
<1>5. r.charter.operator = s.claims.operator
  BY <1>3 DEF IssueCharter
<1> SUFFICES ASSUME NEW a \in Registered', NEW v \in consumed', Pins(v, a)
             PROVE  rows'[a].charter.operator = Payload[v].operator
  BY DEF OperatorPinned, Pins
<1>6. v \in consumed
  BY <1>1, NewlyPinned
<1>7. QED
  BY <1>1, <1>4, <1>5, <1>6 DEF PinInv, OperatorPinned, SessionsPinned, Pins

LEMMA RevokePinned ==
  ASSUME PinInv, [Next]_vars, NEW t \in Threads, RevokeWrite(t)
  PROVE  OperatorPinned'
<1>1. /\ Registered' = Registered
      /\ \A b \in Registered : rows'[b].charter = rows[b].charter
  BY RevokeWriteType DEF RevokeWrite, PinInv, TypeInv, TypeOK, Registered, Row
<1> SUFFICES ASSUME NEW a \in Registered', NEW v \in consumed', Pins(v, a)
             PROVE  rows'[a].charter.operator = Payload[v].operator
  BY DEF OperatorPinned, Pins
<1>2. v \in consumed
  BY <1>1, NewlyPinned
<1>3. QED
  BY <1>1, <1>2 DEF PinInv, OperatorPinned, Pins

LEMMA PinStep == PinInv /\ [Next]_vars => PinInv'
<1> SUFFICES ASSUME PinInv, [Next]_vars PROVE PinInv'
  OBVIOUS
<1>1. OperatorPinned'
  <2>1. ASSUME NEW t \in Threads, Writes(t) PROVE OperatorPinned'
    BY <2>1, RegisterPinned, ReplacePinned, RevokePinned DEF Writes
  <2>2. CASE Quiet
    BY <2>2 DEF Quiet, PinInv, OperatorPinned, Registered
  <2>3. QED
    BY <2>1, <2>2, StepCases DEF PinInv
<1>2. TypeInv' /\ Vouched'
  BY NextType, VouchedStep DEF PinInv
<1>3. QED
  BY <1>1, <1>2, SessionsPinnedStep, EnrolmentsPinnedStep, SpentOnEnrolledStep DEF PinInv

\* The operator of an enrolment voucher stays in the agent's charter, whatever
\* rotations, renewals and amendments race (register_agent, reissue_charter).
THEOREM OperatorStaysPinned == Spec => []OperatorPinned
<1>1. Init => PinInv
  BY InitType DEF Init, PinInv, Vouched, SessionsPinned, EnrolmentsPinned, SpentOnEnrolled,
                  OperatorPinned, Busy, Registered, Empty
<1>2. PinInv => OperatorPinned
  BY DEF PinInv
<1>3. QED
  BY <1>1, <1>2, PinStep, PTL DEF Spec

----------------------------------------------------------------------------
\* The registry implements Lifecycle

standingNow == [a \in Agents |-> StandingOf(a)]
authorityNow == [a \in Agents |-> AuthorityOf(a)]

\* A transaction moves one agent.
LEMMA OneAgentMoves ==
  ASSUME NEW a \in Agents, Registered' = Registered \cup {a},
         \A b \in Registered \ {a} : rows'[b] = rows[b]
  PROVE  /\ standingNow' = [standingNow EXCEPT ![a] = StandingOf(a)']
         /\ authorityNow' = [authorityNow EXCEPT ![a] = AuthorityOf(a)']
<1>1. ASSUME NEW b \in Agents, b # a
      PROVE  StandingOf(b)' = StandingOf(b) /\ AuthorityOf(b)' = AuthorityOf(b)
  <2>1. b \in Registered' <=> b \in Registered
    BY <1>1
  <2>2. b \in Registered => rows'[b] = rows[b]
    BY <1>1
  <2>3. QED
    BY <2>1, <2>2 DEF StandingOf, AuthorityOf, CapsHeld, ScopesHeld
<1>2. QED
  BY <1>1 DEF standingNow, authorityNow

\* A mandate is a warrant, and so is a voucher that was checked.
LEMMA MandateIsWarrant ==
  ASSUME NEW v \in Vouchers, NEW a \in Agents, NEW c, Mandates(v, a, c)
  PROVE  \E w \in Warrants : /\ w.voucher = v /\ w.agent = a /\ w.purpose = Payload[v].purpose
                             /\ CapsHeld(c) \subseteq w.caps /\ ScopesHeld(c) \subseteq w.scopes
<1>1. PICK k \in DOMAIN Jwks :
        /\ Warranted(v, k) /\ Payload[v].sub = {a}
        /\ CapsHeld(c) \subseteq Warrant(v, k).caps
        /\ ScopesHeld(c) \subseteq Warrant(v, k).scopes
  BY DEF Mandates
<1>2. Warrant(v, k) \in Warrants
  BY <1>1 DEF Warrants
<1>3. /\ Warrant(v, k).voucher = v /\ Warrant(v, k).agent = a
      /\ Warrant(v, k).purpose = Payload[v].purpose
  BY <1>1 DEF Warrant
<1>4. QED
  BY <1>1, <1>2, <1>3

LEMMA TicketIsWarrant ==
  ASSUME NEW s, NEW purpose, Ticket(s, purpose), NEW v \in s.voucher, v \in Vouchers
  PROVE  \E w \in Warrants : w.voucher = v /\ w.agent = s.agent /\ w.purpose = purpose
<1>1. PICK k \in Kids : Endorsed(v, k)
  BY DEF Ticket
<1>2. Payload[v].sub = {s.agent} /\ Payload[v].purpose = purpose
  BY DEF Ticket
<1>3. k \in DOMAIN Jwks /\ Warranted(v, k)
  BY <1>1, <1>2 DEF Endorsed, SelectedKids, Warranted
<1>4. Warrant(v, k) \in Warrants
  BY <1>3 DEF Warrants
<1>5. /\ Warrant(v, k).voucher = v /\ Warrant(v, k).agent = s.agent
      /\ Warrant(v, k).purpose = purpose
  BY <1>2 DEF Warrant
<1>6. QED
  BY <1>4, <1>5

\* A charter that is committed holds the claims, under a warrant for them.
LEMMA HoldsUnderWarrant ==
  ASSUME TypeInv', NEW a \in Agents, a \in Registered',
         authorityNow' = [authorityNow EXCEPT ![a] = AuthorityOf(a)'],
         NEW c, SameClaims(c, rows'[a].charter), NEW w,
         CapsHeld(c) \subseteq w.caps, ScopesHeld(c) \subseteq w.scopes
  PROVE  Promise!Hold(w, a)
<1> DEFINE held == [caps |-> CapsHeld(c), scopes |-> ScopesHeld(c)]
<1>1. AuthorityOf(a)' = held
  BY DEF AuthorityOf, SameClaims, CapsHeld, ScopesHeld
<1>2. rows'[a].charter \in CharterVc
  BY DEF TypeInv, TypeOK, Row
<1>3. held.caps \subseteq Caps /\ held.scopes \subseteq Scopes
  BY <1>2 DEF SameClaims, CharterVc, Opt, CapsHeld, ScopesHeld
<1>4. held \in Promise!Authority
  BY <1>3 DEF Promise!Authority
<1>5. held.caps \subseteq w.caps /\ held.scopes \subseteq w.scopes
  OBVIOUS
<1>6. authorityNow' = [authorityNow EXCEPT ![a] = held]
  BY <1>1
<1> HIDE DEF held
<1>7. QED
  BY <1>4, <1>5, <1>6 DEF Promise!Hold, authorityNow

LEMMA RegisterEnrols ==
  ASSUME AuthorityInv, TypeInv', RequireVoucher, NEW t \in Threads, RegisterWrite(t),
         NEW a \in Agents, a = session[t].agent
  PROVE  Promise!Next
<1> DEFINE s == session[t]
<1>1. /\ t \in Busy /\ Committing(s) /\ s.op = "register"
      /\ s.voucher \in Opt(Vouchers) /\ VoucherOK(s)
  BY DEF RegisterWrite, At, Committing, AuthorityInv, TypeInv, TypeOK, Session, Vouched
<1>2. /\ Registered' = Registered \cup {a} /\ a \notin Registered
      /\ \A b \in Registered : rows'[b] = rows[b]
      /\ rows'[a].revoked = FALSE
      /\ SameClaims(s.claims, rows'[a].charter)
  <2>1. rows'[a].revoked = FALSE /\ rows'[a].charter = IssueCharter(a, s.claims, NextRowId)
    BY DEF RegisterWrite, Put
  <2>2. SameClaims(s.claims, rows'[a].charter)
    BY <2>1 DEF IssueCharter, SameClaims
  <2>3. Registered' = Registered \cup {a} /\ \A b \in Registered : rows'[b] = rows[b]
    BY RegisterWriteType DEF AuthorityInv
  <2>4. a \notin Registered
    BY DEF RegisterWrite
  <2>5. QED
    BY <2>1, <2>2, <2>3, <2>4
<1>3. s.voucher # {} /\ Ticket(s, "enroll")
  BY <1>1 DEF VoucherOK
<1>4. PICK v \in s.voucher : Mandates(v, a, s.claims)
  BY <1>1, <1>3 DEF AuthorityInv, ClaimsRooted, Rooted
<1>5. v \in Vouchers /\ v \notin consumed /\ consumed' = consumed \cup {v}
      /\ Payload[v].purpose = "enroll"
  BY <1>1, <1>3, <1>4 DEF RegisterWrite, Consume, Unspent, Opt, Ticket
<1>6. PICK w \in Warrants :
        /\ w.voucher = v /\ w.agent = a /\ w.purpose = "enroll"
        /\ CapsHeld(s.claims) \subseteq w.caps /\ ScopesHeld(s.claims) \subseteq w.scopes
  BY <1>1, <1>4, <1>5, MandateIsWarrant
<1>7. /\ standingNow' = [standingNow EXCEPT ![a] = StandingOf(a)']
      /\ authorityNow' = [authorityNow EXCEPT ![a] = AuthorityOf(a)']
  BY <1>1, <1>2, OneAgentMoves
<1>8. Promise!Hold(w, a)
  BY <1>1, <1>2, <1>6, <1>7, HoldsUnderWarrant
<1>9. standingNow[a] = "unknown" /\ StandingOf(a)' = "active"
  BY <1>1, <1>2 DEF standingNow, StandingOf
<1>10. Promise!Enrol(a, w)
  BY <1>5, <1>6, <1>7, <1>8, <1>9 DEF Promise!Enrol, Promise!Spend, standingNow
<1>11. QED
  BY <1>1, <1>6, <1>10 DEF Promise!Next

LEMMA ReplaceReissues ==
  ASSUME AuthorityInv, TypeInv', RequireVoucher, NEW t \in Threads,
         RotateWrite(t) \/ ReissueWrite(t), NEW a \in Agents, a = session[t].agent
  PROVE  Promise!Next
<1> DEFINE s == session[t]
<1>1. /\ t \in Busy /\ Committing(s) /\ s.op \in {"rotate", "reissue"}
      /\ s.voucher \in Opt(Vouchers) /\ VoucherOK(s) /\ a \in Registered /\ s.step = "write"
  BY DEF RotateWrite, ReissueWrite, At, Committing, AuthorityInv, TypeInv, TypeOK, Session,
         Vouched, SessionOK
<1>2. /\ Registered' = Registered
      /\ \A b \in Registered \ {a} : rows'[b] = rows[b]
      /\ rows'[a].revoked = rows[a].revoked
      /\ SameClaims(s.claims, rows'[a].charter)
  <2>1. /\ Rotated(s).charter = IssueCharter(a, s.claims, SeenRow(s).index)
        /\ Reissued(s).charter = IssueCharter(a, s.claims, SeenRow(s).index)
        /\ Rotated(s).revoked = rows[a].revoked /\ Reissued(s).revoked = rows[a].revoked
    BY <1>1, WrittenRow DEF AuthorityInv
  <2>2. PICK r : /\ rows' = [rows EXCEPT ![a] = r]
                 /\ r.charter = IssueCharter(a, s.claims, SeenRow(s).index)
                 /\ r.revoked = rows[a].revoked
    BY <2>1 DEF RotateWrite, ReissueWrite
  <2>3. /\ Registered' = Registered
        /\ \A b \in Registered : rows'[b] = IF b = a THEN r ELSE rows[b]
    BY <2>2 DEF AuthorityInv, TypeInv, TypeOK, Registered
  <2>4. QED
    BY <1>1, <2>2, <2>3 DEF IssueCharter, SameClaims
<1>3. /\ standingNow' = [standingNow EXCEPT ![a] = StandingOf(a)']
      /\ authorityNow' = [authorityNow EXCEPT ![a] = AuthorityOf(a)']
  BY <1>1, <1>2, OneAgentMoves
<1>4. StandingOf(a)' = StandingOf(a) /\ standingNow[a] # "unknown"
  BY <1>1, <1>2 DEF StandingOf, standingNow
<1>5. standingNow' = standingNow
  BY <1>1, <1>3, <1>4 DEF standingNow
<1>6. CASE s.voucher = {}
  <2>1. consumed' = consumed
    BY <1>6 DEF RotateWrite, ReissueWrite, Consume
  <2>2. PICK v \in consumed : Mandates(v, a, s.claims)
    BY <1>1, <1>6 DEF AuthorityInv, ClaimsRooted, Rooted
  <2>3. v \in Vouchers /\ Payload[v].purpose \in {"enroll", "amend"}
    BY <2>2 DEF Mandates, AuthorityInv, TypeInv, TypeOK
  <2>4. PICK w \in Warrants :
          /\ w.voucher = v /\ w.agent = a /\ w.purpose = Payload[v].purpose
          /\ CapsHeld(s.claims) \subseteq w.caps /\ ScopesHeld(s.claims) \subseteq w.scopes
    BY <1>1, <2>2, <2>3, MandateIsWarrant
  <2>5. Promise!Hold(w, a)
    BY <1>1, <1>2, <1>3, <2>4, HoldsUnderWarrant
  <2>6. Promise!Reissue(a, w)
    BY <1>4, <1>5, <2>1, <2>2, <2>3, <2>4, <2>5 DEF Promise!Reissue, standingNow
  <2>7. QED
    BY <1>1, <2>4, <2>6 DEF Promise!Next
<1>7. CASE s.voucher # {}
  <2>1. ReissueWrite(t) /\ Ticket(s, "amend")
    BY <1>1, <1>7 DEF VoucherOK, RotateWrite, At
  <2>2. PICK v \in s.voucher : Mandates(v, a, s.claims)
    BY <1>1, <1>7 DEF AuthorityInv, ClaimsRooted, Rooted
  <2>3. v \in Vouchers /\ v \notin consumed /\ consumed' = consumed \cup {v}
        /\ Payload[v].purpose = "amend"
    BY <1>1, <2>1, <2>2 DEF ReissueWrite, Consume, Unspent, Opt, Ticket
  <2>4. PICK w \in Warrants :
          /\ w.voucher = v /\ w.agent = a /\ w.purpose = "amend"
          /\ CapsHeld(s.claims) \subseteq w.caps /\ ScopesHeld(s.claims) \subseteq w.scopes
    BY <1>1, <2>2, <2>3, MandateIsWarrant
  <2>5. Promise!Hold(w, a)
    BY <1>1, <1>2, <1>3, <2>4, HoldsUnderWarrant
  <2>6. Promise!Amend(a, w)
    BY <1>4, <1>5, <2>3, <2>4, <2>5 DEF Promise!Amend, Promise!Spend, standingNow
  <2>7. QED
    BY <1>1, <2>4, <2>6 DEF Promise!Next
<1>8. QED
  BY <1>6, <1>7

LEMMA RevokeRevokes ==
  ASSUME AuthorityInv, TypeInv', RequireVoucher, NEW t \in Threads, RevokeWrite(t),
         NEW a \in Agents, a = session[t].agent
  PROVE  Promise!Next
<1> DEFINE s == session[t]
<1>1. /\ t \in Busy /\ s.op = "revoke" /\ s.step = "write"
      /\ s.voucher \in Opt(Vouchers) /\ VoucherOK(s) /\ a \in Registered
  BY DEF RevokeWrite, At, AuthorityInv, TypeInv, TypeOK, Session, Vouched, SessionOK
<1>2. rows \in [Registered -> Row] /\ rows' = [rows EXCEPT ![a].revoked = TRUE]
  BY DEF RevokeWrite, AuthorityInv, TypeInv, TypeOK
<1>3. /\ Registered' = Registered
      /\ \A b \in Registered \ {a} : rows'[b] = rows[b]
      /\ rows'[a].revoked = TRUE /\ rows'[a].charter = rows[a].charter
  BY <1>1, <1>2 DEF Registered, Row
<1>4. /\ standingNow' = [standingNow EXCEPT ![a] = StandingOf(a)']
      /\ authorityNow' = [authorityNow EXCEPT ![a] = AuthorityOf(a)']
  BY <1>1, <1>3, OneAgentMoves
<1>5. /\ StandingOf(a)' = "revoked" /\ standingNow[a] # "unknown"
      /\ AuthorityOf(a)' = AuthorityOf(a)
  BY <1>1, <1>3 DEF StandingOf, standingNow, AuthorityOf, CapsHeld, ScopesHeld
<1>6. authorityNow' = authorityNow
  BY <1>1, <1>4, <1>5 DEF authorityNow
<1>7. s.voucher # {} /\ Ticket(s, "revoke")
  BY <1>1 DEF VoucherOK
<1>8. PICK v \in s.voucher : TRUE
  BY <1>7
<1>9. v \in Vouchers /\ v \notin consumed /\ consumed' = consumed \cup {v}
  BY <1>1, <1>8 DEF RevokeWrite, Consume, Unspent, Opt
<1>10. PICK w \in Warrants : w.voucher = v /\ w.agent = a /\ w.purpose = "revoke"
  BY <1>7, <1>8, <1>9, TicketIsWarrant
<1>11. Promise!Revoke(a, w)
  BY <1>4, <1>5, <1>6, <1>9, <1>10
     DEF Promise!Revoke, Promise!Spend, standingNow, authorityNow
<1>12. QED
  BY <1>1, <1>10, <1>11 DEF Promise!Next

\* What a step that leaves the tables alone looks like from outside.
LEMMA QuietStutters ==
  ASSUME Quiet
  PROVE  UNCHANGED Promise!lifecycle
<1>1. \A a \in Agents : StandingOf(a)' = StandingOf(a) /\ AuthorityOf(a)' = AuthorityOf(a)
  BY DEF Quiet, StandingOf, AuthorityOf, Registered, CapsHeld, ScopesHeld
<1>2. QED
  BY <1>1 DEF Quiet, Promise!lifecycle

\* The registry, if it requires vouchers, implements Lifecycle: for any agents, threads,
\* vouchers and ceilings, the transactions are warranted moves of standing and authority.
THEOREM RegistryKeepsPromise == ASSUME RequireVoucher PROVE Spec => KeepsPromise
<1>1. Init => AuthorityInv
  BY InitType DEF Init, AuthorityInv, Vouched, AuthorityRooted, ClaimsRooted, Busy, Registered, Empty
<1>2. Init => Promise!Init
  BY DEF Init, Promise!Init, StandingOf, AuthorityOf, Registered, Empty, Promise!Nothing
<1>3. AuthorityInv /\ AuthorityInv' /\ [Next]_vars => [Promise!Next]_Promise!lifecycle
  <2> SUFFICES ASSUME AuthorityInv, AuthorityInv', [Next]_vars
               PROVE  [Promise!Next]_Promise!lifecycle
    OBVIOUS
  <2>1. TypeInv'
    BY DEF AuthorityInv
  <2>2. ASSUME NEW t \in Threads, Writes(t) PROVE Promise!Next
    <3>1. session[t].agent \in Agents
      BY <2>2, WritesClose DEF AuthorityInv, TypeInv, TypeOK, Session
    <3>2. PICK a \in Agents : a = session[t].agent
      BY <3>1
    <3>3. QED
      BY <2>1, <2>2, <3>2, RegisterEnrols, ReplaceReissues, RevokeRevokes DEF Writes
  <2>3. CASE Quiet
    BY <2>3, QuietStutters
  <2>4. QED
    BY <2>2, <2>3, StepCases DEF AuthorityInv
<1>4. QED
  BY <1>1, <1>2, <1>3, AuthorityStep, PTL DEF Spec, KeepsPromise, Promise!Spec

----------------------------------------------------------------------------
\* What only an overtaken handler breaks

Narrower(c, d) == CapsHeld(c) \subseteq CapsHeld(d) /\ ScopesHeld(c) \subseteq ScopesHeld(d)

\* The charter the handler is about to sign goes with the one it loaded: no wider, or
\* mandated by the voucher it will spend, and under the operator if there is one.
ClaimsDecided(s) ==
  /\ \/ Narrower(s.claims, SeenRow(s).charter)
     \/ \E v \in s.voucher : Mandates(v, s.agent, s.claims)
  /\ SeenRow(s).charter.operator \in {{}, s.claims.operator}

\* All that a handler has decided, it has decided on the row it loaded.
Decided(s) ==
  s.op # "register" =>
    /\ ~SeenRow(s).revoked
    /\ s.op = "rotate" => SeenRow(s).key \in s.signer
    /\ s.op \in {"rotate", "reissue"} /\ s.step = "write" => ClaimsDecided(s)

AllDecided == \A t \in Busy : Decided(session[t])

\* The re-issue of a charter's own claims, or of claims that drop "id" and take an
\* operator, holds what they hold.
LEMMA ReissuedHolds ==
  ASSUME NEW c \in Charter, NEW operator
  PROVE  /\ CapsHeld(Reissuable(c, operator)) = CapsHeld(c)
         /\ ScopesHeld(Reissuable(c, operator)) = ScopesHeld(c)
         /\ Reissuable(c, operator).operator = operator
         /\ SameClaims(c, Reissuable(c, operator))
BY DEF Reissuable, Charter, CapsHeld, ScopesHeld, SameClaims

LEMMA OpensDecided ==
  ASSUME TypeInv, NEW s, Opens(s)
  PROVE  Decided(s)
<1>1. CASE OpensRegister(s)
  <2>1. s.op = "register"
    BY <1>1 DEF OpensRegister, Enrolling
  <2>2. QED
    BY <2>1 DEF Decided
<1>2. CASE OpensRotate(s)
  <2>1. PICK a \in Registered, key \in Keys, signer \in Keys :
          s = Rotating(a, key, signer) /\ Standing(a) /\ signer = rows[a].key
    BY <1>2 DEF OpensRotate
  <2>2. /\ s.op = "rotate" /\ s.seen = {rows[a]} /\ s.signer = {rows[a].key}
        /\ s.claims = ClaimsOf(rows[a].charter)
    BY <2>1 DEF Rotating
  <2>3. SeenRow(s) = rows[a] /\ ~rows[a].revoked
    BY <2>1, <2>2 DEF SeenRow, Standing
  <2>4. ClaimsDecided(s)
    BY <2>2, <2>3 DEF ClaimsDecided, ClaimsOf, Narrower, CapsHeld, ScopesHeld
  <2>5. QED
    BY <2>2, <2>3, <2>4 DEF Decided
<1>3. CASE OpensRenew(s)
  <2>1. PICK a \in Registered, signer \in Keys, charter \in RequestedCharters :
          /\ s = Reissuing("write", a, Reissuable(charter, rows[a].charter.operator), signer, {})
          /\ Renewable(charter, rows[a].charter) /\ Standing(a)
    BY <1>3 DEF OpensRenew
  <2>2. /\ s.op = "reissue" /\ s.seen = {rows[a]}
        /\ s.claims = Reissuable(charter, rows[a].charter.operator)
    BY <2>1 DEF Reissuing
  <2>3. SeenRow(s) = rows[a] /\ ~rows[a].revoked
    BY <2>1, <2>2 DEF SeenRow, Standing
  <2>4. charter \in Charter
    BY RegistryAssumption
  <2>5. ClaimsDecided(s)
    BY <2>1, <2>2, <2>3, <2>4, RenewalNarrows, ReissuedHolds DEF ClaimsDecided, Narrower
  <2>6. QED
    BY <2>2, <2>3, <2>5 DEF Decided
<1>4. CASE OpensAmend(s) \/ OpensRevoke(s)
  <2>1. PICK a \in Registered : s.seen = {rows[a]} /\ Standing(a) /\ s.step = "voucher"
                                /\ s.op \in {"reissue", "revoke"}
    BY <1>4 DEF OpensAmend, OpensRevoke, Reissuing, Revoking
  <2>2. SeenRow(s) = rows[a] /\ ~rows[a].revoked
    BY <2>1 DEF SeenRow, Standing
  <2>3. QED
    BY <2>1, <2>2 DEF Decided
<1>5. QED
  BY <1>1, <1>2, <1>3, <1>4 DEF Opens

LEMMA ProceedsDecided ==
  ASSUME TypeInv, NEW t \in Busy, Decided(session[t]), NEW s, Proceeds(session[t], s)
  PROVE  Decided(s)
<1> DEFINE r == session[t]
<1>1. r \in Session /\ r.voucher \in Opt(Vouchers) /\ r.claims \in Charter
  BY DEF TypeInv, TypeOK, Session
<1>2. s.op = r.op /\ SeenRow(s) = SeenRow(r)
  BY SeenOfProceeding
<1>3. CASE ProceedsRegister(r, s) \/ ProceedsRevoke(r, s)
  <2>1. r.op \in {"register", "revoke"}
    BY <1>3 DEF ProceedsRegister, ProceedsRevoke
  <2>2. QED
    BY <1>2, <2>1 DEF Decided
<1>4. CASE ProceedsAmend(r, s)
  <2>1. PICK operator \in Opt(Operators) :
          /\ r.op = "reissue" /\ WithinVoucher(r.claims, r.voucher)
          /\ VerifyGrant(r.voucher, r.agent, "amend", TRUE)
          /\ SeenRow(r).charter.operator \in {{}, operator}
          /\ s = [r EXCEPT !.step = "write", !.claims = Reissuable(r.claims, operator)]
    BY <1>4 DEF ProceedsAmend
  <2>2. /\ s.claims = Reissuable(r.claims, operator) /\ s.voucher = r.voucher
        /\ s.agent = r.agent
    BY <1>1, <2>1 DEF Session
  <2>3. PICK v \in r.voucher, k \in Kids :
          Endorsed(v, k) /\ Payload[v].sub = {r.agent} /\ Payload[v].purpose = "amend"
    BY <2>1 DEF VerifyGrant, Verifies
  <2>4. v \in Vouchers /\ WithinGrant(r.claims, v, k)
    BY <1>1, <2>1, <2>3 DEF Opt, WithinVoucher, Endorsed
  <2>5. Mandates(v, r.agent, r.claims)
    BY <1>1, <2>3, <2>4, GrantMandates
  <2>6. Mandates(v, s.agent, s.claims) /\ s.claims.operator = operator
    BY <1>1, <2>2, <2>5, ReissuedHolds, MandateOfSame
  <2>7. ClaimsDecided(s)
    BY <1>2, <2>1, <2>2, <2>3, <2>6 DEF ClaimsDecided
  <2>8. QED
    BY <1>2, <2>1, <2>7 DEF Decided
<1>5. QED
  BY <1>3, <1>4 DEF Proceeds

LEMMA DecidedStep == TypeInv /\ AllDecided /\ [Next]_vars => AllDecided'
<1> SUFFICES ASSUME TypeInv, AllDecided, [Next]_vars PROVE AllDecided'
  OBVIOUS
<1>1. ASSUME NEW t \in Threads, NEW s, Hold(t, s), Decided(s) PROVE AllDecided'
  BY <1>1, SessionsAfterHold DEF AllDecided
<1>2. ASSUME NEW t \in Busy, Close(t) PROVE AllDecided'
  BY <1>2, SessionsAfterClose DEF AllDecided
<1>3. CASE UNCHANGED session
  BY <1>3 DEF AllDecided, Busy
<1>4. Busy \subseteq Threads
  BY DEF TypeInv, TypeOK
<1>5. QED
  BY <1>1, <1>2, <1>3, <1>4, StepCases, WritesClose, OpensDecided, ProceedsDecided
     DEF AllDecided

DecidedInv == TypeInv /\ Vouched /\ AllDecided

KeepsAll(a) == RotatedByHolder(a) /\ WidensByMandate(a) /\ OperatorKept(a) /\ LeftIfRevoked(a)

\* A charter that is replaced as decided on the row as it is.
LEMMA ReplacesAsDecided ==
  ASSUME DecidedInv, NEW t \in Threads, RotateWrite(t) \/ ReissueWrite(t), ~Overtaken(t)
  PROVE  KeepsAll(session[t].agent)
<1> DEFINE s == session[t]
           a == s.agent
           issued == IssueCharter(a, s.claims, SeenRow(s).index)
<1>1. /\ t \in Busy /\ s.step = "write" /\ s.op \in {"rotate", "reissue"}
      /\ RotateWrite(t) => s.op = "rotate"
  BY DEF RotateWrite, ReissueWrite, At
<1>2. /\ a \in Registered /\ rows[a] \in Row /\ SeenRow(s) = rows[a] /\ s.claims \in Charter
      /\ VoucherOK(s) /\ Decided(s)
  BY <1>1 DEF Overtaken, DecidedInv, TypeInv, TypeOK, SessionOK, Session, Vouched, AllDecided
<1>3. ~rows[a].revoked /\ ClaimsDecided(s) /\ (s.op = "rotate" => rows[a].key \in s.signer)
  BY <1>1, <1>2 DEF Decided
<1>4. \E r : /\ rows' = [rows EXCEPT ![a] = r] /\ r.charter = issued
             /\ s.op = "reissue" => r.key = rows[a].key
  <2>1. /\ Rotated(s).charter = issued /\ Reissued(s).charter = issued
        /\ Reissued(s).key = rows[a].key
    BY <1>1, WrittenRow DEF DecidedInv
  <2>2. QED
    BY <1>1, <2>1 DEF RotateWrite, ReissueWrite
<1>5. /\ rows'[a].charter = issued
      /\ s.op = "reissue" => rows'[a].key = rows[a].key
  BY <1>2, <1>4 DEF DecidedInv, TypeInv, TypeOK
<1>6. /\ SameClaims(s.claims, issued) /\ issued.operator = s.claims.operator
  BY DEF IssueCharter, SameClaims
<1>7. RotatedByHolder(a)
  <2>1. t \in Busy \ Busy'
    BY <1>1, SessionsAfterClose DEF RotateWrite, ReissueWrite, DecidedInv
  <2>2. QED
    BY <1>1, <1>3, <1>5, <2>1 DEF RotatedByHolder
<1>8. WidensByMandate(a)
  <2>1. CASE Narrower(s.claims, rows[a].charter)
    BY <1>5, <1>6, <2>1 DEF WidensByMandate, Narrower, SameClaims, CapsHeld, ScopesHeld
  <2>2. CASE \E v \in s.voucher : Mandates(v, a, s.claims)
    <3>1. PICK v \in s.voucher : Mandates(v, a, s.claims)
      BY <2>2
    <3>2. ReissueWrite(t)
      BY <1>1, <1>2, <3>1 DEF VoucherOK
    <3>3. v \in consumed' \ consumed
      BY <3>1, <3>2 DEF ReissueWrite, Consume, Unspent
    <3>4. Mandates(v, a, issued)
      BY <1>6, <3>1, MandateOfSame
    <3>5. QED
      BY <1>5, <3>3, <3>4 DEF WidensByMandate
  <2>3. QED
    BY <1>2, <1>3, <2>1, <2>2 DEF ClaimsDecided
<1>9. OperatorKept(a)
  BY <1>2, <1>3, <1>5, <1>6 DEF ClaimsDecided, OperatorKept
<1>10. LeftIfRevoked(a)
  BY <1>3 DEF LeftIfRevoked
<1>11. QED
  BY <1>7, <1>8, <1>9, <1>10 DEF KeepsAll

\* A row that stays, or is only marked as revoked, keeps all of them.
LEMMA KeptRow ==
  ASSUME DecidedInv, NEW a \in Registered,
         rows'[a] = rows[a] \/ rows'[a] = [rows[a] EXCEPT !.revoked = TRUE]
  PROVE  KeepsAll(a)
<1>1. rows[a] \in Row
  BY DEF DecidedInv, TypeInv, TypeOK
<1>2. /\ rows'[a].key = rows[a].key /\ rows'[a].charter = rows[a].charter
      /\ rows[a].revoked => rows'[a] = rows[a]
  BY <1>1 DEF Row
<1>3. QED
  BY <1>2 DEF KeepsAll, RotatedByHolder, WidensByMandate, OperatorKept, LeftIfRevoked

LEMMA StepKeepsAll ==
  ASSUME DecidedInv, [Next]_vars, NEW a \in Registered
  PROVE  KeepsAll(a) \/ \E t \in Busy \ Busy' : session[t].agent = a /\ Overtaken(t)
<1>1. ASSUME NEW t \in Threads, RegisterWrite(t) PROVE KeepsAll(a)
  BY <1>1, RegisterWriteType, KeptRow DEF DecidedInv
<1>2. ASSUME NEW t \in Threads, RotateWrite(t) \/ ReissueWrite(t)
      PROVE  KeepsAll(a) \/ \E u \in Busy \ Busy' : session[u].agent = a /\ Overtaken(u)
  <2>1. t \in Busy \ Busy'
    BY <1>2, SessionsAfterClose DEF RotateWrite, ReissueWrite, At, DecidedInv
  <2>2. CASE a = session[t].agent
    BY <1>2, <2>1, <2>2, ReplacesAsDecided
  <2>3. CASE a # session[t].agent
    <3>1. rows'[a] = rows[a]
      BY <1>2, <2>3 DEF RotateWrite, ReissueWrite, DecidedInv, TypeInv, TypeOK
    <3>2. QED
      BY <3>1, KeptRow
  <2>4. QED
    BY <2>2, <2>3
<1>3. ASSUME NEW t \in Threads, RevokeWrite(t) PROVE KeepsAll(a)
  <2>1. rows'[a] = rows[a] \/ rows'[a] = [rows[a] EXCEPT !.revoked = TRUE]
    BY <1>3 DEF RevokeWrite, DecidedInv, TypeInv, TypeOK
  <2>2. QED
    BY <2>1, KeptRow
<1>4. CASE Quiet
  BY <1>4, KeptRow DEF Quiet
<1>5. QED
  BY <1>1, <1>2, <1>3, <1>4, StepCases DEF Writes, DecidedInv

LEMMA DecidedInvariance == Spec => []DecidedInv
<1>1. Init => DecidedInv
  BY InitType DEF Init, DecidedInv, Vouched, AllDecided, Busy, Empty
<1>2. DecidedInv /\ [Next]_vars => DecidedInv'
  BY NextType, VouchedStep, DecidedStep DEF DecidedInv
<1>3. QED
  BY <1>1, <1>2, PTL DEF Spec

\* Whatever else is under way, only a handler whose agent another one has committed on
\* since can rotate on a key that is no longer current, widen a charter without a
\* mandate, change an operator, or write to a revoked agent.
THEOREM OnlyOvertakenBreak == Spec => OvertakenOnly
<1>1. DecidedInv /\ [Next]_vars =>
        [\A a \in Registered :
           \/ RotatedByHolder(a) /\ WidensByMandate(a) /\ OperatorKept(a) /\ LeftIfRevoked(a)
           \/ \E t \in Busy \ Busy' : session[t].agent = a /\ Overtaken(t)]_vars
  BY StepKeepsAll DEF KeepsAll
<1>2. QED
  BY <1>1, DecidedInvariance, PTL DEF Spec, OvertakenOnly

\* No two handlers of one agent are under way at a time.
Apart == \A t, u \in Busy : session[t].agent = session[u].agent => t = u

NoneOvertaken == \A t \in Busy : ~Overtaken(t)

\* A handler's commit changes the row of its own agent and no other.
LEMMA WritesOwnRow ==
  ASSUME TypeInv, NEW t \in Threads, Writes(t), NEW a \in Registered, a # session[t].agent
  PROVE  rows'[a] = rows[a]
<1>1. CASE RegisterWrite(t)
  BY <1>1, RegisterWriteType
<1>2. CASE RotateWrite(t) \/ ReissueWrite(t) \/ RevokeWrite(t)
  BY <1>2 DEF RotateWrite, ReissueWrite, RevokeWrite, TypeInv, TypeOK
<1>3. QED
  BY <1>1, <1>2 DEF Writes

LEMMA NoneOvertakenStep ==
  ASSUME TypeInv, Apart, NoneOvertaken, [Next]_vars
  PROVE  NoneOvertaken'
<1> SUFFICES ASSUME NEW u \in Busy', session'[u].op # "register"
             PROVE  SeenRow(session'[u]) = rows'[session'[u].agent]
  BY DEF NoneOvertaken, Overtaken, SeenRow
<1>1. ASSUME u \in Busy, session'[u] = session[u]
      PROVE  session[u].agent \in Registered /\ SeenRow(session[u]) = rows[session[u].agent]
  BY <1>1 DEF NoneOvertaken, Overtaken, TypeInv, SessionOK
<1>2. CASE u \in Busy /\ session'[u] = session[u] /\ rows' = rows
  BY <1>1, <1>2
<1>3. ASSUME NEW t \in Threads, Writes(t)
      PROVE  SeenRow(session'[u]) = rows'[session'[u].agent]
  <2>1. t \in Busy /\ t \notin Busy' /\ u \in Busy /\ session'[u] = session[u]
    BY <1>3, WritesClose, SessionsAfterClose
  <2>2. session[u].agent # session[t].agent
    BY <2>1 DEF Apart
  <2>3. QED
    BY <1>1, <1>3, <2>1, <2>2, WritesOwnRow
<1>4. ASSUME NEW t \in Threads, NEW s, Hold(t, s), Opens(s), rows' = rows
      PROVE  SeenRow(session'[u]) = rows'[session'[u].agent]
  <2>1. (u \in Busy /\ session'[u] = session[u]) \/ session'[u] = s
    BY <1>4, SessionsAfterHold
  <2>2. QED
    BY <1>2, <1>4, <2>1, SeenOfOpening
<1>5. ASSUME NEW t \in Busy, NEW s, Hold(t, s), Proceeds(session[t], s), rows' = rows
      PROVE  SeenRow(session'[u]) = rows'[session'[u].agent]
  <2>1. (u \in Busy /\ session'[u] = session[u]) \/ session'[u] = s
    BY <1>5, SessionsAfterHold DEF TypeInv, TypeOK
  <2>2. s.op # "register" => SeenRow(s) = rows[s.agent]
    BY <1>5, SeenOfProceeding DEF NoneOvertaken, Overtaken
  <2>3. QED
    BY <1>2, <1>5, <2>1, <2>2
<1>6. ASSUME NEW t \in Busy, Close(t), rows' = rows
      PROVE  SeenRow(session'[u]) = rows'[session'[u].agent]
  BY <1>2, <1>6, SessionsAfterClose
<1>7. CASE rows' = rows /\ UNCHANGED session
  BY <1>2, <1>7 DEF Busy
<1>8. QED
  BY <1>3, <1>4, <1>5, <1>6, <1>7, StepCases DEF Quiet

\* While the handlers of each agent take turns, no step breaks any of them.
LEMMA TurnsKeepAll == Spec /\ []Apart => [][\A a \in Registered : KeepsAll(a)]_vars
<1>1. Init => NoneOvertaken
  BY DEF Init, NoneOvertaken, Busy, Empty
<1>2. DecidedInv /\ Apart /\ NoneOvertaken /\ [Next]_vars => NoneOvertaken'
  BY NoneOvertakenStep DEF DecidedInv
<1>3. DecidedInv /\ NoneOvertaken /\ [Next]_vars
        => [\A a \in Registered : KeepsAll(a)]_vars
  BY StepKeepsAll DEF NoneOvertaken
<1>4. QED
  BY <1>1, <1>2, <1>3, DecidedInvariance, PTL DEF Spec

\* With one thread they do.
THEOREM OneThreadTurns == ASSUME \A t, u \in Threads : t = u PROVE Spec => []Apart
<1>1. TypeInv => Apart
  BY DEF TypeInv, TypeOK, Apart
<1>2. Spec => []TypeInv
  BY InitType, NextType, PTL DEF Spec
<1>3. QED
  BY <1>1, <1>2, PTL

\* While the handlers of each agent take turns, and those of different agents do not:
\* a charter widens only by the mandate of a voucher spent at that step,
THEOREM WideningInTurns == Spec /\ []Apart => WideningNeedsMandate
<1>1. [\A a \in Registered : KeepsAll(a)]_vars => [\A a \in Registered : WidensByMandate(a)]_vars
  BY DEF KeepsAll
<1>2. QED
  BY <1>1, TurnsKeepAll, PTL DEF WideningNeedsMandate

\* the key that a rotation replaces has signed it,
THEOREM RotationInTurns == Spec /\ []Apart => RotationByCurrentKey
<1>1. [\A a \in Registered : KeepsAll(a)]_vars => [\A a \in Registered : RotatedByHolder(a)]_vars
  BY DEF KeepsAll
<1>2. QED
  BY <1>1, TurnsKeepAll, PTL DEF RotationByCurrentKey

\* an operator in a charter stays as it is,
THEOREM OperatorInTurns == Spec /\ []Apart => OperatorStable
<1>1. [\A a \in Registered : KeepsAll(a)]_vars => [\A a \in Registered : OperatorKept(a)]_vars
  BY DEF KeepsAll
<1>2. QED
  BY <1>1, TurnsKeepAll, PTL DEF OperatorStable

\* and a revoked agent is left alone.
THEOREM RevocationInTurns == Spec /\ []Apart => NothingAfterRevocation
<1>1. [\A a \in Registered : KeepsAll(a)]_vars => [\A a \in Registered : LeftIfRevoked(a)]_vars
  BY DEF KeepsAll
<1>2. QED
  BY <1>1, TurnsKeepAll, PTL DEF NothingAfterRevocation
=============================================================================
