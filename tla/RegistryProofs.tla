--------------------------- MODULE RegistryProofs ---------------------------
(***************************************************************************)
(* What TLAPS proves of Registry, for any agents, threads, vouchers, keys, *)
(* JWKS, lifetimes and charters: its types, and then its safety.  Each     *)
(* safety property needs an invariant of the handlers in flight: what a    *)
(* handler remembers was true when it was read, and has to stay good       *)
(* enough until it commits.                                                *)
(***************************************************************************)
EXTENDS Registry, TLAPS

----------------------------------------------------------------------------
\* Optional values, and functions with one more or one less argument

LEMMA OptEmpty == \A S : {} \in Opt(S)
BY DEF Opt

LEMMA OptSingle == \A S : \A x \in S : {x} \in Opt(S)
BY DEF Opt

\* The element of an optional value that is there.
LEMMA OptElement ==
  ASSUME NEW S, NEW o \in Opt(S), o # {}
  PROVE  /\ (CHOOSE x \in o : TRUE) \in o
         /\ (CHOOSE x \in o : TRUE) \in S
         /\ \A y \in o : y = CHOOSE x \in o : TRUE
<1>1. PICK y \in o : TRUE
  OBVIOUS
<1>2. (CHOOSE x \in o : TRUE) \in o
  BY <1>1
<1>3. QED
  BY <1>2 DEF Opt

----------------------------------------------------------------------------
\* What the helpers of the handlers return

LEMMA IssueType ==
  ASSUME NEW a \in Agents, NEW claims \in Charter, NEW index \in Nat, now \in Nat
  PROVE  /\ IssueCharter(a, claims, index) \in CharterVc
         /\ IssueCharter(a, claims, index).caps = claims.caps
         /\ IssueCharter(a, claims, index).scopes = claims.scopes
         /\ IssueCharter(a, claims, index).operator = claims.operator
         /\ IssueCharter(a, claims, index).index = index
<1>1. claims.id = {} \/ (CHOOSE x \in claims.id : TRUE) \in Agents
  BY OptElement DEF Charter
<1>2. (IF Ttl > 0 THEN {now + Ttl} ELSE {}) \in Opt(Nat)
  BY OptEmpty, OptSingle, RegistryAssumption
<1>3. QED
  BY <1>1, <1>2 DEF IssueCharter, CharterVc, Charter

LEMMA ClaimsType ==
  ASSUME NEW vc \in CharterVc
  PROVE  ClaimsOf(vc) \in Charter
BY OptEmpty DEF ClaimsOf, CharterVc, Charter

\* A voucher that is there names at most one operator.
LEMMA OperatorOfType ==
  ASSUME NEW vo \in Opt(Vouchers)
  PROVE  /\ OperatorOf(vo) \in Opt(Operators)
         /\ \A v \in vo : OperatorOf(vo) = Payload[v].operator
<1>1. CASE vo = {}
  BY <1>1, OptEmpty DEF OperatorOf
<1>2. CASE vo # {}
  <2>1. PICK v \in Vouchers : vo = {v}
    BY <1>2, OptElement DEF Opt
  <2>2. OperatorOf(vo) = Payload[v].operator
    BY <2>1 DEF OperatorOf
  <2>3. Payload[v].operator \in Opt(Operators)
    BY VoucherAssumption DEF VoucherPayload
  <2>4. QED
    BY <2>1, <2>2, <2>3
<1>3. QED
  BY <1>1, <1>2

LEMMA PinnedType ==
  ASSUME NEW charter \in Charter, NEW vo \in Opt(Vouchers)
  PROVE  /\ Pinned(charter, vo) \in Charter
         /\ Pinned(charter, vo).caps = charter.caps
         /\ Pinned(charter, vo).scopes = charter.scopes
         /\ \A v \in vo : Payload[v].operator # {}
                            => Pinned(charter, vo).operator = Payload[v].operator
BY OperatorOfType DEF Pinned, Charter

LEMMA ReissuableType ==
  ASSUME NEW charter \in Charter, NEW operator \in Opt(Operators)
  PROVE  /\ Reissuable(charter, operator) \in Charter
         /\ Reissuable(charter, operator).caps = charter.caps
         /\ Reissuable(charter, operator).scopes = charter.scopes
         /\ Reissuable(charter, operator).operator = operator
BY OptEmpty DEF Reissuable, Charter

----------------------------------------------------------------------------
\* Type correctness

\* What the handlers hold in memory: one that is past its SELECT of an agent
\* holds the row it saw, and that agent's row is still there.
SessionOK ==
  \A t \in Busy : session[t].op # "register"
                    => session[t].agent \in Registered /\ session[t].seen # {}

TypeInv == TypeOK /\ SessionOK

\* A handler that saw a row writes a full row back.
LEMMA WrittenRow ==
  ASSUME TypeInv, NEW t \in Busy, session[t].op # "register"
  PROVE  LET s == session[t] IN
         /\ SeenRow(s) \in s.seen /\ SeenRow(s) \in Row
         /\ \A vc \in CharterVc : [rows[s.agent] EXCEPT !.charter = vc] \in Row
         /\ Rotated(s) \in Row /\ Reissued(s) \in Row
         /\ Rotated(s).charter = IssueCharter(s.agent, s.claims, SeenRow(s).index)
         /\ Reissued(s).charter = IssueCharter(s.agent, s.claims, SeenRow(s).index)
         /\ Rotated(s).index = rows[s.agent].index /\ Rotated(s).revoked = rows[s.agent].revoked
         /\ Reissued(s).index = rows[s.agent].index /\ Reissued(s).revoked = rows[s.agent].revoked
         /\ Reissued(s).key = rows[s.agent].key
         /\ Rotated(s).key \in {rows[s.agent].key, s.key}
<1> DEFINE s == session[t]
<1>1. s \in Session /\ s.seen # {} /\ s.agent \in Registered /\ rows[s.agent] \in Row
  BY DEF TypeInv, TypeOK, SessionOK
<1>2. SeenRow(s) \in s.seen /\ SeenRow(s) \in Row
  BY <1>1, OptElement DEF SeenRow, Session
<1>3. s.agent \in Agents /\ s.claims \in Charter /\ s.key \in Keys
  BY <1>1 DEF Session
<1>4. IssueCharter(s.agent, s.claims, SeenRow(s).index) \in CharterVc
  BY <1>2, <1>3, IssueType DEF Row, TypeInv, TypeOK
<1>5. QED
  BY <1>1, <1>2, <1>3, <1>4 DEF Rotated, Reissued, Row

LEMMA HoldType ==
  ASSUME TypeInv, NEW t \in Threads, NEW s \in Session, Hold(t, s), rows' = rows,
         s.op # "register" => s.agent \in Registered /\ s.seen # {}
  PROVE  /\ Busy' \subseteq Threads
         /\ session' \in [Busy' -> Session]
         /\ SessionOK'
         /\ Busy' = Busy \cup {t}
         /\ session'[t] = s
         /\ \A u \in Busy : u # t => session'[u] = session[u]
<1>1. session \in [DOMAIN session -> Session] /\ DOMAIN session \subseteq Threads
  BY DEF TypeInv, TypeOK, Busy
<1>2. session' = Put(session, t, s)
  BY DEF Hold
<1>3. /\ Busy' = Busy \cup {t}
      /\ session' \in [Busy' -> Session]
      /\ session'[t] = s
      /\ \A u \in Busy : u # t => session'[u] = session[u]
  BY <1>1, <1>2 DEF Put, Busy
<1>4. SessionOK'
  BY <1>3 DEF TypeInv, SessionOK, Registered
<1>5. QED
  BY <1>1, <1>3, <1>4 DEF Busy

LEMMA CloseType ==
  ASSUME TypeInv, NEW t \in Busy, Close(t), Registered \subseteq Registered'
  PROVE  /\ Busy' \subseteq Threads
         /\ session' \in [Busy' -> Session]
         /\ SessionOK'
         /\ Busy' = Busy \ {t}
         /\ \A u \in Busy' : session'[u] = session[u]
<1>1. session \in [DOMAIN session -> Session] /\ DOMAIN session \subseteq Threads
  BY DEF TypeInv, TypeOK, Busy
<1>2. session' = Drop(session, t)
  BY DEF Close
<1>3. /\ Busy' = Busy \ {t}
      /\ session' \in [Busy' -> Session]
      /\ \A u \in Busy' : session'[u] = session[u]
  BY <1>1, <1>2 DEF Drop, Busy
<1>4. SessionOK'
  BY <1>3 DEF TypeInv, SessionOK
<1>5. QED
  BY <1>1, <1>3, <1>4 DEF Busy

LEMMA ConsumeType ==
  ASSUME TypeInv, NEW vo \in Opt(Vouchers), Consume(vo)
  PROVE  consumed' \subseteq Vouchers /\ uses' \in [Vouchers -> Nat]
BY DEF TypeInv, TypeOK, Consume, Opt

THEOREM InitType == Init => TypeInv
BY DEF Init, TypeInv, TypeOK, SessionOK, Empty, Busy, Registered

\* A handler that opens or goes on to its next step changes only what it holds.
Holds(t, s) == Hold(t, s) /\ UNCHANGED <<now, rows, lastId, consumed, uses>>

LEMMA HoldsType ==
  ASSUME TypeInv, NEW t \in Threads, NEW s \in Session, Holds(t, s),
         s.op # "register" => s.agent \in Registered /\ s.seen # {}
  PROVE  TypeInv'
<1>1. TypeOK'
  BY HoldType DEF Holds, TypeInv, TypeOK, Registered, Busy
<1>2. SessionOK'
  BY HoldType DEF Holds
<1>3. QED
  BY <1>1, <1>2 DEF TypeInv

\* So does one that writes its agent's row back and spends its voucher.
LEMMA UpdateType ==
  ASSUME TypeInv, NEW t \in Busy, session[t].op # "register", NEW r \in Row,
         rows' = [rows EXCEPT ![session[t].agent] = r],
         Consume(session[t].voucher) \/ UNCHANGED <<consumed, uses>>,
         Close(t), UNCHANGED <<now, lastId>>
  PROVE  TypeInv' /\ Registered' = Registered
<1>1. Registered' = Registered
  BY DEF TypeInv, TypeOK, Registered
<1>2. rows' \in [Registered' -> Row]
  BY <1>1 DEF TypeInv, TypeOK
<1>3. session[t].voucher \in Opt(Vouchers)
  BY DEF TypeInv, TypeOK, Session
<1>4. consumed' \subseteq Vouchers /\ uses' \in [Vouchers -> Nat]
  BY <1>3, ConsumeType DEF TypeInv, TypeOK
<1>5. Busy' \subseteq Threads /\ session' \in [Busy' -> Session] /\ SessionOK'
  BY <1>1, CloseType
<1>6. QED
  BY <1>1, <1>2, <1>4, <1>5 DEF TypeInv, TypeOK

LEMMA RegisterVoucherType ==
  ASSUME TypeInv, NEW t \in Threads, NEW a \in Agents, NEW key \in Keys,
         NEW charter \in RequestedCharters, NEW vo \in Opt(Vouchers),
         RegisterVoucher(t, a, key, charter, vo)
  PROVE  TypeInv'
<1> DEFINE s == Enrolling(a, key, charter, vo)
<1>1. s \in Session /\ s.op = "register"
  BY OptEmpty, RegistryAssumption DEF Session, Enrolling
<1>2. Holds(t, s)
  BY DEF RegisterVoucher, Holds
<1> HIDE DEF s
<1>3. QED
  BY <1>1, <1>2, HoldsType

LEMMA RegisterSelectType ==
  ASSUME TypeInv, NEW t \in Threads, RegisterSelect(t)
  PROVE  TypeInv'
<1> DEFINE s == [session[t] EXCEPT !.step = "write",
                   !.claims = Pinned(session[t].claims, session[t].voucher)]
<1>1. session[t] \in Session /\ session[t].op = "register"
  BY DEF RegisterSelect, At, TypeInv, TypeOK
<1>2. Pinned(session[t].claims, session[t].voucher) \in Charter
  BY <1>1, PinnedType DEF Session
<1>3. s \in Session /\ s.op = "register"
  BY <1>1, <1>2 DEF Session
<1>4. Holds(t, s)
  BY DEF RegisterSelect, Holds
<1>5. QED
  BY <1>3, <1>4, HoldsType

LEMMA RegisterWriteType ==
  ASSUME TypeInv, NEW t \in Threads, RegisterWrite(t)
  PROVE  /\ TypeInv'
         /\ Registered' = Registered \cup {session[t].agent}
         /\ \A b \in Registered : rows'[b] = rows[b]
<1> DEFINE s == session[t]
           r == [index |-> NextRowId, key |-> s.key, revoked |-> FALSE,
                 charter |-> IssueCharter(s.agent, s.claims, NextRowId)]
<1>1. t \in Busy /\ s \in Session
  BY DEF RegisterWrite, At, TypeInv, TypeOK
<1>2. s.agent \in Agents /\ s.claims \in Charter /\ s.key \in Keys /\ s.voucher \in Opt(Vouchers)
  BY <1>1 DEF Session
<1>3. NextRowId \in Nat \ {0} /\ now \in Nat
  BY DEF NextRowId, TypeInv, TypeOK
<1>4. r \in Row
  BY <1>2, <1>3, IssueType DEF Row
<1>5. rows' = Put(rows, s.agent, r) /\ s.agent \notin Registered
  BY DEF RegisterWrite
<1>6. /\ Registered' = Registered \cup {s.agent}
      /\ rows' \in [Registered' -> Row]
      /\ \A b \in Registered : rows'[b] = rows[b]
  BY <1>4, <1>5 DEF Put, Registered, TypeInv, TypeOK
<1>7. consumed' \subseteq Vouchers /\ uses' \in [Vouchers -> Nat]
  BY <1>2, ConsumeType DEF RegisterWrite
<1>8. Busy' \subseteq Threads /\ session' \in [Busy' -> Session] /\ SessionOK'
  BY <1>1, <1>6, CloseType DEF RegisterWrite
<1>9. QED
  BY <1>2, <1>3, <1>6, <1>7, <1>8 DEF RegisterWrite, TypeInv, TypeOK

LEMMA RotateSelectType ==
  ASSUME TypeInv, NEW t \in Threads, NEW a \in Agents, NEW key \in Keys, NEW signer \in Keys,
         RotateSelect(t, a, key, signer)
  PROVE  TypeInv'
<1> DEFINE s == Rotating(a, key, signer)
<1>1. a \in Registered /\ rows[a] \in Row
  BY DEF RotateSelect, Standing, TypeInv, TypeOK
<1>2. s \in Session /\ s.agent \in Registered /\ s.seen # {}
  BY <1>1, OptEmpty, OptSingle, ClaimsType DEF Session, Row, Rotating
<1>3. Holds(t, s)
  BY DEF RotateSelect, Holds
<1> HIDE DEF s
<1>4. QED
  BY <1>2, <1>3, HoldsType

LEMMA RotateWriteType ==
  ASSUME TypeInv, NEW t \in Threads, RotateWrite(t)
  PROVE  TypeInv' /\ Registered' = Registered
<1>1. t \in Busy /\ session[t].op # "register"
  BY DEF RotateWrite, At
<1>2. Rotated(session[t]) \in Row
  BY <1>1, WrittenRow
<1>3. QED
  BY <1>1, <1>2, UpdateType DEF RotateWrite

LEMMA ReissueSelectType ==
  ASSUME TypeInv, NEW t \in Threads, NEW a \in Agents, NEW charter \in RequestedCharters,
         NEW signer \in Keys, NEW iat, NEW vo \in Opt(Vouchers),
         ReissueSelect(t, a, charter, signer, iat, vo)
  PROVE  TypeInv'
<1> DEFINE s == Reissuing("voucher", a, charter, signer, vo)
           w == Reissuing("write", a, Reissuable(charter, rows[a].charter.operator), signer, vo)
<1>1. a \in Registered /\ rows[a] \in Row /\ charter \in Charter
  BY RegistryAssumption DEF ReissueSelect, Standing, TypeInv, TypeOK
<1>2. rows[a].charter.operator \in Opt(Operators)
  BY <1>1 DEF Row, CharterVc
<1>3. s \in Session /\ s.agent \in Registered /\ s.seen # {}
  BY <1>1, OptSingle DEF Session, Reissuing
<1>4. w \in Session /\ w.agent \in Registered /\ w.seen # {}
  BY <1>1, <1>2, OptSingle, ReissuableType DEF Session, Reissuing
<1>5. Holds(t, s) \/ Holds(t, w)
  BY DEF ReissueSelect, Holds
<1> HIDE DEF s, w
<1>6. QED
  BY <1>3, <1>4, <1>5, HoldsType

LEMMA ReissueVoucherType ==
  ASSUME TypeInv, NEW t \in Threads, ReissueVoucher(t)
  PROVE  TypeInv'
<1> DEFINE s == session[t]
           current == SeenRow(s).charter.operator
           named == OperatorOf(s.voucher)
           kept == IF named = {} THEN current ELSE named
           w == [s EXCEPT !.step = "write", !.claims = Reissuable(s.claims, kept)]
<1>1. t \in Busy /\ s \in Session /\ s.op # "register"
  BY DEF ReissueVoucher, At, TypeInv, TypeOK
<1>2. SeenRow(s) \in Row
  BY <1>1, WrittenRow
<1>3. current \in Opt(Operators) /\ named \in Opt(Operators)
  BY <1>1, <1>2, OperatorOfType DEF Row, CharterVc, Session
<1>4. Reissuable(s.claims, kept) \in Charter
  BY <1>1, <1>3, ReissuableType DEF Session
<1>5. w \in Session
  BY <1>1, <1>4 DEF Session
<1>6. w.agent \in Registered /\ w.seen # {}
  BY <1>1 DEF TypeInv, SessionOK, Session
<1>7. Holds(t, w)
  BY DEF ReissueVoucher, Holds
<1>8. QED
  BY <1>5, <1>6, <1>7, HoldsType

LEMMA ReissueWriteType ==
  ASSUME TypeInv, NEW t \in Threads, ReissueWrite(t)
  PROVE  TypeInv' /\ Registered' = Registered
<1>1. t \in Busy /\ session[t].op # "register"
  BY DEF ReissueWrite, At
<1>2. Reissued(session[t]) \in Row
  BY <1>1, WrittenRow
<1>3. QED
  BY <1>1, <1>2, UpdateType DEF ReissueWrite

LEMMA RevokeSelectType ==
  ASSUME TypeInv, NEW t \in Threads, NEW a \in Agents, NEW vo \in Opt(Vouchers),
         RevokeSelect(t, a, vo)
  PROVE  TypeInv'
<1> DEFINE s == Revoking(a, vo)
<1>1. a \in Registered /\ rows[a] \in Row
  BY DEF RevokeSelect, Standing, TypeInv, TypeOK
<1>2. s \in Session /\ s.agent \in Registered /\ s.seen # {}
  BY <1>1, OptEmpty, OptSingle, ClaimsType DEF Session, Row, Revoking
<1>3. Holds(t, s)
  BY DEF RevokeSelect, Holds
<1> HIDE DEF s
<1>4. QED
  BY <1>2, <1>3, HoldsType

LEMMA RevokeVoucherType ==
  ASSUME TypeInv, NEW t \in Threads, RevokeVoucher(t)
  PROVE  TypeInv'
<1> DEFINE w == [session[t] EXCEPT !.step = "write"]
<1>1. t \in Busy /\ session[t] \in Session /\ session[t].op # "register"
  BY DEF RevokeVoucher, At, TypeInv, TypeOK
<1>2. w \in Session /\ w.agent \in Registered /\ w.seen # {}
  BY <1>1 DEF Session, TypeInv, SessionOK
<1>3. Holds(t, w)
  BY DEF RevokeVoucher, Holds
<1>4. QED
  BY <1>2, <1>3, HoldsType

LEMMA RevokeWriteType ==
  ASSUME TypeInv, NEW t \in Threads, RevokeWrite(t)
  PROVE  TypeInv' /\ Registered' = Registered
<1> DEFINE a == session[t].agent
           r == [rows[a] EXCEPT !.revoked = TRUE]
<1>1. t \in Busy /\ session[t].op # "register"
  BY DEF RevokeWrite, At
<1>2. r \in Row
  BY <1>1 DEF TypeInv, TypeOK, SessionOK, Row
<1>3. rows' = [rows EXCEPT ![a] = r]
  BY DEF RevokeWrite
<1>4. QED
  BY <1>1, <1>2, <1>3, UpdateType DEF RevokeWrite

LEMMA AbortType ==
  ASSUME TypeInv, NEW t \in Threads, Abort(t)
  PROVE  TypeInv'
<1>1. t \in Busy /\ Registered' = Registered
  BY DEF Abort, Registered
<1>2. Busy' \subseteq Threads /\ session' \in [Busy' -> Session] /\ SessionOK'
  BY <1>1, CloseType DEF Abort
<1>3. QED
  BY <1>1, <1>2 DEF Abort, TypeInv, TypeOK

LEMMA NextType == TypeInv /\ [Next]_vars => TypeInv'
<1> SUFFICES ASSUME TypeInv, [Next]_vars PROVE TypeInv'
  OBVIOUS
<1>1. ASSUME NEW t \in Threads, Request(t) PROVE TypeInv'
  BY <1>1, RegisterVoucherType, RotateSelectType, ReissueSelectType, RevokeSelectType
  DEF Request
<1>2. ASSUME NEW t \in Threads, Continue(t) PROVE TypeInv'
  BY <1>2, RegisterSelectType, RegisterWriteType, RotateWriteType, ReissueVoucherType,
     ReissueWriteType, RevokeVoucherType, RevokeWriteType, AbortType
  DEF Continue
<1>3. CASE Tick
  BY <1>3 DEF Tick, TypeInv, TypeOK, SessionOK, Busy, Registered
<1>4. CASE UNCHANGED vars
  BY <1>4 DEF vars, TypeInv, TypeOK, SessionOK, Busy, Registered
<1>5. QED
  BY <1>1, <1>2, <1>3, <1>4 DEF Next

\* Every reachable state of the registry is well typed, whatever is requested.
THEOREM TypeCorrect == Spec => []TypeOK
<1>1. Spec => []TypeInv
  BY InitType, NextType, PTL DEF Spec
<1>2. TypeInv => TypeOK
  BY DEF TypeInv
<1>3. QED
  BY <1>1, <1>2, PTL

----------------------------------------------------------------------------
\* The sessions after a step: one handler's is new, or one is gone

LEMMA SessionsAfterHold ==
  ASSUME TypeInv, NEW t \in Threads, NEW s, Hold(t, s)
  PROVE  /\ Busy' = Busy \cup {t}
         /\ session'[t] = s
         /\ \A u \in Busy : u # t => session'[u] = session[u]
BY DEF TypeInv, TypeOK, Hold, Put, Busy

LEMMA SessionsAfterClose ==
  ASSUME TypeInv, NEW t \in Busy, Close(t)
  PROVE  /\ Busy' = Busy \ {t}
         /\ \A u \in Busy' : session'[u] = session[u]
BY DEF TypeInv, TypeOK, Close, Drop, Busy

\* What a handler that opens, or goes on to its next step, then holds in memory:
\* the session s, derived from the tables as they are now.
OpensRegister(s) ==
  \E a \in Agents, key \in Keys, charter \in RequestedCharters, vo \in Opt(Vouchers) :
    s = Enrolling(a, key, charter, vo) /\ VerifyGrant(vo, a, "enroll", FALSE)

OpensRotate(s) ==
  \E a \in Registered, key, signer \in Keys :
    s = Rotating(a, key, signer) /\ Standing(a) /\ signer = rows[a].key

OpensRenew(s) ==
  \E a \in Registered, signer \in Keys, charter \in RequestedCharters :
    /\ s = Reissuing("write", a, Reissuable(charter, rows[a].charter.operator), signer, {})
    /\ Renewable(charter, rows[a].charter) /\ Standing(a)

OpensAmend(s) ==
  \E a \in Registered, signer \in Keys, charter \in RequestedCharters, vo \in Opt(Vouchers) :
    s = Reissuing("voucher", a, charter, signer, vo) /\ Standing(a)

OpensRevoke(s) ==
  \E a \in Registered, vo \in Opt(Vouchers) : s = Revoking(a, vo) /\ Standing(a)

Opens(s) ==
  OpensRegister(s) \/ OpensRotate(s) \/ OpensRenew(s) \/ OpensAmend(s) \/ OpensRevoke(s)

\* The same for a handler that held r and goes on to its transaction.
ProceedsRegister(r, s) ==
  /\ r.op = "register" /\ WithinVoucher(r.claims, r.voucher) /\ r.agent \notin Registered
  /\ s = [r EXCEPT !.step = "write", !.claims = Pinned(r.claims, r.voucher)]

ProceedsAmend(r, s) ==
  \E operator \in Opt(Operators) :
    /\ r.op = "reissue" /\ WithinVoucher(r.claims, r.voucher)
    /\ VerifyGrant(r.voucher, r.agent, "amend", TRUE)
    /\ operator = IF OperatorOf(r.voucher) = {} THEN SeenRow(r).charter.operator
                  ELSE OperatorOf(r.voucher)
    /\ SeenRow(r).charter.operator \in {{}, operator}
    /\ s = [r EXCEPT !.step = "write", !.claims = Reissuable(r.claims, operator)]

ProceedsRevoke(r, s) ==
  /\ r.op = "revoke" /\ VerifyGrant(r.voucher, r.agent, "revoke", FALSE)
  /\ s = [r EXCEPT !.step = "write"]

Proceeds(r, s) == ProceedsRegister(r, s) \/ ProceedsAmend(r, s) \/ ProceedsRevoke(r, s)

\* The transactions that end the four handlers.
Writes(t) == RegisterWrite(t) \/ RotateWrite(t) \/ ReissueWrite(t) \/ RevokeWrite(t)

\* A step that leaves the tables alone.
Quiet == UNCHANGED <<rows, lastId, consumed, uses>>

LEMMA RequestOpens ==
  ASSUME NEW t \in Threads, Request(t)
  PROVE  Quiet /\ \E s : Hold(t, s) /\ Opens(s)
<1>1. ASSUME NEW a \in Agents, NEW vo \in Opt(Vouchers), NEW key \in Keys,
             NEW charter \in RequestedCharters, RegisterVoucher(t, a, key, charter, vo)
      PROVE  Quiet /\ \E s : Hold(t, s) /\ OpensRegister(s)
  BY <1>1 DEF RegisterVoucher, Quiet, OpensRegister
<1>2. ASSUME NEW a \in Agents, NEW key \in Keys, NEW signer \in Keys,
             RotateSelect(t, a, key, signer)
      PROVE  Quiet /\ \E s : Hold(t, s) /\ OpensRotate(s)
  BY <1>2 DEF RotateSelect, ProvesCurrentKey, Standing, Quiet, OpensRotate
<1>3. ASSUME NEW a \in Agents, NEW charter \in RequestedCharters, NEW signer \in Keys,
             NEW iat, NEW vo \in Opt(Vouchers), ReissueSelect(t, a, charter, signer, iat, vo)
      PROVE  Quiet /\ \E s : Hold(t, s) /\ (OpensRenew(s) \/ OpensAmend(s))
  BY <1>3 DEF ReissueSelect, Standing, Quiet, OpensRenew, OpensAmend
<1>4. ASSUME NEW a \in Agents, NEW vo \in Opt(Vouchers), RevokeSelect(t, a, vo)
      PROVE  Quiet /\ \E s : Hold(t, s) /\ OpensRevoke(s)
  BY <1>4 DEF RevokeSelect, Standing, Quiet, OpensRevoke
<1>5. QED
  BY <1>1, <1>2, <1>3, <1>4 DEF Request, Opens

LEMMA ContinueProceeds ==
  ASSUME TypeInv, NEW t \in Threads, Continue(t)
  PROVE  \/ Writes(t)
         \/ Quiet /\ \E s : Hold(t, s) /\ t \in Busy /\ Proceeds(session[t], s)
         \/ Quiet /\ t \in Busy /\ Close(t)
<1> DEFINE r == session[t]
<1>1. CASE RegisterSelect(t)
  BY <1>1 DEF RegisterSelect, At, Quiet, Proceeds, ProceedsRegister
<1>2. CASE ReissueVoucher(t)
  <2> DEFINE current == SeenRow(r).charter.operator
             named == OperatorOf(r.voucher)
             operator == IF named = {} THEN current ELSE named
             s == [r EXCEPT !.step = "write", !.claims = Reissuable(r.claims, operator)]
  <2>1. t \in Busy /\ r \in Session /\ r.op = "reissue" /\ SeenRow(r) \in Row
    BY <1>2, WrittenRow DEF ReissueVoucher, At, TypeInv, TypeOK
  <2>2. operator \in Opt(Operators)
    BY <2>1, OperatorOfType DEF Session, Row, CharterVc
  <2>3. /\ Quiet /\ Hold(t, s) /\ VerifyGrant(r.voucher, r.agent, "amend", TRUE)
        /\ WithinVoucher(r.claims, r.voucher)
        /\ named = {} \/ current = {} \/ named = current
    BY <1>2 DEF ReissueVoucher, Quiet
  <2>4. Proceeds(session[t], s)
    BY <2>1, <2>2, <2>3 DEF Proceeds, ProceedsAmend
  <2>5. QED
    BY <2>1, <2>3, <2>4
<1>3. CASE RevokeVoucher(t)
  BY <1>3 DEF RevokeVoucher, At, Quiet, Proceeds, ProceedsRevoke
<1>4. CASE Abort(t)
  BY <1>4 DEF Abort, Quiet
<1>5. QED
  BY <1>1, <1>2, <1>3, <1>4 DEF Continue, Writes

\* Every step is one of these.
LEMMA StepCases ==
  ASSUME TypeInv, [Next]_vars
  PROVE  \/ \E t \in Threads : Writes(t)
         \/ Quiet /\ \E t \in Threads : \E s : Hold(t, s) /\ Opens(s)
         \/ Quiet /\ \E t \in Busy : \E s : Hold(t, s) /\ Proceeds(session[t], s)
         \/ Quiet /\ \E t \in Busy : Close(t)
         \/ Quiet /\ UNCHANGED session
<1>1. CASE \E t \in Threads : Request(t)
  BY <1>1, RequestOpens
<1>2. CASE \E t \in Threads : Continue(t)
  BY <1>2, ContinueProceeds
<1>3. CASE Tick
  BY <1>3 DEF Tick, Quiet
<1>4. CASE UNCHANGED vars
  BY <1>4 DEF vars, Quiet
<1>5. QED
  BY <1>1, <1>2, <1>3, <1>4 DEF Next

LEMMA WritesClose ==
  ASSUME NEW t \in Threads, Writes(t)
  PROVE  t \in Busy /\ Close(t)
BY DEF Writes, RegisterWrite, RotateWrite, ReissueWrite, RevokeWrite, At

----------------------------------------------------------------------------
\* Single use

LEMMA ConsumeSpends ==
  ASSUME TypeInv, SpentOnce, NEW vo \in Opt(Vouchers),
         Consume(vo) \/ UNCHANGED <<consumed, uses>>
  PROVE  SpentOnce'
<1>1. CASE UNCHANGED <<consumed, uses>>
  BY <1>1 DEF SpentOnce
<1>2. CASE Consume(vo)
  <2> SUFFICES ASSUME NEW v \in Vouchers
               PROVE  uses'[v] = IF v \in consumed' THEN 1 ELSE 0
    BY DEF SpentOnce
  <2>1. consumed' = consumed \cup vo /\ uses[v] \in Nat
    BY <1>2 DEF Consume, TypeInv, TypeOK
  <2>2. uses'[v] = IF v \in vo THEN uses[v] + 1 ELSE uses[v]
    BY <1>2 DEF Consume
  <2>3. v \in vo => v \notin consumed
    BY <1>2 DEF Consume, Unspent
  <2>4. uses[v] = IF v \in consumed THEN 1 ELSE 0
    BY DEF SpentOnce
  <2>5. QED
    BY <2>1, <2>2, <2>3, <2>4
<1>3. QED
  BY <1>1, <1>2

\* No voucher authorises two transactions, however many handlers found it unspent:
\* of the handlers that verified it, the primary key lets one commit.
THEOREM VouchersSpentOnce == Spec => []SpentOnce
<1>1. Init => SpentOnce
  BY DEF Init, SpentOnce
<1>2. TypeInv /\ SpentOnce /\ [Next]_vars => SpentOnce'
  <2> SUFFICES ASSUME TypeInv, SpentOnce, [Next]_vars PROVE SpentOnce'
    OBVIOUS
  <2>1. ASSUME NEW t \in Busy PROVE session[t].voucher \in Opt(Vouchers)
    BY <2>1 DEF TypeInv, TypeOK, Session
  <2>2. ASSUME NEW t \in Threads, Writes(t)
        PROVE  t \in Busy /\ (Consume(session[t].voucher) \/ UNCHANGED <<consumed, uses>>)
    BY <2>2 DEF Writes, RegisterWrite, RotateWrite, ReissueWrite, RevokeWrite, At
  <2>3. CASE Quiet
    BY <2>3 DEF Quiet, SpentOnce
  <2>4. QED
    BY <2>1, <2>2, <2>3, StepCases, ConsumeSpends
<1>3. Spec => []TypeInv
  BY InitType, NextType, PTL DEF Spec
<1>4. QED
  BY <1>1, <1>2, <1>3, PTL DEF Spec

----------------------------------------------------------------------------
\* Rows: they stay, they stay revoked, their keys change by rotation only

\* What the transaction of each handler does to the agent table.
LEMMA WriteEffect ==
  ASSUME TypeInv, [Next]_vars, NEW a \in Registered
  PROVE  /\ a \in Registered'
         /\ rows'[a].index = rows[a].index
         /\ rows[a].revoked => rows'[a].revoked
         /\ rows'[a].key # rows[a].key =>
              \E t \in Busy \ Busy' : /\ session[t].op = "rotate"
                                      /\ session[t].agent = a
                                      /\ session[t].key = rows'[a].key
<1>1. rows[a] \in Row
  BY DEF TypeInv, TypeOK
<1>2. CASE \E t \in Threads : RegisterWrite(t)
  BY <1>2, RegisterWriteType
<1>3. ASSUME NEW t \in Threads, RotateWrite(t)
      PROVE  /\ a \in Registered' /\ rows'[a].index = rows[a].index
             /\ rows[a].revoked => rows'[a].revoked
             /\ rows'[a].key # rows[a].key =>
                  t \in Busy \ Busy' /\ session[t].op = "rotate"
                    /\ session[t].agent = a /\ session[t].key = rows'[a].key
  <2>1. t \in Busy /\ session[t].op = "rotate" /\ Registered' = Registered
    BY <1>3, RotateWriteType DEF RotateWrite, At
  <2>2. rows'[a] = IF a = session[t].agent THEN Rotated(session[t]) ELSE rows[a]
    BY <1>3, <2>1 DEF RotateWrite, TypeInv, TypeOK
  <2>3. t \notin Busy'
    BY <1>3, <2>1, SessionsAfterClose DEF RotateWrite
  <2>4. QED
    BY <2>1, <2>2, <2>3, WrittenRow
<1>4. ASSUME NEW t \in Threads, ReissueWrite(t)
      PROVE  /\ a \in Registered' /\ rows'[a].index = rows[a].index
             /\ rows[a].revoked => rows'[a].revoked /\ rows'[a].key = rows[a].key
             /\ rows'[a].key = rows[a].key
  <2>1. t \in Busy /\ session[t].op = "reissue" /\ Registered' = Registered
    BY <1>4, ReissueWriteType DEF ReissueWrite, At
  <2>2. rows'[a] = IF a = session[t].agent THEN Reissued(session[t]) ELSE rows[a]
    BY <1>4, <2>1 DEF ReissueWrite, TypeInv, TypeOK
  <2>3. QED
    BY <2>1, <2>2, WrittenRow
<1>5. ASSUME NEW t \in Threads, RevokeWrite(t)
      PROVE  /\ a \in Registered' /\ rows'[a].index = rows[a].index
             /\ rows[a].revoked => rows'[a].revoked
             /\ rows'[a].key = rows[a].key
  BY <1>1, <1>5, RevokeWriteType DEF RevokeWrite, TypeInv, TypeOK, Row
<1>6. CASE Quiet
  BY <1>6 DEF Quiet, Registered
<1>7. QED
  BY <1>2, <1>3, <1>4, <1>5, <1>6, StepCases DEF Writes

\* A revocation is final: no handler that read the row before it undoes it.
THEOREM RevocationIsFinal == Spec => RevokedForever
<1>1. TypeInv /\ [Next]_vars
        => [\A a \in Registered : a \in Registered' /\ (rows[a].revoked => rows'[a].revoked)]_vars
  BY WriteEffect
<1>2. Spec => []TypeInv
  BY InitType, NextType, PTL DEF Spec
<1>3. QED
  BY <1>1, <1>2, PTL DEF Spec, RevokedForever

\* Status indexes never change, and keys change by the commit of a rotation only.
THEOREM KeysChangeByRotation == Spec => KeyChangesByRotation
<1>1. TypeInv /\ [Next]_vars
        => [\A a \in Registered :
              /\ rows'[a].index = rows[a].index
              /\ rows'[a].key # rows[a].key =>
                   \E t \in Busy \ Busy' : /\ session[t].op = "rotate"
                                           /\ session[t].agent = a
                                           /\ session[t].key = rows'[a].key]_vars
  BY WriteEffect
<1>2. Spec => []TypeInv
  BY InitType, NextType, PTL DEF Spec
<1>3. QED
  BY <1>1, <1>2, PTL DEF Spec, KeyChangesByRotation

----------------------------------------------------------------------------
\* What readers see of an agent is an AgentRow

\* What a handler signs lives from the moment of the commit.
LEMMA IssuedLifetime ==
  ASSUME NEW a \in Agents, NEW b, NEW claims, NEW index
  PROVE  IssueCharter(b, claims, index).until = View(a)!Lifetime
BY DEF IssueCharter, View!Lifetime

\* The two ways in which a row changes, field by field.
ShownRows == [key : Opt(Keys), until : Opt(Nat), revoked : BOOLEAN]

LEMMA RowIssued ==
  ASSUME NEW r \in ShownRows, NEW s \in ShownRows, s.revoked = r.revoked
  PROVE  s = [[r EXCEPT !.key = s.key] EXCEPT !.until = s.until]
BY DEF ShownRows

LEMMA RowWithdrawn ==
  ASSUME NEW r \in ShownRows, NEW s \in ShownRows, s.key = r.key, s.until = r.until
  PROVE  s = [r EXCEPT !.revoked = s.revoked]
BY DEF ShownRows

\* The row of an agent that is registered, and how it changes when it stays so.
LEMMA RegisteredShows ==
  ASSUME TypeInv, TypeInv', NEW a \in Agents, a \in Registered, a \in Registered'
  PROVE  /\ RowOf(a) \in ShownRows /\ RowOf(a)' \in ShownRows
         /\ RowOf(a).key = {rows[a].key} /\ RowOf(a)'.key = {rows'[a].key}
         /\ RowOf(a).until = rows[a].charter.until /\ RowOf(a)'.until = rows'[a].charter.until
         /\ RowOf(a).revoked = rows[a].revoked /\ RowOf(a)'.revoked = rows'[a].revoked
<1>1. rows[a] \in Row /\ rows'[a] \in Row
  BY DEF TypeInv, TypeOK
<1>2. /\ rows[a].charter.until \in Opt(Nat) /\ rows'[a].charter.until \in Opt(Nat)
      /\ {rows[a].key} \in Opt(Keys) /\ {rows'[a].key} \in Opt(Keys)
      /\ rows[a].revoked \in BOOLEAN /\ rows'[a].revoked \in BOOLEAN
  BY <1>1, OptSingle DEF Row, CharterVc
<1>3. RowOf(a) = [key |-> {rows[a].key}, until |-> rows[a].charter.until,
                  revoked |-> rows[a].revoked]
  BY DEF RowOf
<1>4. RowOf(a)' = [key |-> {rows'[a].key}, until |-> rows'[a].charter.until,
                   revoked |-> rows'[a].revoked]
  BY DEF RowOf
<1>5. QED
  BY <1>2, <1>3, <1>4 DEF ShownRows

\* The transaction of another agent's handler does not show.
LEMMA OthersRow ==
  ASSUME NEW a \in Agents, NEW b, b # a, Registered' = Registered \cup {b},
         a \in Registered => rows'[a] = rows[a]
  PROVE  RowOf(a)' = RowOf(a)
BY DEF RowOf

\* A charter that is committed, with the key the agent has or with another.
LEMMA IssueShows ==
  ASSUME TypeInv, TypeInv', NEW a \in Agents, a \in Registered, a \in Registered',
         UNCHANGED now, rows'[a].revoked = rows[a].revoked,
         rows'[a].charter.until = View(a)!Lifetime
  PROVE  View(a)!RowNext
<1>1. RowOf(a)' = [[RowOf(a) EXCEPT !.key = {rows'[a].key}] EXCEPT !.until = View(a)!Lifetime]
  <2> DEFINE r == RowOf(a)
             s == RowOf(a)'
  <2>1. /\ r \in ShownRows /\ s \in ShownRows /\ s.revoked = r.revoked
        /\ s.key = {rows'[a].key} /\ s.until = View(a)!Lifetime
    BY RegisteredShows
  <2> HIDE DEF r, s
  <2>2. s = [[r EXCEPT !.key = s.key] EXCEPT !.until = s.until]
    BY <2>1, RowIssued
  <2>3. QED
    BY <2>1, <2>2 DEF r, s
<1>2. RowOf(a).key # {} /\ rows'[a].key \in Keys
  BY RegisteredShows DEF TypeInv, TypeOK, Row
<1>3. View(a)!Rotate
  BY <1>1, <1>2 DEF View!Rotate, View!Enrolled, View!WithCharter
<1>4. QED
  BY <1>3 DEF View!RowNext, View!Issue

LEMMA RegisterShows ==
  ASSUME TypeInv, NEW t \in Threads, RegisterWrite(t), NEW a \in Agents, a = session[t].agent
  PROVE  View(a)!RowNext
<1> DEFINE s == session[t]
<1>1. s.key \in Keys
  BY DEF RegisterWrite, At, TypeInv, TypeOK, Session
<1>2. a \notin Registered /\ a \in Registered' /\ UNCHANGED now
  BY RegisterWriteType DEF RegisterWrite
<1>3. rows'[a] = [index |-> NextRowId, key |-> s.key, revoked |-> FALSE,
                  charter |-> IssueCharter(a, s.claims, NextRowId)]
  BY DEF RegisterWrite, Put
<1>4. rows'[a].charter.until = View(a)!Lifetime
  BY <1>3, IssuedLifetime
<1>5. RowOf(a)' = [key |-> {s.key}, until |-> View(a)!Lifetime, revoked |-> FALSE]
  <2>1. /\ rows'[a].key = s.key /\ rows'[a].revoked = FALSE
        /\ rows'[a].charter.until = View(a)!Lifetime
    BY <1>3, <1>4
  <2>2. QED
    BY <1>2, <2>1 DEF RowOf
<1>6. RowOf(a) = [key |-> {}, until |-> {}, revoked |-> FALSE]
  BY <1>2 DEF RowOf
<1>7. RowOf(a)' = [[RowOf(a) EXCEPT !.key = {s.key}] EXCEPT !.until = View(a)!Lifetime]
  <2> DEFINE r == RowOf(a)
             n == RowOf(a)'
  <2>1. {s.key} \in Opt(Keys) /\ {} \in Opt(Keys) /\ {} \in Opt(Nat)
    BY <1>1, OptSingle, OptEmpty
  <2>2. View(a)!Lifetime \in Opt(Nat)
    BY OptSingle, OptEmpty, RegistryAssumption DEF View!Lifetime, TypeInv, TypeOK
  <2>3. r \in ShownRows /\ n \in ShownRows
    BY <1>5, <1>6, <2>1, <2>2 DEF ShownRows
  <2>4. n.revoked = r.revoked /\ n.key = {s.key} /\ n.until = View(a)!Lifetime
    BY <1>5, <1>6
  <2> HIDE DEF r, n
  <2>5. n = [[r EXCEPT !.key = n.key] EXCEPT !.until = n.until]
    BY <2>3, <2>4, RowIssued
  <2>6. QED
    BY <2>4, <2>5 DEF r, n
<1>8. RowOf(a).key = {}
  BY <1>6
<1>9. View(a)!Enrol
  BY <1>1, <1>7, <1>8 DEF View!Enrol, View!Enrolled, View!WithCharter
<1>10. QED
  BY <1>2, <1>9 DEF View!RowNext, View!Issue

LEMMA ReplaceShows ==
  ASSUME TypeInv, TypeInv', NEW t \in Threads, RotateWrite(t) \/ ReissueWrite(t),
         NEW a \in Agents, a = session[t].agent
  PROVE  View(a)!RowNext
<1> DEFINE s == session[t]
<1>1. t \in Busy /\ s.op # "register" /\ a \in Registered /\ UNCHANGED now
  BY DEF RotateWrite, ReissueWrite, At, TypeInv, SessionOK
<1>2. PICK r : /\ rows' = [rows EXCEPT ![a] = r]
               /\ r.revoked = rows[a].revoked
               /\ r.charter = IssueCharter(a, s.claims, SeenRow(s).index)
  BY <1>1, WrittenRow DEF RotateWrite, ReissueWrite
<1>3. a \in Registered' /\ rows'[a] = r
  BY <1>1, <1>2 DEF TypeInv, TypeOK, Registered
<1>4. QED
  BY <1>1, <1>2, <1>3, IssuedLifetime, IssueShows

LEMMA RevokeShows ==
  ASSUME TypeInv, TypeInv', NEW t \in Threads, RevokeWrite(t), NEW a \in Agents,
         a = session[t].agent
  PROVE  View(a)!RowNext
<1>1. a \in Registered /\ rows[a] \in Row /\ UNCHANGED now
  BY DEF RevokeWrite, At, TypeInv, TypeOK, SessionOK
<1>2. rows' = [rows EXCEPT ![a].revoked = TRUE]
  BY DEF RevokeWrite
<1>3. a \in Registered' /\ rows'[a] = [rows[a] EXCEPT !.revoked = TRUE]
  BY <1>1, <1>2 DEF TypeInv, TypeOK, Registered
<1>4. RowOf(a)' = [RowOf(a) EXCEPT !.revoked = TRUE] /\ RowOf(a).key # {}
  <2> DEFINE r == RowOf(a)
             s == RowOf(a)'
  <2>1. /\ rows'[a].key = rows[a].key /\ rows'[a].charter = rows[a].charter
        /\ rows'[a].revoked = TRUE
    BY <1>1, <1>3 DEF Row
  <2>2. /\ r \in ShownRows /\ s \in ShownRows
        /\ r.key = {rows[a].key} /\ s.key = {rows'[a].key}
        /\ r.until = rows[a].charter.until /\ s.until = rows'[a].charter.until
        /\ s.revoked = rows'[a].revoked
    BY <1>1, <1>3, RegisteredShows
  <2> HIDE DEF r, s
  <2>3. s.key = r.key /\ s.until = r.until /\ s.revoked = TRUE /\ r.key # {}
    BY <2>1, <2>2
  <2>4. s = [r EXCEPT !.revoked = s.revoked]
    BY <2>2, <2>3, RowWithdrawn
  <2>5. QED
    BY <2>3, <2>4 DEF r, s
<1>5. View(a)!Revoke
  BY <1>4 DEF View!Revoke, View!Enrolled
<1>6. QED
  BY <1>1, <1>5 DEF View!RowNext, View!Withdraw

\* The clock moves by a tick, and nothing else does then.
LEMMA ClockSteps == [Next]_vars => UNCHANGED now \/ (now' = now + 1 /\ Quiet)
<1>1. ASSUME NEW t \in Threads, Request(t) \/ Continue(t) PROVE UNCHANGED now
  <2>1. ASSUME Request(t) PROVE UNCHANGED now
    <3>1. \A a, key, charter, vo : RegisterVoucher(t, a, key, charter, vo) => UNCHANGED now
      BY DEF RegisterVoucher
    <3>2. \A a, key, signer : RotateSelect(t, a, key, signer) => UNCHANGED now
      BY DEF RotateSelect
    <3>3. \A a, charter, signer, iat, vo :
            ReissueSelect(t, a, charter, signer, iat, vo) => UNCHANGED now
      BY DEF ReissueSelect
    <3>4. \A a, vo : RevokeSelect(t, a, vo) => UNCHANGED now
      BY DEF RevokeSelect
    <3>5. QED
      BY <2>1, <3>1, <3>2, <3>3, <3>4 DEF Request
  <2>2. CASE RegisterSelect(t) \/ RegisterWrite(t)
    BY <2>2 DEF RegisterSelect, RegisterWrite
  <2>3. CASE RotateWrite(t) \/ ReissueVoucher(t) \/ ReissueWrite(t)
    BY <2>3 DEF RotateWrite, ReissueVoucher, ReissueWrite
  <2>4. CASE RevokeVoucher(t) \/ RevokeWrite(t) \/ Abort(t)
    BY <2>4 DEF RevokeVoucher, RevokeWrite, Abort
  <2>5. QED
    BY <1>1, <2>1, <2>2, <2>3, <2>4 DEF Continue
<1>2. QED
  BY <1>1 DEF Next, Tick, Quiet, vars

LEMMA StepShows ==
  ASSUME TypeInv, TypeInv', [Next]_vars, NEW a \in Agents
  PROVE  [View(a)!RowNext]_<<now, RowOf(a)>>
<1>1. CASE Quiet
  <2>1. RowOf(a)' = RowOf(a)
    BY <1>1 DEF Quiet, RowOf, Registered
  <2>2. QED
    BY <2>1, ClockSteps DEF View!RowNext, View!Pass
<1>2. ASSUME NEW t \in Threads, Writes(t)
      PROVE  [View(a)!RowNext]_<<now, RowOf(a)>>
  <2> DEFINE b == session[t].agent
  <2>1. CASE a = b
    BY <1>2, <2>1, RegisterShows, ReplaceShows, RevokeShows DEF Writes
  <2>2. CASE a # b
    <3>1. UNCHANGED now
      BY <1>2 DEF Writes, RegisterWrite, RotateWrite, ReissueWrite, RevokeWrite
    <3>2. CASE RegisterWrite(t)
      BY <2>2, <3>1, <3>2, RegisterWriteType, OthersRow
    <3>3. CASE RotateWrite(t) \/ ReissueWrite(t) \/ RevokeWrite(t)
      <4>1. /\ Registered' = Registered
            /\ a \in Registered => rows'[a] = rows[a]
        BY <2>2, <3>3, RotateWriteType, ReissueWriteType, RevokeWriteType
           DEF RotateWrite, ReissueWrite, RevokeWrite, TypeInv, TypeOK
      <4>2. RowOf(a)' = RowOf(a)
        BY <4>1 DEF RowOf
      <4>3. QED
        BY <3>1, <4>2
    <3>4. QED
      BY <1>2, <3>2, <3>3 DEF Writes
  <2>3. QED
    BY <2>1, <2>2
<1>3. QED
  BY <1>1, <1>2, StepCases

\* The registry implements AgentRow for each of its agents: any number of threads, agents and
\* late commits look to a reader like one row that moves by whole transactions.
THEOREM RegistryKeepsRows == Spec => KeepsRows
<1>1. Init => \A a \in Agents : View(a)!RowInit
  BY DEF Init, View!RowInit, View!NoAgent, RowOf, Registered, Empty
<1>2. TypeInv /\ TypeInv' /\ [Next]_vars
        => [\A a \in Agents : [View(a)!RowNext]_<<now, RowOf(a)>>]_vars
  BY StepShows
<1>3. Spec => []TypeInv
  BY InitType, NextType, PTL DEF Spec
<1>4. QED
  BY <1>1, <1>2, <1>3, PTL DEF Spec, KeepsRows

----------------------------------------------------------------------------
\* Status indexes: rowids are never reused, and a charter names its own agent's

\* What a handler that opens holds: the row as it is.
LEMMA SeenOfOpening ==
  ASSUME NEW s, Opens(s), s.op # "register"
  PROVE  s.agent \in Registered /\ s.seen = {rows[s.agent]} /\ SeenRow(s) = rows[s.agent]
<1>1. s.agent \in Registered /\ s.seen = {rows[s.agent]}
  <2>1. ~OpensRegister(s)
    <3>1. \A a, key, charter, vo : Enrolling(a, key, charter, vo).op = "register"
      BY DEF Enrolling
    <3>2. QED
      BY <3>1 DEF OpensRegister
  <2>2. OpensRotate(s) => s.agent \in Registered /\ s.seen = {rows[s.agent]}
    BY DEF OpensRotate, Rotating
  <2>3. OpensRenew(s) => s.agent \in Registered /\ s.seen = {rows[s.agent]}
    BY DEF OpensRenew, Reissuing
  <2>4. OpensAmend(s) => s.agent \in Registered /\ s.seen = {rows[s.agent]}
    BY DEF OpensAmend, Reissuing
  <2>5. OpensRevoke(s) => s.agent \in Registered /\ s.seen = {rows[s.agent]}
    BY DEF OpensRevoke, Revoking
  <2>6. QED
    BY <2>1, <2>2, <2>3, <2>4, <2>5 DEF Opens
<1>2. QED
  BY <1>1 DEF SeenRow

\* A handler that goes on holds the row it held.
LEMMA SeenOfProceeding ==
  ASSUME TypeInv, NEW t \in Busy, NEW s, Proceeds(session[t], s)
  PROVE  /\ s.op = session[t].op /\ s.agent = session[t].agent
         /\ s.voucher = session[t].voucher /\ SeenRow(s) = SeenRow(session[t])
         /\ s.step = "write"
<1>1. session[t] \in Session
  BY DEF TypeInv, TypeOK
<1>2. QED
  BY <1>1 DEF Proceeds, ProceedsRegister, ProceedsAmend, ProceedsRevoke, Session, SeenRow

RowsNumbered ==
  /\ \A a \in Registered : rows[a].charter.index = rows[a].index /\ rows[a].index <= lastId
  /\ \A a, b \in Registered : rows[a].index = rows[b].index => a = b

\* A handler that will sign a charter remembers the agent's own index.
SeenNumbered ==
  \A t \in Busy :
    session[t].op # "register" => SeenRow(session[t]).index = rows[session[t].agent].index

NumberInv == TypeInv /\ RowsNumbered /\ SeenNumbered

LEMMA SeenNumberedStep ==
  ASSUME NumberInv, [Next]_vars
  PROVE  SeenNumbered'
<1> SUFFICES ASSUME NEW u \in Busy', session'[u].op # "register"
             PROVE  SeenRow(session'[u]).index = rows'[session'[u].agent].index
  BY DEF SeenNumbered, SeenRow
<1>1. \A a \in Registered : rows'[a].index = rows[a].index
  BY WriteEffect DEF NumberInv
<1>2. CASE u \in Busy /\ session'[u] = session[u]
  BY <1>1, <1>2 DEF NumberInv, SeenNumbered, TypeInv, SessionOK
<1>3. ASSUME NEW t \in Threads, NEW s, Hold(t, s), Opens(s)
      PROVE  \/ u \in Busy /\ session'[u] = session[u]
             \/ SeenRow(session'[u]).index = rows'[session'[u].agent].index
  <2>1. \/ u \in Busy /\ session'[u] = session[u]
        \/ session'[u] = s
    BY <1>3, SessionsAfterHold DEF NumberInv
  <2>2. QED
    BY <1>1, <1>3, <2>1, SeenOfOpening
<1>4. ASSUME NEW t \in Busy, NEW s, Hold(t, s), Proceeds(session[t], s)
      PROVE  \/ u \in Busy /\ session'[u] = session[u]
             \/ SeenRow(session'[u]).index = rows'[session'[u].agent].index
  <2>1. \/ u \in Busy /\ session'[u] = session[u]
        \/ session'[u] = s
    BY <1>4, SessionsAfterHold DEF NumberInv, TypeInv, TypeOK
  <2>2. /\ s.op = session[t].op /\ s.agent = session[t].agent
        /\ SeenRow(s) = SeenRow(session[t])
    BY <1>4, SeenOfProceeding DEF NumberInv
  <2>3. s.op # "register" => SeenRow(s).index = rows'[s.agent].index
    BY <1>1, <2>2 DEF NumberInv, SeenNumbered, TypeInv, SessionOK
  <2>4. QED
    BY <2>1, <2>3
<1>5. ASSUME NEW t \in Busy, Close(t)
      PROVE  u \in Busy /\ session'[u] = session[u]
  BY <1>5, SessionsAfterClose DEF NumberInv
<1>6. CASE UNCHANGED session
  BY <1>2, <1>6 DEF Busy
<1>7. QED
  BY <1>2, <1>3, <1>4, <1>5, <1>6, StepCases, WritesClose DEF NumberInv

\* A new row has a number above all others; a charter that replaces one keeps its index.
LEMMA RowsNumberedStep ==
  ASSUME NumberInv, [Next]_vars
  PROVE  RowsNumbered'
<1>1. /\ \A a \in Registered : rows[a] \in Row /\ rows'[a].index = rows[a].index
      /\ lastId \in Nat
  BY WriteEffect DEF NumberInv, TypeInv, TypeOK
<1>2. ASSUME NEW t \in Threads, RegisterWrite(t) PROVE RowsNumbered'
  <2> DEFINE a == session[t].agent
  <2>1. /\ Registered' = Registered \cup {a} /\ a \notin Registered
        /\ \A b \in Registered : rows'[b] = rows[b]
    BY <1>2, RegisterWriteType DEF NumberInv, RegisterWrite
  <2>2. /\ rows'[a].index = lastId + 1 /\ rows'[a].charter.index = lastId + 1
        /\ lastId' = lastId + 1
    BY <1>2 DEF RegisterWrite, Put, NextRowId, IssueCharter
  <2>3. \A b \in Registered : rows[b].index \in Nat /\ rows[b].index <= lastId
    BY <1>1 DEF Row, NumberInv, RowsNumbered
  <2>4. \A b \in Registered' :
          rows'[b].charter.index = rows'[b].index /\ rows'[b].index <= lastId'
    BY <1>1, <2>1, <2>2, <2>3 DEF NumberInv, RowsNumbered
  <2>5. \A b, c \in Registered' : rows'[b].index = rows'[c].index => b = c
    <3>1. \A b \in Registered : rows'[b].index # rows'[a].index
      BY <1>1, <2>1, <2>2, <2>3
    <3>2. \A b, c \in Registered : rows'[b].index = rows'[c].index => b = c
      BY <2>1 DEF NumberInv, RowsNumbered
    <3>3. QED
      BY <2>1, <3>1, <3>2
  <2>6. QED
    BY <2>4, <2>5 DEF RowsNumbered
<1>3. ASSUME Registered' = Registered, lastId' = lastId,
             \A b \in Registered : rows'[b].charter.index = rows[b].charter.index
      PROVE  RowsNumbered'
  BY <1>1, <1>3 DEF NumberInv, RowsNumbered
<1>4. ASSUME NEW t \in Threads, RotateWrite(t) \/ ReissueWrite(t) PROVE RowsNumbered'
  <2> DEFINE s == session[t]
  <2>1. /\ t \in Busy /\ s.op # "register" /\ Registered' = Registered /\ lastId' = lastId
    BY <1>4, RotateWriteType, ReissueWriteType
       DEF RotateWrite, ReissueWrite, At, NumberInv
  <2>2. /\ Rotated(s).charter = IssueCharter(s.agent, s.claims, SeenRow(s).index)
        /\ Reissued(s).charter = IssueCharter(s.agent, s.claims, SeenRow(s).index)
    BY <2>1, WrittenRow DEF NumberInv
  <2>3. SeenRow(s).index = rows[s.agent].charter.index /\ s.agent \in Registered
    BY <2>1 DEF NumberInv, SeenNumbered, RowsNumbered, TypeInv, SessionOK
  <2>4. IssueCharter(s.agent, s.claims, SeenRow(s).index).index = rows[s.agent].charter.index
    BY <2>3 DEF IssueCharter
  <2>5. rows' = [rows EXCEPT ![s.agent] = Rotated(s)]
        \/ rows' = [rows EXCEPT ![s.agent] = Reissued(s)]
    BY <1>4 DEF RotateWrite, ReissueWrite
  <2>6. \A b \in Registered : rows'[b].charter.index = rows[b].charter.index
    BY <2>2, <2>4, <2>5 DEF NumberInv, TypeInv, TypeOK
  <2>7. QED
    BY <1>3, <2>1, <2>6
<1>5. ASSUME NEW t \in Threads, RevokeWrite(t) PROVE RowsNumbered'
  <2>1. Registered' = Registered /\ lastId' = lastId
    BY <1>5, RevokeWriteType DEF RevokeWrite, NumberInv
  <2>2. \A b \in Registered : rows'[b].charter = rows[b].charter
    BY <1>1, <1>5 DEF RevokeWrite, NumberInv, TypeInv, TypeOK, Row
  <2>3. QED
    BY <1>3, <2>1, <2>2
<1>6. CASE Quiet
  BY <1>3, <1>6 DEF Quiet, Registered
<1>7. QED
  BY <1>2, <1>4, <1>5, <1>6, StepCases DEF Writes, NumberInv

\* For any number of agents and threads, and any capacity: the bit that a charter names
\* is that of its own agent, set exactly when the agent is revoked.
THEOREM BitsTellRevocation == Spec => []CharterBitTellsRevocation
<1>1. Init => NumberInv
  BY InitType DEF Init, NumberInv, RowsNumbered, SeenNumbered, Registered, Busy, Empty
<1>2. NumberInv /\ [Next]_vars => NumberInv'
  BY RowsNumberedStep, SeenNumberedStep, NextType DEF NumberInv
<1>3. NumberInv => CharterBitTellsRevocation
  <2> SUFFICES ASSUME NumberInv, NEW a \in Registered,
                      rows[a].charter.index < StatusListBits
               PROVE  rows[a].charter.index \in StatusList <=> rows[a].revoked
    BY DEF CharterBitTellsRevocation
  <2>1. rows[a].charter.index = rows[a].index /\ rows[a].index \in Nat
    BY DEF NumberInv, RowsNumbered, TypeInv, TypeOK, Row
  <2>2. rows[a].index \in 0..(StatusListBits - 1)
    BY <2>1, RegistryAssumption
  <2>3. \A b \in Registered : rows[a].index = rows[b].index => a = b
    BY DEF NumberInv, RowsNumbered
  <2>4. QED
    BY <2>1, <2>2, <2>3 DEF StatusList
<1>4. QED
  BY <1>1, <1>2, <1>3, PTL DEF Spec

----------------------------------------------------------------------------
\* The subject: what a handler is about to re-issue claims no "id"

IdDropped(s) == s.op \in {"rotate", "reissue"} /\ s.step = "write" => s.claims.id = {}

IdsDropped == \A t \in Busy : IdDropped(session[t])

LEMMA OpensIdless ==
  ASSUME TypeInv, NEW s, Opens(s)
  PROVE  IdDropped(s)
<1>1. OpensRegister(s) => s.op = "register"
  <2>1. \A a, key, charter, vo : Enrolling(a, key, charter, vo).op = "register"
    BY DEF Enrolling
  <2>2. QED
    BY <2>1 DEF OpensRegister
<1>2. OpensRotate(s) => s.claims.id = {}
  BY DEF OpensRotate, Rotating, ClaimsOf
<1>3. CASE OpensRenew(s)
  <2>1. PICK a \in Registered, signer \in Keys, charter \in RequestedCharters :
          s = Reissuing("write", a, Reissuable(charter, rows[a].charter.operator), signer, {})
    BY <1>3 DEF OpensRenew
  <2>2. charter \in Charter
    BY <2>1, RegistryAssumption
  <2>3. s.claims = Reissuable(charter, rows[a].charter.operator)
    BY <2>1 DEF Reissuing
  <2>4. QED
    BY <2>2, <2>3 DEF Reissuable, Charter, IdDropped
<1>4. OpensAmend(s) => s.step = "voucher"
  BY DEF OpensAmend, Reissuing
<1>5. OpensRevoke(s) => s.step = "voucher"
  BY DEF OpensRevoke, Revoking
<1>6. QED
  BY <1>1, <1>2, <1>3, <1>4, <1>5 DEF Opens, IdDropped

LEMMA ProceedsIdless ==
  ASSUME TypeInv, NEW t \in Busy, NEW s, Proceeds(session[t], s)
  PROVE  IdDropped(s)
<1>1. session[t] \in Session /\ session[t].claims \in Charter /\ s.op = session[t].op
  BY SeenOfProceeding DEF TypeInv, TypeOK, Session
<1>2. CASE ProceedsAmend(session[t], s)
  <2>1. PICK operator \in Opt(Operators) :
          s = [session[t] EXCEPT !.step = "write",
                                 !.claims = Reissuable(session[t].claims, operator)]
    BY <1>2 DEF ProceedsAmend
  <2>2. s.claims = Reissuable(session[t].claims, operator)
    BY <1>1, <2>1 DEF Session
  <2>3. QED
    BY <1>1, <2>2 DEF Reissuable, Charter, IdDropped
<1>3. CASE ProceedsRegister(session[t], s) \/ ProceedsRevoke(session[t], s)
  BY <1>1, <1>3 DEF ProceedsRegister, ProceedsRevoke, IdDropped
<1>4. QED
  BY <1>2, <1>3 DEF Proceeds

LEMMA IdsDroppedStep ==
  ASSUME TypeInv, IdsDropped, [Next]_vars
  PROVE  IdsDropped'
<1> SUFFICES ASSUME NEW u \in Busy' PROVE IdDropped(session'[u])
  BY DEF IdsDropped, IdDropped
<1>1. CASE u \in Busy /\ session'[u] = session[u]
  BY <1>1 DEF IdsDropped
<1>2. ASSUME NEW t \in Threads, NEW s, Hold(t, s), IdDropped(s)
      PROVE  IdDropped(session'[u])
  <2>1. \/ u \in Busy /\ session'[u] = session[u]
        \/ session'[u] = s
    BY <1>2, SessionsAfterHold
  <2>2. QED
    BY <1>1, <1>2, <2>1
<1>3. ASSUME NEW t \in Threads, NEW s, Hold(t, s), Opens(s)
      PROVE  IdDropped(session'[u])
  BY <1>2, <1>3, OpensIdless
<1>4. ASSUME NEW t \in Busy, NEW s, Hold(t, s), Proceeds(session[t], s)
      PROVE  IdDropped(session'[u])
  BY <1>2, <1>4, ProceedsIdless DEF TypeInv, TypeOK
<1>5. ASSUME NEW t \in Busy, Close(t) PROVE IdDropped(session'[u])
  BY <1>1, <1>5, SessionsAfterClose
<1>6. CASE UNCHANGED session
  BY <1>1, <1>6 DEF Busy
<1>7. QED
  BY <1>3, <1>4, <1>5, <1>6, StepCases, WritesClose

LEMMA ReissuedSubject ==
  ASSUME TypeInv, IdsDropped, [Next]_vars,
         NEW a \in Registered, rows'[a].charter # rows[a].charter
  PROVE  rows'[a].charter.subject = a
<1>1. \A b, c, i : c.id = {} => IssueCharter(b, c, i).subject = b
  BY DEF IssueCharter
<1>2. ASSUME NEW t \in Threads, RotateWrite(t) \/ ReissueWrite(t)
      PROVE  rows'[a].charter.subject = a
  <2> DEFINE s == session[t]
  <2>1. t \in Busy /\ s.op \in {"rotate", "reissue"} /\ s.step = "write"
    BY <1>2 DEF RotateWrite, ReissueWrite, At
  <2>2. s.claims.id = {}
    BY <2>1 DEF IdsDropped, IdDropped
  <2>3. /\ Rotated(s).charter = IssueCharter(s.agent, s.claims, SeenRow(s).index)
        /\ Reissued(s).charter = IssueCharter(s.agent, s.claims, SeenRow(s).index)
    BY <2>1, WrittenRow
  <2>4. rows' = [rows EXCEPT ![s.agent] = Rotated(s)]
        \/ rows' = [rows EXCEPT ![s.agent] = Reissued(s)]
    BY <1>2 DEF RotateWrite, ReissueWrite
  <2>5. a = s.agent /\ rows'[a].charter = IssueCharter(a, s.claims, SeenRow(s).index)
    BY <2>3, <2>4 DEF TypeInv, TypeOK
  <2>6. QED
    BY <1>1, <2>2, <2>5
<1>3. ASSUME NEW t \in Threads, RegisterWrite(t) PROVE FALSE
  BY <1>3 DEF RegisterWrite, Put, Registered
<1>4. ASSUME NEW t \in Threads, RevokeWrite(t) PROVE FALSE
  BY <1>4 DEF RevokeWrite, TypeInv, TypeOK, Row
<1>5. CASE Quiet
  BY <1>5 DEF Quiet
<1>6. QED
  BY <1>2, <1>3, <1>4, <1>5, StepCases DEF Writes

\* A claim "id" that an agent was enrolled with, for itself or for another, is gone from
\* the first charter that replaces the enrolment's, whatever handlers raced.
THEOREM SubjectsReturn == Spec => SubjectReturns
<1>1. Init => TypeInv /\ IdsDropped
  BY InitType DEF Init, IdsDropped, Busy, Empty
<1>2. TypeInv /\ IdsDropped /\ [Next]_vars => (TypeInv /\ IdsDropped)'
  BY NextType, IdsDroppedStep
<1>3. TypeInv /\ IdsDropped /\ [Next]_vars
        => [\A a \in Registered :
              rows'[a].charter # rows[a].charter => rows'[a].charter.subject = a]_vars
  BY ReissuedSubject
<1>4. QED
  BY <1>1, <1>2, <1>3, PTL DEF Spec, SubjectReturns

=============================================================================
