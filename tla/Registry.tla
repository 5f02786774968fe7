------------------------------ MODULE Registry ------------------------------
(***************************************************************************)
(* The registry's issuance kernel (app/main.py): enrol, rotate, reissue    *)
(* and revoke, as the thread pool runs them.                               *)
(*                                                                         *)
(* A handler runs on a worker thread with a database session of its own.   *)
(* Its SELECTs run in autocommit, so each sees what is committed at that   *)
(* moment; the Agent object it loaded is not read again; its INSERTs and   *)
(* UPDATEs reach the database in one transaction under SQLite's write      *)
(* lock.  A handler is therefore a few steps: one per SELECT, with the     *)
(* checks that follow it, and one for the transaction that ends it.  Steps *)
(* of different threads interleave.  A request refused at any step, and a  *)
(* process killed at any step, leaves the database alone (Abort).          *)
(***************************************************************************)
EXTENDS Voucher, FiniteSets

CONSTANTS
  Threads,          \* worker threads of the registry's processes
  RequestedCharters,\* charters that requests may ask for
  RequireVoucher,   \* REQUIRE_ENROLLMENT_VOUCHER
  Ttl,              \* CHARTER_TTL_DAYS; 0: charters do not expire
  Skew,             \* _REISSUE_SKEW_SECONDS
  StatusListBits,   \* STATUS_LIST_BITS
  MaxTime           \* bound: the clock stops here

ASSUME RegistryAssumption ==
  /\ RequestedCharters \subseteq Charter
  /\ RequireVoucher \in BOOLEAN
  /\ Ttl \in Nat /\ Skew \in Nat /\ StatusListBits \in Nat /\ MaxTime \in Nat

VARIABLES
  now,       \* the registry's clock
  rows,      \* the agent table: agent_id -> row
  lastId,    \* its largest rowid
  consumed,  \* the consumedvoucher table
  uses,      \* history: how many transactions each voucher authorised
  session    \* the open handlers: thread -> what the handler holds in memory

vars == <<now, rows, lastId, consumed, uses, session>>

\* The stored charter VC: subject, claims, status-list bit, validUntil.
CharterVc == [subject : Agents, caps : Opt(SUBSET Caps), scopes : Opt(SUBSET Scopes),
              operator : Opt(Operators), index : Nat, until : Opt(Nat)]

Row == [index : Nat \ {0}, key : Keys, charter : CharterVc, revoked : BOOLEAN]

\* key: the key to store; claims: the charter to sign; signer: who signed the
\* proof of possession; seen: the Agent object the handler loaded.
Session == [op : {"register", "rotate", "reissue", "revoke"},
            step : {"select", "voucher", "write"},
            agent : Agents, key : Keys, claims : Charter, signer : Opt(Keys),
            voucher : Opt(Vouchers), seen : Opt(Row)]

Empty == [x \in {} |-> x]
Put(f, x, y) == [z \in DOMAIN f \cup {x} |-> IF z = x THEN y ELSE f[z]]
Drop(f, x) == [z \in DOMAIN f \ {x} |-> f[z]]

Busy == DOMAIN session
Registered == DOMAIN rows

Init ==
  /\ now = 0
  /\ rows = Empty
  /\ lastId = 0
  /\ consumed = {}
  /\ uses = [v \in Vouchers |-> 0]
  /\ session = Empty

----------------------------------------------------------------------------
\* Charters

\* build_charter_vc: {"id": agent_did, **charter}, so a claim "id" has the last word.
IssueCharter(a, claims, index) ==
  [subject |-> IF claims.id = {} THEN a ELSE CHOOSE x \in claims.id : TRUE,
   caps |-> claims.caps, scopes |-> claims.scopes, operator |-> claims.operator,
   index |-> index, until |-> IF Ttl > 0 THEN {now + Ttl} ELSE {}]

\* A re-issue from the whole subject.
ClaimsWithSubject(vc) ==
  [id |-> {vc.subject}, caps |-> vc.caps, scopes |-> vc.scopes, operator |-> vc.operator]

\* The claims a stored charter is re-issued from: its subject's, without "id".
ClaimsOf(vc) ==
  [id |-> {}, caps |-> vc.caps, scopes |-> vc.scopes, operator |-> vc.operator]

Expired(vc) == \E u \in vc.until : now > u

\* _agent_status
Status(row) == IF row.revoked THEN "revoked"
               ELSE IF Expired(row.charter) THEN "expired" ELSE "active"

\* get_status_list: the set bits; build_encoded_list drops what does not fit.
StatusList ==
  {rows[a].index : a \in {b \in Registered : rows[b].revoked}} \cap 0..(StatusListBits - 1)

----------------------------------------------------------------------------
\* Vouchers

\* The table's primary key is the jti; a registry that goes by its SELECT alone.
UnspentAnyway(vo) == TRUE
Unspent(vo) == vo \cap consumed = {}

\* A registry that forgets whom, or what, a voucher is for.
VerifyGrantOfAnyone(vo, a, purpose, always) ==
  IF RequireVoucher \/ always
  THEN \E v \in vo, k \in Kids : /\ Verifies(v, k, now)
                                 /\ Payload[v].purpose = purpose
                                 /\ v \notin consumed
  ELSE vo = {}
VerifyGrantForAnything(vo, a, purpose, always) ==
  IF RequireVoucher \/ always
  THEN \E v \in vo, k \in Kids : /\ Verifies(v, k, now)
                                 /\ Payload[v].sub = {a}
                                 /\ v \notin consumed
  ELSE vo = {}

\* _verify_grant: passes with the voucher vo, or without one when it may.
VerifyGrant(vo, a, purpose, always) ==
  IF RequireVoucher \/ always
  THEN \E v \in vo, k \in Kids : /\ Verifies(v, k, now)
                                 /\ Payload[v].sub = {a}
                                 /\ Payload[v].purpose = purpose
                                 /\ v \notin consumed
  ELSE vo = {}

\* _consume, which commits with the rest of the transaction or not at all.
Consume(vo) ==
  /\ Unspent(vo)
  /\ consumed' = consumed \cup vo
  /\ uses' = [v \in Vouchers |-> IF v \in vo THEN uses[v] + 1 ELSE uses[v]]

\* The charter stays within the grant, if there is one.
WithinVoucher(charter, vo) ==
  \A v \in vo : \A k \in SelectedKids(v) : WithinGrant(charter, v, k)

KeyBoundBy(vo, key) == \A v \in vo : KeyBound(v, key)

OperatorOf(vo) == UNION {Payload[v].operator : v \in vo}

----------------------------------------------------------------------------
\* Handlers

Hold(t, s) == session' = Put(session, t, s)
Close(t) == session' = Drop(session, t)

\* What each handler holds from its first SELECT on.
Enrolling(a, key, charter, vo) ==
  [op |-> "register", step |-> "select", agent |-> a, key |-> key, claims |-> charter,
   signer |-> {}, voucher |-> vo, seen |-> {}]
Rotating(a, key, signer) ==
  [op |-> "rotate", step |-> "write", agent |-> a, key |-> key,
   claims |-> ClaimsOf(rows[a].charter), signer |-> {signer}, voucher |-> {}, seen |-> {rows[a]}]
Reissuing(step, a, charter, signer, vo) ==
  [op |-> "reissue", step |-> step, agent |-> a, key |-> signer, claims |-> charter,
   signer |-> {signer}, voucher |-> vo, seen |-> {rows[a]}]
Revoking(a, vo) ==
  [op |-> "revoke", step |-> "voucher", agent |-> a, key |-> rows[a].key,
   claims |-> ClaimsOf(rows[a].charter), signer |-> {}, voucher |-> vo, seen |-> {rows[a]}]

Idle(t) == t \in Threads \ Busy
At(t, op, step) == t \in Busy /\ session[t].op = op /\ session[t].step = step

\* register_agent, up to its first SELECT: the voucher's, made by _verify_grant.
RegisterVoucher(t, a, key, charter, vo) ==
  /\ Idle(t)
  /\ VerifyGrant(vo, a, "enroll", FALSE)
  /\ Hold(t, Enrolling(a, key, charter, vo))
  /\ UNCHANGED <<now, rows, lastId, consumed, uses>>

\* A registry that adds the voucher's operator to what the agent claims.
PinnedBeside(charter, vo) == [charter EXCEPT !.operator = @ \cup OperatorOf(vo)]

\* The voucher's operator, if it names one, replaces what the agent claims.
Pinned(charter, vo) ==
  IF OperatorOf(vo) = {} THEN charter
  ELSE [charter EXCEPT !.operator = OperatorOf(vo)]

\* Its SELECT of the agent, and the checks against the grant.
RegisterSelect(t) ==
  /\ At(t, "register", "select")
  /\ LET s == session[t] IN
       /\ s.agent \notin Registered
       /\ KeyBoundBy(s.voucher, s.key)
       /\ WithinVoucher(s.claims, s.voucher)
       /\ Hold(t, [s EXCEPT !.step = "write", !.claims = Pinned(s.claims, s.voucher)])
  /\ UNCHANGED <<now, rows, lastId, consumed, uses>>

\* A registry that numbers agents by counting those still in standing.
CountedRowId == 1 + Cardinality({a \in Registered : ~rows[a].revoked})
NextRowId == lastId + 1

\* INSERT, flush for the rowid, charter with that status index, commit.
RegisterWrite(t) ==
  /\ At(t, "register", "write")
  /\ LET s == session[t] IN
       /\ s.agent \notin Registered     \* agent_id is UNIQUE
       /\ rows' = Put(rows, s.agent,
                      [index |-> NextRowId, key |-> s.key, revoked |-> FALSE,
                       charter |-> IssueCharter(s.agent, s.claims, NextRowId)])
       /\ lastId' = NextRowId
       /\ Consume(s.voucher)
  /\ Close(t)
  /\ UNCHANGED now

\* A registry that forgets the 410.
StandingOrNot(a) == a \in Registered

\* The SELECT and the 404 and 410 that rotate, reissue and revoke begin with.
Standing(a) == a \in Registered /\ ~rows[a].revoked

\* rotate_agent_key accepts a proof by the key it is about to store.
ProvesNewKey(signer, key, row) == signer = key
ProvesCurrentKey(signer, key, row) == signer = row.key

\* rotate_agent_key: SELECT, proof of the current key, the current claims.
RotateSelect(t, a, key, signer) ==
  /\ Idle(t)
  /\ Standing(a)
  /\ ProvesCurrentKey(signer, key, rows[a])
  /\ Hold(t, Rotating(a, key, signer))
  /\ UNCHANGED <<now, rows, lastId, consumed, uses>>

SeenRow(s) == CHOOSE r \in s.seen : TRUE

\* An UPDATE sets the columns whose value the handler changed, and no other:
\* a rotation to the key the handler loaded leaves the key column alone.
Rotated(s) ==
  [rows[s.agent] EXCEPT
     !.key = IF s.key = SeenRow(s).key THEN @ ELSE s.key,
     !.charter = IssueCharter(s.agent, s.claims, SeenRow(s).index)]

RotateWrite(t) ==
  /\ At(t, "rotate", "write")
  /\ rows' = [rows EXCEPT ![session[t].agent] = Rotated(session[t])]
  /\ Close(t)
  /\ UNCHANGED <<now, lastId, consumed, uses>>

\* A registry that lets a renewal say anything about scopes.
RenewableForgetsScopes(charter, current) ==
  Clamp(charter.caps, {UNION current.caps}, FALSE)

\* A renewal may only match or narrow what the loaded charter says.  Without
\* capabilities that charter allows none; without scopes it bounds none.
Renewable(charter, current) ==
  /\ Clamp(charter.caps, {UNION current.caps}, FALSE)
  /\ Clamp(charter.scopes, current.scopes, TRUE)

\* A registry that lets the agent assert its operator on reissue.
ReissuedAsAsked(charter, operator) == [charter EXCEPT !.id = {}]

\* The claims of a reissue; the operator is never the agent's to assert.
Reissuable(charter, operator) == [charter EXCEPT !.id = {}, !.operator = operator]

\* reissue_charter: SELECT, freshness, proof of the current key; then a renewal
\* is decided on the loaded charter, an amendment goes on to its voucher.
ReissueSelect(t, a, charter, signer, iat, vo) ==
  /\ Idle(t)
  /\ Standing(a)
  /\ now - iat <= Skew /\ iat - now <= Skew
  /\ signer = rows[a].key
  /\ LET current == rows[a].charter
         renewal == Reissuable(charter, current.operator)
     IN \/ /\ vo = {}
           /\ Status(rows[a]) = "active"
           /\ Renewable(charter, current)
           /\ Hold(t, Reissuing("write", a, renewal, signer, vo))
        \/ /\ vo # {}
           /\ Hold(t, Reissuing("voucher", a, charter, signer, vo))
  /\ UNCHANGED <<now, rows, lastId, consumed, uses>>

\* The voucher decides an amendment; another operator's is refused, and one that
\* names no operator keeps the loaded charter's.
ReissueVoucher(t) ==
  /\ At(t, "reissue", "voucher")
  /\ LET s == session[t]
         current == SeenRow(s).charter.operator
         named == OperatorOf(s.voucher)
     IN /\ VerifyGrant(s.voucher, s.agent, "amend", TRUE)
        /\ KeyBoundBy(s.voucher, SeenRow(s).key)
        /\ named = {} \/ current = {} \/ named = current
        /\ WithinVoucher(s.claims, s.voucher)
        /\ Hold(t, [s EXCEPT !.step = "write",
             !.claims = Reissuable(s.claims, IF named = {} THEN current ELSE named)])
  /\ UNCHANGED <<now, rows, lastId, consumed, uses>>

\* A registry that writes the whole loaded row back.
ReissuedWholeRow(s) ==
  [SeenRow(s) EXCEPT !.charter = IssueCharter(s.agent, s.claims, SeenRow(s).index)]
Reissued(s) ==
  [rows[s.agent] EXCEPT !.charter = IssueCharter(s.agent, s.claims, SeenRow(s).index)]

ReissueWrite(t) ==
  /\ At(t, "reissue", "write")
  /\ rows' = [rows EXCEPT ![session[t].agent] = Reissued(session[t])]
  /\ Consume(session[t].voucher)
  /\ Close(t)
  /\ UNCHANGED <<now, lastId>>

\* revoke_agent
RevokeSelect(t, a, vo) ==
  /\ Idle(t)
  /\ Standing(a)
  /\ Hold(t, Revoking(a, vo))
  /\ UNCHANGED <<now, rows, lastId, consumed, uses>>

RevokeVoucher(t) ==
  /\ At(t, "revoke", "voucher")
  /\ VerifyGrant(session[t].voucher, session[t].agent, "revoke", FALSE)
  /\ Hold(t, [session[t] EXCEPT !.step = "write"])
  /\ UNCHANGED <<now, rows, lastId, consumed, uses>>

RevokeWrite(t) ==
  /\ At(t, "revoke", "write")
  /\ rows' = [rows EXCEPT ![session[t].agent].revoked = TRUE]
  /\ Consume(session[t].voucher)
  /\ Close(t)
  /\ UNCHANGED <<now, lastId>>

\* The handler ends without a commit: an HTTPException, a constraint that fails,
\* a database that stays locked, a process that is killed.
Abort(t) ==
  /\ t \in Busy
  /\ Close(t)
  /\ UNCHANGED <<now, rows, lastId, consumed, uses>>

Tick ==
  /\ now < MaxTime
  /\ now' = now + 1
  /\ UNCHANGED <<rows, lastId, consumed, uses, session>>

----------------------------------------------------------------------------

Request(t) ==
  \E a \in Agents, vo \in Opt(Vouchers) :
    \/ \E key \in Keys, charter \in RequestedCharters : RegisterVoucher(t, a, key, charter, vo)
    \/ \E key, signer \in Keys : RotateSelect(t, a, key, signer)
    \/ \E charter \in RequestedCharters, signer \in Keys, iat \in 0..MaxTime :
         ReissueSelect(t, a, charter, signer, iat, vo)
    \/ RevokeSelect(t, a, vo)

Continue(t) ==
  \/ RegisterSelect(t) \/ RegisterWrite(t)
  \/ RotateWrite(t)
  \/ ReissueVoucher(t) \/ ReissueWrite(t)
  \/ RevokeVoucher(t) \/ RevokeWrite(t)
  \/ Abort(t)

Next == (\E t \in Threads : Request(t) \/ Continue(t)) \/ Tick

Spec == Init /\ [][Next]_vars

----------------------------------------------------------------------------
\* Properties

\* Every variable has its type.  revoked rows stay; an agent's row is a full row
\* with an issued charter as soon as it can be seen.
TypeOK ==
  /\ now \in Nat
  /\ Registered \subseteq Agents
  /\ rows \in [Registered -> Row]
  /\ lastId \in Nat
  /\ consumed \subseteq Vouchers
  /\ uses \in [Vouchers -> Nat]
  /\ Busy \subseteq Threads
  /\ session \in [Busy -> Session]

\* What a charter lets its holder claim: no capabilities unless it lists them,
\* every scope unless it lists some (absence reads as unbounded).
CapsHeld(c) == UNION c.caps
ScopesHeld(c) == IF c.scopes = {} THEN Scopes ELSE UNION c.scopes

\* What one dimension of a voucher permits, under one dimension of a ceiling.
Permitted(all, listed, ceiling) ==
  {x \in all : (\A l \in listed : x \in l) /\ (\A l \in ceiling : x \in l)}

\* What voucher v, signed by the trusted key of entry k, is a warrant for.
Warrant(v, k) ==
  [voucher |-> v,
   agent |-> CHOOSE a \in Payload[v].sub : TRUE,
   purpose |-> Payload[v].purpose,
   caps |-> Permitted(Caps, Payload[v].caps, Jwks[k].caps),
   scopes |-> Permitted(Scopes, Payload[v].scopes, Jwks[k].scopes)]

Warranted(v, k) ==
  Payload[v].sub # {} /\ Payload[v].aud = RegistryDid /\ Jwks[k].key = Payload[v].signer

\* Voucher v, signed by a key the registry trusts, authorises agent a to hold
\* charter c: within what the voucher lists and what its key's ceiling lists.
Mandates(v, a, c) ==
  \E k \in DOMAIN Jwks :
    /\ Warranted(v, k)
    /\ Payload[v].sub = {a}
    /\ Payload[v].purpose \in {"enroll", "amend"}
    /\ CapsHeld(c) \subseteq Warrant(v, k).caps
    /\ ScopesHeld(c) \subseteq Warrant(v, k).scopes

\* The registry never signs what no operator authorised: whatever renewals,
\* rotations and amendments raced, the charter in force lies within one voucher
\* that was spent on this agent, and within the ceiling of the key that signed it.
AuthorityRooted ==
  RequireVoucher =>
    \A a \in Registered : \E v \in consumed : Mandates(v, a, rows[a].charter)

\* A voucher authorises one transaction, although two handlers may both have
\* found it unspent; and it is on record as spent exactly when it did.
SpentOnce ==
  \A v \in Vouchers : uses[v] = IF v \in consumed THEN 1 ELSE 0

\* An operator that the enrolment voucher pinned stays in the charter: no
\* renewal, rotation or amendment changes or drops it, in any order.
OperatorPinned ==
  \A a \in Registered, v \in consumed :
    (/\ Payload[v].purpose = "enroll" /\ Payload[v].sub = {a}
     /\ Payload[v].operator # {})
      => rows[a].charter.operator = Payload[v].operator

\* The published list answers for the holder of a charter: the bit its charter
\* names is set exactly when that very agent is revoked, whatever other agents
\* were registered or revoked meanwhile (up to the capacity of the list).
CharterBitTellsRevocation ==
  \A a \in Registered :
    LET bit == rows[a].charter.index IN
    bit < StatusListBits => (bit \in StatusList <=> rows[a].revoked)

\* No commit of a handler that loaded its agent before the revocation revives
\* the agent or makes it disappear.
RevokedForever ==
  [][\A a \in Registered :
       a \in Registered' /\ (rows[a].revoked => rows'[a].revoked)]_vars

\* An agent keeps its status index, and its key changes only to the key of a
\* rotation that commits at that step: no reissue or revocation racing a rotation
\* brings the old key back.
KeyChangesByRotation ==
  [][\A a \in Registered :
       /\ rows'[a].index = rows[a].index
       /\ rows'[a].key # rows[a].key =>
            \E t \in Busy \ Busy' : /\ session[t].op = "rotate"
                                    /\ session[t].agent = a
                                    /\ session[t].key = rows'[a].key]_vars

\* The key that is replaced signed the rotation that replaces it.
RotatedByHolder(a) ==
  rows'[a].key # rows[a].key =>
    \E t \in Busy \ Busy' : /\ session[t].op = "rotate"
                            /\ session[t].agent = a
                            /\ rows[a].key \in session[t].signer

\* Only the holder of the current private key can rotate.
RotationByCurrentKey == [][\A a \in Registered : RotatedByHolder(a)]_vars

\* The charter does not widen, or at the price of a voucher that is spent at that
\* very step and mandates all of the new one.
WidensByMandate(a) ==
  \/ /\ CapsHeld(rows'[a].charter) \subseteq CapsHeld(rows[a].charter)
     /\ ScopesHeld(rows'[a].charter) \subseteq ScopesHeld(rows[a].charter)
  \/ \E v \in consumed' \ consumed : Mandates(v, a, rows'[a].charter)

\* A charter widens only by a voucher's mandate.
WideningNeedsMandate == [][\A a \in Registered : WidensByMandate(a)]_vars

\* A claim "id" that an agent was enrolled with does not outlive its first charter: one
\* that replaces it, by rotation, renewal or amendment, is about the agent.
SubjectReturns ==
  [][\A a \in Registered :
       rows'[a].charter # rows[a].charter => rows'[a].charter.subject = a]_vars

OperatorKept(a) ==
  rows[a].charter.operator # {} => rows'[a].charter.operator = rows[a].charter.operator

\* An operator once in the charter is never replaced by another or dropped.
OperatorStable == [][\A a \in Registered : OperatorKept(a)]_vars

LeftIfRevoked(a) == rows[a].revoked => rows'[a] = rows[a]

\* A revoked agent is issued nothing more.
NothingAfterRevocation == [][\A a \in Registered : LeftIfRevoked(a)]_vars

\* The agent's row is no longer what the handler loaded: another one has committed.
Overtaken(t) ==
  session[t].op # "register" /\ SeenRow(session[t]) # rows[session[t].agent]

\* Nothing but being overtaken makes a handler break one of these four: a commit on
\* the row as it was loaded keeps all of them, whatever else is under way.
OvertakenOnly ==
  [][\A a \in Registered :
       \/ RotatedByHolder(a) /\ WidensByMandate(a) /\ OperatorKept(a) /\ LeftIfRevoked(a)
       \/ \E t \in Busy \ Busy' : session[t].agent = a /\ Overtaken(t)]_vars

Warrants ==
  UNION {{Warrant(v, k) : k \in {j \in DOMAIN Jwks : Warranted(v, j)}} : v \in Vouchers}

StandingOf(a) == IF a \notin Registered THEN "unknown"
                ELSE IF rows[a].revoked THEN "revoked" ELSE "active"

AuthorityOf(a) ==
  IF a \notin Registered THEN [caps |-> {}, scopes |-> {}]
  ELSE [caps |-> CapsHeld(rows[a].charter), scopes |-> ScopesHeld(rows[a].charter)]

Promise == INSTANCE Lifecycle WITH
  standing <- [a \in Agents |-> StandingOf(a)],
  authority <- [a \in Agents |-> AuthorityOf(a)],
  spent <- consumed

\* The registry keeps the promise of Lifecycle: whatever its threads do, an agent's
\* standing, authority and the vouchers spent move only as a warrant lets them.
KeepsPromise == Promise!Spec

RowOf(a) ==
  IF a \notin Registered THEN [key |-> {}, until |-> {}, revoked |-> FALSE]
  ELSE [key |-> {rows[a].key}, until |-> rows[a].charter.until, revoked |-> rows[a].revoked]

View(a) == INSTANCE AgentRow WITH row <- RowOf(a)

\* Whoever reads about an agent may take the registry for an AgentRow: however handlers
\* interleave, a row gets a key only together with a charter that lives from then on, is
\* never revived, and does not move with those of other agents.
KeepsRows ==
  /\ \A a \in Agents : View(a)!RowInit
  /\ [][\A a \in Agents : [View(a)!RowNext]_<<now, RowOf(a)>>]_vars

=============================================================================
