---------------------------- MODULE Credentials ----------------------------
(***************************************************************************)
(* The read side: what the registry and the standalone verifier say of an  *)
(* agent while it is enrolled, rotated, reissued to and revoked.           *)
(*                                                                         *)
(* A verification lasts: it begins, it reads the agent's row or fetches    *)
(* its DID document, and it decides later, by the clock of that moment.    *)
(* Whatever happens in between, the verdict should be one that was right   *)
(* at some moment from its beginning to its end.                           *)
(*                                                                         *)
(* The writing handlers are those of AgentRow, which Registry implements;  *)
(* charters are numbered in the order of issue.                            *)
(***************************************************************************)
EXTENDS AgentRow, FiniteSets

CONSTANTS
  Checks,      \* verifications under way at the same time
  MaxTime,     \* bound of the clock
  MaxIssued,   \* bound: charters issued
  MaxTokens    \* bound: tokens handed out

ASSUME CredentialsAssumption ==
  Keys # {} /\ Ttl \in Nat /\ MaxTime \in Nat /\ MaxIssued \in Nat /\ MaxTokens \in Nat

VARIABLES
  serial,  \* the number of the agent's charter; 0 before the first
  tokens,  \* jwt_vc and sd_jwt_vc credentials handed out
  check,   \* verifications
  could    \* history: what was wrong with each at the moments since it began

vars == <<now, row, serial, tokens, check, could>>

Tokens == [key : Keys, serial : 1..MaxIssued, until : Opt(Nat), exp : Opt(Nat)]

\* "verify" is POST /verify, "lookup" the attributes by agent_id or DID, and
\* "standalone" the client's verify_presentation.
Kinds == {"verify", "lookup", "standalone"}

\* A presentation names the agent as its holder.  It is the key that signed it, the
\* charter it wraps (one of the holder's by its number, 0 for a credential about somebody
\* else), and whether that has the signature of the registry.  row and serial are what
\* has been read.
CheckStates == [step : {"begun", "read", "done"}, kind : Kinds, signer : Keys,
                charter : 0..MaxIssued, signed : BOOLEAN,
                row : Rows, serial : 0..MaxIssued, valid : BOOLEAN]

Begun(kind, signer, charter, signed) ==
  [step |-> "begun", kind |-> kind, signer |-> signer, charter |-> charter,
   signed |-> signed, row |-> NoAgent, serial |-> 0, valid |-> FALSE]

\* A verification that is over.
Over == [Begun("lookup", CHOOSE k \in Keys : TRUE, 0, FALSE) EXCEPT !.step = "done"]

Init ==
  /\ RowInit
  /\ serial = 0
  /\ tokens = {}
  /\ check = [c \in Checks |-> Over]
  /\ could = [c \in Checks |-> {}]

-----------------------------------------------------------------------------
(* The agent's row *)

\* A handler of Registry commits.
Write ==
  /\ \/ serial < MaxIssued /\ Issue /\ serial' = serial + 1
     \/ Withdraw /\ UNCHANGED serial
  /\ UNCHANGED <<tokens, check>>

-----------------------------------------------------------------------------
(* Charters as tokens *)

\* GET /agents/{id}/charter?format=jwt_vc or sd_jwt_vc: 404, 410, or a token for
\* the current key with the claims of the charter and a lifetime of its own.
GetToken ==
  /\ Cardinality(tokens) < MaxTokens
  /\ Enrolled /\ ~row.revoked
  /\ tokens' = tokens \cup
       {[key |-> key, serial |-> serial, until |-> row.until, exp |-> Lifetime] : key \in row.key}
  /\ UNCHANGED <<now, row, serial, check>>

-----------------------------------------------------------------------------
(* Verifications *)

\* A request or a call arrives.  A presentation may be signed with any key, also
\* one the agent no longer has, and wrap any charter, also a superseded one or one
\* that is not the holder's.
Begin(c) ==
  /\ check[c].step = "done"
  /\ \E kind \in Kinds, signer \in Keys, charter \in 0..serial, signed \in BOOLEAN :
       check' = [check EXCEPT ![c] = Begun(kind, signer, charter, signed)]
  /\ UNCHANGED <<now, row, serial, tokens>>

\* The SELECT of the handler or, for the standalone verifier, of the handler of
\* did.json, which the verifier then fetches with the registry's document.
Read(c) ==
  /\ check[c].step = "begun"
  /\ check' = [check EXCEPT ![c].step = "read", ![c].row = row, ![c].serial = serial]
  /\ UNCHANGED <<now, row, serial, tokens>>

\* _agent_status of a row, by the clock.
ActiveRegardless(r, time) == r.key # {} /\ \A u \in r.until : time <= u
Active(r, time) == r.key # {} /\ ~r.revoked /\ \A u \in r.until : time <= u

\* The DID document names a key: it is neither a 404 nor a tombstone.
Document(r) == [key |-> r.key, deactivated |-> r.revoked]
Resolves(doc) == doc.key # {} /\ ~doc.deactivated

\* The two signatures.
Signatures(c, key) == key = {c.signer} /\ c.signed

\* What a verification finds on a row: the signatures of a presentation against
\* the current key, and the status; the standalone verifier knows no status but
\* the tombstone, and a lookup has no presentation.  None compares the charter's
\* credentialSubject with the holder or the charter with the one in force.
Finds(c, r, time) ==
  \/ c.kind = "verify" /\ Signatures(c, r.key) /\ Active(r, time)
  \/ c.kind = "lookup" /\ Active(r, time)
  \/ c.kind = "standalone" /\ Resolves(Document(r)) /\ Signatures(c, Document(r).key)

Decide(c) ==
  /\ check[c].step = "read"
  /\ check' = [check EXCEPT ![c].step = "done",
                            ![c].valid = Finds(check[c], check[c].row, now)]
  /\ UNCHANGED <<now, row, serial, tokens>>

\* A fetch fails, or the request does: an error, which is no verdict.
Fail(c) ==
  /\ check[c].step \in {"begun", "read"}
  /\ check' = [check EXCEPT ![c] = Over]
  /\ UNCHANGED <<now, row, serial, tokens>>

Tick ==
  /\ now < MaxTime
  /\ Pass
  /\ UNCHANGED <<serial, tokens, check>>

-----------------------------------------------------------------------------
(* The truth of the matter, independent of what a verification has read: all   *)
(* that is wrong at a moment with what is verified.                             *)

Fault == {"signatures", "standing", "subject", "superseded"}

GoodStanding(c, r, time) ==
  /\ r.key # {} /\ ~r.revoked
  /\ c.kind = "standalone" \/ ~\E u \in r.until : u < time

\* The agent has row r and charter n: the key is not its own or the charter not the
\* registry's; it is in no good standing; the charter is about somebody else, or
\* it is no longer the agent's charter.
Faults(c, r, n, time) ==
  {f \in Fault :
     \/ f = "signatures" /\ c.kind # "lookup" /\ ~(c.signed /\ c.signer \in r.key)
     \/ f = "standing" /\ ~GoodStanding(c, r, time)
     \/ f = "subject" /\ c.kind # "lookup" /\ c.charter = 0
     \/ f = "superseded" /\ c.kind # "lookup" /\ c.charter \notin {0, n}}

Watch ==
  could' = [c \in Checks |->
              IF check'[c].step = "done" THEN {}
              ELSE (IF check[c].step = "done" THEN {} ELSE could[c])
                   \cup {Faults(check'[c], row', serial', now')}]

Next ==
  /\ \/ Write \/ GetToken \/ Tick
     \/ \E c \in Checks : Begin(c) \/ Read(c) \/ Decide(c) \/ Fail(c)
  /\ Watch

Spec == Init /\ [][Next]_vars

-----------------------------------------------------------------------------
(* Correctness *)

TypeOK ==
  /\ now \in 0..MaxTime
  /\ row \in Rows /\ \A u \in row.until : u <= now + Ttl
  /\ serial \in 0..MaxIssued
  /\ tokens \subseteq Tokens
  /\ check \in [Checks -> CheckStates]
  /\ could \in [Checks -> SUBSET SUBSET Fault]

\* Verification c reaches its verdict in this step.
Concludes(c) == check[c].step = "read" /\ check'[c] = [check[c] EXCEPT !.step = "done",
                                                                      !.valid = check'[c].valid]

\* The charter it read expired after another had taken its place.
Outrun(c) == (\E u \in check[c].row.until : u < now) /\ check[c].serial < serial

\* What no verification looks for.
Unasked == {"subject", "superseded"}

\* What is accepted had at one moment of the verification nothing wrong with it but what
\* is not asked: it was signed with the holder's key of that moment, by a holder in good
\* standing then, so not by one revoked, or with a key rotated out, before it began; and
\* if it wraps the charter that was in force all the time, nothing was wrong at all.
\* What is refused had at one moment something wrong with it that is asked, unless a
\* renewal came after the read and the old charter expired before the verdict (/verify:
\* "a rotated-out or tampered key fails here", "current status"; verify_presentation;
\* /attributes).
VerdictsRight ==
  [][\A c \in Checks : Concludes(c) =>
       IF check'[c].valid THEN \E faults \in could[c] : faults \subseteq Unasked
       ELSE (\E faults \in could[c] : ~(faults \subseteq Unasked)) \/ Outrun(c)]_vars

\* A presentation is accepted only from the agent that its charter is about: the holder,
\* who signed it, is the credentialSubject (present: the signature proves "that the
\* presenter controls the DID in the credential").
PresenterIsSubject ==
  \A c \in Checks : check[c].valid /\ check[c].kind # "lookup" => check[c].charter # 0

\* A token lives no longer than the charter whose claims it carries (reissue_charter:
\* "A credential should not outlive the context it was decided on").
TokensExpireWithCharter ==
  \A token \in tokens : \A u \in token.until : \E e \in token.exp : e <= u
=============================================================================
