# A formal model of the agent identity registry

This directory holds TLA+ modules that model the registry under `src/`, the
TLC configurations that model-check them on small instances, and proofs,
checked by TLAPS, of the properties that matter most for every instance.

## The system

The registry gives autonomous agents `did:web` identities and signs their
*charters*, W3C credentials that say what an agent may do. An *operator* signs
*vouchers* offline; a voucher lets one named agent enrol, have its charter
amended, or be revoked, once. Everything else an agent does by itself, with
signatures of its own key.

| Component | Source | State | Operations |
|---|---|---|---|
| issuance kernel | `app/main.py` | the tables; what each open handler holds in memory | register, rotate, reissue (renew, amend), revoke |
| vouchers | `app/voucher.py`, `_check_key_binding` and `_clamp` in `app/main.py` | trusted operator keys with ceilings, loaded at start | verify a voucher, apply the ceiling, clamp a charter |
| tables | `app/models.py`, `app/database.py` | `Agent` (id, agent_id, key, charter, status index, revoked_at), `ConsumedVoucher` (jti) | one session for each request |
| charter issuance | `app/vc.py` | none | build and sign a charter |
| status list | `app/status_list.py` | none: derived from the table | build the bitstring |
| read side | `app/main.py`, `app/did.py`, `app/jwt_vc.py` | none | DID documents, charter in three formats, attributes, resolve, `/verify` |
| start and registry key | `app/crypto.py`, `app/database.py`, `lifespan` | a PEM file, the key in memory, the tables | create the tables, load or create the key |
| signatures as text | `app/crypto.py`, `app/jwt_vc.py` | none | base58btc, base64url, multibase |
| client library | `registry_client.py` | key file, charter file, verify cache | provision, rotate, reissue, sign, present, verify |
| standalone verifier | `registry_client.py` | none | verify a presentation by HTTP |
| operator tools | `operator_cli.py`, `provision_watershed.py` | key file | keygen, jwks, voucher; provision a list of agents |

They interact in four ways. The client calls the registry by HTTP and may lose
the answer. The handlers of the registry share nothing but the database. The
operator's vouchers reach the registry through the agents. Verifiers read the
registry, now or from a cache.

What is hard about it:

- **Concurrency.** FastAPI runs the handlers, plain `def`s, on a thread pool,
  each with its own session. Every handler reads, decides and writes later;
  nothing locks the row in between and the objects it holds are not refreshed.
- **Atomicity.** A voucher is checked by a SELECT and spent by an INSERT later.
  What makes it single-use is the primary key and the transaction, not the check.
- **Protocols.** Authority passes from voucher to charter to charter, through
  renewals, amendments and rotations in any order; the bounds must compose, and
  *absent* means unbounded in one place and nothing in another.
- **Failure.** Handlers are refused or die at any point; clients lose answers.
- **Files.** The agent's processes share two files, those of the registry a key file
  and a database; nothing is locked, and a file is truncated before it is written.
- **Time.** Vouchers and charters expire while handlers run.

What makes each component correct:

- *kernel*: every charter in force was authorised by a voucher spent on its
  agent; vouchers serve once; revocation is final; keys and operators change only
  as documented; a widening of authority costs a voucher;
- *vouchers*: what the checks let pass is what voucher and ceiling permit;
- *status list*: a charter's bit says whether its agent is revoked;
- *client*: the stored key is the registered one or about to become it, and the
  files are those in force, but for accidents that can be named;
- *verify cache*: an answer is little more than a cache lifetime old, and a
  revocation is heard in the end;
- *read side*: what a verifier accepts or refuses was right, in what it asks, at some moment
  of the verification; and the charter it reports is the presenter's;
- *presentations*: what an agent signs in good faith is accepted, and its claims were in
  force, but for changes of its own under way;
- *registry key*: what one process signs all accept, the key is never replaced by a start,
  and in the end all serve.

`PROJECT.json` lists the components with their status, and under `hazards` what
can go wrong where, with the properties that would tell.

## The modules

    Voucher          vouchers and clamps: constants and pure operators
      Registry       the issuance kernel: state machine and properties
        MCRegistry   values of the constants for TLC
        RegistryProofs      types, single use, revocation, keys, status bits, subjects;
                            the registry implements AgentRow
          RegistryAuthority   every charter lies within a voucher; pinned operators;
                              the registry implements Lifecycle; what only a handler
                              that was overtaken can break
    Lifecycle        abstract specification of authority, which Registry implements
    AgentRow         abstract specification of one agent's row, which Registry implements
      Credentials    verdicts on an agent that changes meanwhile; charters as JWTs
        MCCredentials  values of the constants
        CredentialsProofs   types, verdicts

    Client           provision, rotate, reissue and the agent's two files
      MCClient       values of the constants
      ClientProofs   types, which keys are stored, when a key is lost, the files
      Presentation   sign and present, beside the processes of Client
        MCPresentation      values of the constants
        PresentationProofs  accepted, bound, in force
    VerifyCache      verify, its cache, and the invalidation
      MCVerifyCache  values of the constants
      VerifyCacheProofs   types, age of an answer, late stores
    Multibase        how signatures are written and read back: pure operators
      MultibaseProofs     decoding undoes encoding
      Signing        the start of the registry's processes, and what they sign
        MCSigning    values of the constants
        SigningProofs     types, one key, a key file that stays

`Registry` has the inside of the registry. `Client` (with `Presentation`), `VerifyCache` and
`Credentials` see it from outside, so each has as much of it as one agent can notice. What
`Credentials` takes it to be, `AgentRow`, is what `Registry` is proved to implement; `Client` and
`VerifyCache` have their own account of it, with answers that can get lost.

### Voucher

`verify_voucher` becomes `SelectedKids` (which trusted key the `kid` selects),
`Endorsed` (all it asks but the time) and `Verifies` (with the time);
`_apply_ceiling` is `WithinCeiling` (when it raises) and `UnderCeiling` (what it
returns); `_clamp` is `Clamp`, `_check_key_binding` is `KeyBound`.

A value that may be absent is a set of at most one element. This keeps
Python's `None` apart from an empty list, which is what the checks turn on. The
encoding of a token is one Boolean (`complete`); a signature is the name of the
key pair that made it. A public key stands for its thumbprint.

### Registry

`rows`, `lastId` and `consumed` are the two tables; `session` is what each open
handler holds in memory; `uses` counts, for the properties only, the
transactions each voucher authorised.

A handler is a few atomic steps, cut where another handler's commit can make a
difference:

| Handler | Steps |
|---|---|
| `register_agent` | `RegisterVoucher` (verify, SELECT the voucher), `RegisterSelect` (SELECT the agent, key binding, clamps, operator), `RegisterWrite` (INSERTs and commit) |
| `rotate_agent_key` | `RotateSelect` (SELECT, 404, 410, proof), `RotateWrite` (UPDATE and commit) |
| `reissue_charter` | `ReissueSelect` (SELECT, freshness, proof; for a renewal the decision), `ReissueVoucher` (for an amendment: verify, SELECT the voucher, operator, clamps), `ReissueWrite` |
| `revoke_agent` | `RevokeSelect`, `RevokeVoucher`, `RevokeWrite` |
| any | `Abort`: an HTTP error, a failed constraint, a locked database, the end of the process |

How this follows from the code and the libraries it uses:

- Python's sqlite3 opens a transaction before the first INSERT or UPDATE and not
  before a SELECT, so each SELECT sees what is committed at that moment. From
  the first write to the commit SQLite's write lock keeps other writers out, so
  that stretch is one step, and it commits as a whole or leaves nothing.
- A loaded `Agent` is not read again (`rows[a]` at that moment is kept in
  `seen`), and an UPDATE writes only the columns whose values changed. So a
  reissue leaves the key column alone, and a rotation that races a revocation
  leaves `revoked_at` alone. Charter strings always differ (they carry a
  signature and a timestamp).
- `agent_id` is UNIQUE and the voucher's `jti` is a primary key: these are the
  guards of `RegisterWrite` and `Consume`. When they fail the handler can only
  `Abort`.
- Row ids are SQLite's: one more than the largest. Rows are never deleted.
- A request that is refused at its first step leaves no trace and is no step.

Abstractions: `revoked_at` is a Boolean; other timestamps, names, `intent` and
`scope` are left out, as they decide nothing; the charter gets its `validUntil` at
the commit (the code computes it a moment before); each voucher has a `jti` of
its own (the tools use uuid4). Signatures are not forged: a proof of
possession is the name of the key that signed. The requests that arrive are
arbitrary: any agent, key, signer, time stamp and voucher, at any time and any
number of times, so replays and duplicates are included.

### Lifecycle

What one may rely on without knowing about threads, clocks and keys: standing,
authority and spent vouchers of the agents, moved by `Enrol`, `Amend`, `Reissue` and
`Revoke`, each by a *warrant* (a voucher under the ceiling of a key that signed
it). It says openly what races make of the promise: authority may return to what an
earlier warrant allowed, and a handler that began before a revocation may
still commit after it. `Registry!KeepsPromise` is the refinement.

### AgentRow

What a reader may take the registry for: the key of one agent, the end of its charter, whether
it is revoked, and the transactions `Enrol`, `Rotate`, `Reissue` and `Revoke`, each at any moment.
The handlers ask for a revocation when they load the row, so by the time they commit the row may
have been revoked: `Rotate` and `Reissue` reach such a row too, and leave it revoked.
Vouchers, claims and requests are not seen at all. `Registry!View(a)` is the view of agent `a`,
and `Registry!KeepsRows` says that every step of the registry is, for each agent by itself, a
step of `AgentRow` or none.

### Client

The agent's processes share a key file and a charter file and nothing else.

| Code | Actions |
|---|---|
| `provision`, `rotate`, `reissue`, up to the POST | `Provision`, `Rotate`, `Reissue` (given claims), `ReissueByDefault` (claims of the charter file) |
| the handler of the registry | `Admit` (loads and decides), `Commit` (constraint, write, answer), `Refuse` |
| `_save_private_key` | `SaveKeyBegin` (the truncation of `write_bytes`), `SaveKeyEnd` |
| `charter_path.write_text` | `SaveCharterBegin`, `SaveCharterEnd` |
| a timeout, a lost connection, a failed write, the end of the process | `Die`: the registry goes on with the request |
| `revoke_agent` | `Revoke` |

`keyLost`, `charterLost` and `overlap` are histories for the properties: whether the
key or charter in force came with a call that ended before saving it, and whether calls
have run at once.

Abstractions: a key pair given to `provision` is like one generated; PEM files of
Ed25519 keys have one length, so whoever writes last wins, while the longer of two
charters written at once may stick out behind the shorter (the content is then
`Torn`); `reissue` reads its two files in one step. The registry of this module knows one agent, and
its vouchers are always good: what it may refuse, it may refuse at any time (`Refuse`).

### VerifyCache

One DID. A charter is its number. `verify` is `VerifyHit`, or `VerifyMiss`, then the first
fetch (`FetchNothing`, `FetchCharter`) and, with the second fetch behind it, `Store`; or
`VerifyFail`. `rotate` and `reissue` of the same process are `ChangeStart`,
`ChangeCommit` and `ChangeReturn` (which invalidates the cache); other processes change the charter with
`OthersIssue`. As in `AgentRow`, a change may commit on a row revoked since its handler loaded it (`Issue`). Time is relative: `entry.left` counts down the lifetime of the cached
answer, `stale[v]` counts how long charter `v` has been out of force, `spent` how
long a call has taken. `Tick` moves all of them.

`Patience` is how long a call may take. The timeouts of httpx bound each network operation, not
the call, so that a call ends within a fixed time is an assumption, not a promise of the code.
The signature of the charter is taken to be right.

### Credentials

What is said of the agent while it changes. A verification (`Begin`, `Read`, `Decide`,
`Fail`) is of one of three kinds: `POST /verify`; a lookup of attributes by agent_id or by
DID; the client library's `verify_presentation`, which fetches the DID document. It
reads the row at one moment and decides at a later one, by the clock of that moment
(`_agent_status`). `GetToken` is the charter
endpoint in its JWT forms. The writing handlers are the actions of `AgentRow` (`Write`), with
`serial` counting the charters.

A presentation names the agent as its holder. It is the key that signed it, any key; the
number of the charter it wraps, which may be superseded, or 0 for a credential about
somebody else; and whether that has the registry's signature. So the model can tell a
verifier that asks for the subject of the charter from one that does not; both in the code do not.

The history `could` collects, state by state since the verification began, what was wrong
with it (`Faults`): a signature, the standing of the holder, the subject of the charter, or
that it was superseded. `Faults` knows nothing of what has been read. `VerdictsRight` asks
of an acceptance that at one moment nothing was wrong but what is `Unasked`, the last two; and of a
refusal that at one moment something was that is asked. Of the last two,
the subject is what the documents promise (`PresenterIsSubject`, which the code
violates), and a superseded charter is among the known limits below.

A reissue that commits on a row revoked meanwhile is among the writes, as in `AgentRow`. `Ttl`
may be 0, for charters that do not expire.

### Presentation

`Presentation` extends `Client` by one process that signs and presents, while the
others, the registry and the accidents of `Client` go on (`Others`).

| Code | Actions |
|---|---|
| `sign` | `SignRecord` |
| `present` | `Present` (both files exist, the charter is read), `PresentSign` (the key is read, the VP signed) |
| `present_jwt`, `present_sd_jwt` | `PresentToken` (the key is read), `FetchToken` (the registry issues a token of the charter in force, bound to the key it has; disclosures are filtered; the call binds it with the key it has read) |
| an exception, or the presentation has served | `Drop` |

`inForce`, `keyAway` and `behind` are histories: the charters in force since the presentation was begun,
whether since then the registered key has been anywhere but in the file, and whether the charter
file was behind when it was begun. `Selectable` are the claims in `_SD_CLAIMS`.

The last action is as far as the model goes: who verifies later finds the key and the
status that `HolderAccepts` names, and `Credentials` says what becomes of a verification that takes time.
Nonces, audiences, salts and digests are left out; a disclosure is its claim.

### Multibase and Signing

`Multibase` has base58btc and base64url digit by digit, on sequences of bytes:
`Rebased` is both directions of base58btc (leading zeros counted apart, the rest one
`Number`, whose digits, the `Numeral`, come from the loop over `divmod`); `B64Encode` and `B64Decode`
go by groups of three bytes and four characters, the last of them filled up. `Decode` is
`decode_multibase` for the two prefixes, and the last segment of a JWT. The client library
has the same code again (`registry_client.py:64-136`).

`Signing` is the start of the processes of the registry, which share the database and the key file:

| Code | Actions |
|---|---|
| `create_db_and_tables` | `Boot` (which tables are there), `CreateTable` (one `CREATE TABLE`; it fails if the table is there by now, and ends the process) |
| `load_or_create_private_key` | `LoadKey` (a torn file ends the process), `GenerateKey`, `TruncateKeyFile`, `WriteKeyFile` |
| the end of a process at any step | `Crash` |
| `sign_document`, `_make_jwt` | `Sign` |

`Accepts` is `/verify`, and at the same time anybody who has the DID document from that process. `raced` and
`cutShort` are histories: two processes have found no key file, and a process has ended between
the truncation of the file and its writing.

## What is checked

`MCRegistry` trusts a root key without ceiling and a node key with one. All
runs of it set `CHECK_DEADLOCK FALSE`: when the clock has reached its bound, the
vouchers are used up and every agent is revoked, no request is accepted any
more, which is how the system is meant to come to rest. So does `SharedFiles`: its
keys are used up, or the key file is torn and every call raises. `Presenting` does so for the
same reason, and `FirstBoot` because all processes serve in the end and there is a bound on what they sign.
The runs of `VerifyCache` and `Credentials` check for deadlock.

| Run | Instance | Shows |
|---|---|---|
| `Races` | one agent, two threads, two keys, three vouchers, times 0 to 2, charters live 1 | whatever interleaves: types, `AuthorityRooted`, `SpentOnce`, `OperatorPinned`, `RevokedForever`, `KeyChangesByRotation`; what the docstrings promise is broken only by a handler another has overtaken (`OvertakenOnly`); the refinement `KeepsRows` |
| `Crowd` | two agents, two threads, five vouchers of which two enrol the same agent, a charter with an `id` of its own | `AuthorityRooted`, `CharterBitTellsRevocation` and `SubjectReturns` across agents, and the refinement `KeepsPromise` |
| `OneAtATime` | one thread, enrolment without vouchers, six amendment vouchers (two operators, key-bound, without `kid`, beyond the ceiling, by a stranger, for another registry) | what the docstrings promise, without concurrency: `WideningNeedsMandate`, `RotationByCurrentKey`, `OperatorStable`, `NothingAfterRevocation` |
| `SharedFiles` | two processes, three keys, one capability, three charters, two requests on their way | the key file holds only accepted keys (`FileKeyAccepted`); the registered key is lost only by an accident (`KeyNotLost`) and then for good (`KeyGoneForever`); without accidents both files are those in force (`FilesInStep`) |
| `CachedAnswers` | two threads, three charters, lifetime 3, patience 2 | the age of an answer (`AnswersRecent`), that a revocation is heard (`RevocationHeard`), and that only a late store puts an old charter back (`BehindOnlyByLateStore`) |
| `Verdicts` | one verification at a time, two keys, three charters, one token, times 0 to 3, charters live 1 | `VerdictsRight`: in what is asked, an acceptance was right at some moment of the verification, and so was a refusal, unless a renewal overtook it |
| `Presenting` | one process that presents, two that change key and charter, two keys, two claims of which one is selectable | what an agent presents is accepted (`HolderAccepted`), bound to the key that signs it (`BoundTokens`), and was in force (`ClaimsInForce`), unless a change was under way or had been lost |
| `FirstBoot` | three processes on an empty disk, two crashes, nine signatures in three forms | `AllAccept` but for two first starts that raced; the key file is never replaced once settled (`KeyFileSettles`); all serve in the end, or the file was cut short (`ServesAgain`) |

Four more runs exhibit a disagreement between the code and what its docstrings
say; the counterexample of each is the shortest there is.

| Run | Promise | What happens |
|---|---|---|
| `RacingRenewal` | without voucher "the new charter may only match or narrow the current one" (`main.py:737`) | a rotation loads the agent, a renewal narrows the charter, the rotation commits the wide one |
| `RacingRotation` | "Only the holder of the current private key can rotate" (`main.py:652`) | two rotations are proved with the same key; the second replaces the key of the first |
| `LongTokens` | "A credential should not outlive the context it was decided on" (`main.py:739`) | a charter fetched as a JWT gets a lifetime counted from the fetch (`main.py:444`) |
| `SubjectUnasked` | "The VP is signed with the agent's own private key, proving that the presenter controls the DID in the credential" (`registry_client.py:384`; `HANDOFF-registry.md:75`) | a presentation signed with the holder's key wraps a charter about another agent; neither `/verify` (`main.py:616`) nor the client's `verify_presentation` (`registry_client.py:844`) compares the subject with the holder, and the charter is reported as verified |

### Bounds, and why they are enough

- *Two threads.* Every decision depends on one row and one voucher as they were
  when read; a second handler can make each stale. More handlers repeat this, and
  the proofs cover any number.
- *One agent in `Races`, two in `Crowd`.* Agents share the voucher table, the row
  ids and the status list, nothing else; two tell interference.
- *Clock 0..2, lifetime 1.* Active, last moment of validity and expired; a
  voucher's `exp` of 2 is passed within the run as well. `Crowd` has no clock: time
  plays no part in its questions.
- *Two capabilities, two scopes.* Enough for inside, outside, wider and narrower.
  Charters and vouchers with absent dimensions are among them.
- *`StatusListBits`.* 8 for 131072: more than there are agents. What happens at the capacity the
  theorem `BitsTellRevocation` covers, which holds for any.
- *Two processes, three keys in `SharedFiles`.* One key enrolled and two rotations
  racing from it. Three charters: an enrolment and two changes. `MaxRequests` 2: one
  request that outlived its call beside that of the next.
- *Lifetime 3, patience 2 in `CachedAnswers`.* An entry may be stored a tick after its
  charter went out of force and serve for three more: every age up to the bound occurs (a
  bound one lower is violated). Two threads: one in the middle of a call while
  the other does anything.
- *Two processes, two keys in `Presenting`.* One enrolled key and one rotated to, each by a process
  of its own, while the third presents; `MaxIssued` 2, `MaxRequests` 1: one charter replaces
  another. More of either is in `SharedFiles`, and the proofs cover any number.
- *Three processes in `FirstBoot`.* Two that race and one that starts after them. Two crashes:
  one that tears the file, one more at any moment. `MaxDocuments` 1, as documents do not affect each other.
- *Signatures.* The radices are the real ones, 58, 64 and 256. TLC's integers end at 2^31, so signatures have one
  to three bytes instead of 64: every length modulo the base64 group, zeros in front, at the end and
  in between, and the largest digits.
- *One verification in `Verdicts`.* With every kind, signer, charter and signature. Verifications do not affect each other. `MaxTokens` 1:
  tokens do not affect anything.
- *`Skew` 1* for 300 seconds: requests that are fresh, stale and from the future.

### Fairness

Two modules have a liveness property. `VerifyCache` has `RevocationHeard`, under its `FairSpec`:

- `WF_vars(Tick)`: time passes. A tick is disabled only while a call is at its time limit.
- `WF_vars(Proceed(t))`: a call of `verify` that has begun ends, by its answer, by an error or
  by the timeout given to `httpx.Client`.

Nothing is assumed of `rotate` and `reissue`, of the other processes, or of threads that
could ask again and again: hits do not prolong an entry, which is what the property
turns on.

`Signing` has `ServesAgain`, under its `FairSpec`:

- `WF_vars(Start(p))`: a process that is down is started again, as its supervisor does (`README.md`
  has it run by uvicorn, with workers or in a container), and a start that goes on comes to its
  next step: none of its steps waits for another process. Crashes are not fair, and there
  are `MaxCrashes` of them.

All other properties are safety properties, and the registry promises
no progress: a request may fail at any time and is not retried.

## What is proved

The theorems hold for all agents, threads, keys, vouchers, operator key sets,
ceilings, lifetimes and clock values, processes and requests, from the assumptions
of the modules, which state the types of the constants
(`VoucherAssumption`, `RegistryAssumption`, `ClientAssumption`, `FileAssumption`,
`CacheAssumption`, `CredentialsAssumption`, `SelectableAssumption`, `SigningAssumption`). Six have a
hypothesis besides, which the table names: `RegistryKeepsPromise` a configuration of the registry,
`OneThreadTurns` a single thread, and the other four `Apart`, that the handlers of each agent take turns.

| Theorem | Module | Statement |
|---|---|---|
| `TypeCorrect` | `RegistryProofs` | `Spec => []TypeOK` |
| `VouchersSpentOnce` | `RegistryProofs` | `Spec => []SpentOnce` |
| `RevocationIsFinal` | `RegistryProofs` | `Spec => RevokedForever` |
| `KeysChangeByRotation` | `RegistryProofs` | `Spec => KeyChangesByRotation` |
| `BitsTellRevocation` | `RegistryProofs` | `Spec => []CharterBitTellsRevocation` |
| `SubjectsReturn` | `RegistryProofs` | `Spec => SubjectReturns` |
| `RegistryKeepsRows` | `RegistryProofs` | `Spec => KeepsRows` |
| `CharterWithinVoucher` | `RegistryAuthority` | `Spec => []AuthorityRooted` |
| `OperatorStaysPinned` | `RegistryAuthority` | `Spec => []OperatorPinned` |
| `RegistryKeepsPromise` | `RegistryAuthority` | `Spec => KeepsPromise`, if `RequireVoucher` |
| `OnlyOvertakenBreak` | `RegistryAuthority` | `Spec => OvertakenOnly` |
| `OneThreadTurns` | `RegistryAuthority` | `Spec => []Apart`, if there is one thread |
| `WideningInTurns` | `RegistryAuthority` | `Spec /\ []Apart => WideningNeedsMandate` |
| `RotationInTurns` | `RegistryAuthority` | `Spec /\ []Apart => RotationByCurrentKey` |
| `OperatorInTurns` | `RegistryAuthority` | `Spec /\ []Apart => OperatorStable` |
| `RevocationInTurns` | `RegistryAuthority` | `Spec /\ []Apart => NothingAfterRevocation` |
| `TypeCorrect` | `ClientProofs` | `Spec => []TypeOK` |
| `StoredKeysAccepted` | `ClientProofs` | `Spec => []FileKeyAccepted` |
| `KeyLostOnlyByAccident` | `ClientProofs` | `Spec => []KeyNotLost` |
| `GoneKeysStayGone` | `ClientProofs` | `Spec => KeyGoneForever` |
| `FilesFollow` | `ClientProofs` | `Spec => []FilesInStep` |
| `ShowTyped` | `PresentationProofs` | `PSpec => []PTypeOK` |
| `HoldersAccepted` | `PresentationProofs` | `PSpec => []HolderAccepted` |
| `TokensBound` | `PresentationProofs` | `PSpec => []BoundTokens` |
| `ClaimsWereInForce` | `PresentationProofs` | `PSpec => []ClaimsInForce` |
| `TypeCorrect` | `VerifyCacheProofs` | `Spec => []TypeOK` |
| `AnswersAreRecent` | `VerifyCacheProofs` | `Spec => []AnswersRecent` |
| `FallsBehindByLateStore` | `VerifyCacheProofs` | `Spec => BehindOnlyByLateStore` |
| `Typed` | `CredentialsProofs` | `Spec => []TypeOK` |
| `VerdictsWereRight` | `CredentialsProofs` | `Spec => VerdictsRight` |
| `EncodingsRoundTrip` | `MultibaseProofs` | `Decode(Encode(form, bytes)) = bytes`, for every form and all bytes |
| `OneSpelling` | `MultibaseProofs` | different base58btc strings decode to different bytes |
| `Types` | `SigningProofs` | `Spec => []TypeOK` |
| `Acceptance` | `SigningProofs` | `Spec => []AllAccept` |
| `KeyFileStays` | `SigningProofs` | `Spec => KeyFileSettles` |

*Type correctness* is not inductive by itself: a handler that is past its SELECT
writes to a row that must still be there. `TypeInv` adds `SessionOK`: such a handler
holds the row it saw, and its agent is registered.

`RegistryProofs` then reduces a step of the system to one of five forms
(`StepCases`): a transaction, a handler that opens, one that proceeds, one that
ends, or nothing that matters. *Single use* follows from `Consume`: whoever commits
finds the voucher absent from the table. *Finality* and *keys* follow from what
each transaction writes (`WriteEffect`), with the columns it leaves alone.

*Every charter lies within a voucher* needs the most. A handler commits a
charter it decided on when row and vouchers were others, so the property says nothing about it in the
state where it commits. `AuthorityInv` strengthens it twice. `Vouched`: the voucher
a handler holds, once checked, was endorsed for this agent and purpose (a fact about
constants, so it cannot become false). `ClaimsRooted`: what a handler is about to
commit is mandated by its own voucher, which the same transaction spends, or, if it has none,
by one that is spent already. Vouchers are never unspent, so `ClaimsRooted` survives
whatever other handlers do; renewals and rotations inherit the mandate of the
charter they loaded (`RenewalNarrows`, `MandateNarrows`); amendments and enrolments
get one from the clamps (`GrantMandates`).

*The operator stays.* A voucher pins an agent if it enrols that agent under a named operator; the claim
is that a spent one decides the operator for good. `PinInv` adds that only registered agents
have such a voucher spent (`SpentOnEnrolled`), that handlers which have loaded the
agent hold and will commit the pinned operator (`SessionsPinned`), and that an enrolment has
taken its operator from the voucher in its hand (`EnrolmentsPinned`). A pinning voucher is newly spent only by the
enrolment of its agent (`NewlyPinned`), and no handler can have loaded that agent before.

*Status bits and subjects.* `NumberInv` says that a charter has the index of its row, that no two
rows share one and none exceeds the last given out (`RowsNumbered`), and that handlers remember
the index of their own agent (`SeenNumbered`), so that the charter they sign later has it too. `IdsDropped`: the
claims a rotation or renewal is about to sign carry no `id`, so the subject is the agent's DID.

*The refinement.* `KeepsPromise` is `Lifecycle`'s specification over the view of the tables that
`Registry` defines. Each transaction is one step of the abstract module by one agent (`OneAgentMoves`), and opening,
proceeding, refusing and failing stutter. `ClaimsRooted` gives the warrant that `Lifecycle` asks
of an enrolment or an amendment, which is why the theorem supposes `RequireVoucher`:
without it an agent may enrol with no warrant at all.

*The row a reader sees.* `KeepsRows` needs no more than the types. A transaction that writes a key or a
charter writes the row of its own agent (`WrittenRow`) with a lifetime counted from the commit, which is
`Enrol` (`RegisterShows`), or `Rotate` or `Reissue` (`ReplaceShows`); a revocation is `Revoke` (`RevokeShows`),
the clock is `Pass` for all agents together (`ClockSteps`), and the other steps leave the rows alone.

*What only an overtaken handler breaks.* Four promises of the docstrings are false when handlers race, as
`RacingRenewal` and `RacingRotation` show. `OvertakenOnly` says how far it goes: a handler whose row is still as it loaded it
breaks none of them, whatever else is under way. `AllDecided` is the invariant: what a handler has decided holds for the row
it *loaded* (`Decided`), whether or not it still holds for the row that is there. It is about the handler's
own memory, so no other handler disturbs it; and a handler that is not overtaken commits on the row
it loaded (`ReplacesAsDecided`).

*Taking turns.* `Apart` says that no agent has two handlers open at once; handlers of different agents may
interleave. A commit changes the row of its own agent only (`WritesOwnRow`), so then nobody is overtaken
(`NoneOvertaken`), and each of the four promises holds as it is written (`WideningInTurns` and the next three).
With one thread `Apart` holds (`OneThreadTurns`); nothing in the code makes it true with more.

*The client's key.* `Inv` ties requests to calls: whoever waits has exactly one request at
the registry, for the key it will save (`Linked`); a call that saves a key was
granted it (`Saving`); keys are generated before they are accepted (`Generated`). So
the file gets accepted keys only. `KeyNotLost` needs `Alone` (two key-changing calls
at once are noted) and `Current` (a key about to be written is the registered one, unless
the key has been lost): without them a call might overwrite the
registered key with an older one. `KeyGoneForever` then follows action by action: nothing
signed with the registered key is under way, and fresh keys differ from it.

*The client's files.* Without an accident, the charter in force is in the file or in the
hands of the call that will write it (`CharterAtHand`), nobody else is writing (`OneWriter`),
and only a call that was granted has a charter (`Granting`); so with all calls idle both files are in step.

*Presentations.* A step of `PSpec` is one of `Client` or leaves its variables alone (`Underneath`), so `Inv`
holds here too. `KeyInv`: as long as the registered key has been nowhere but in the
file, the key a presentation has read is the registered one. `ClaimsInv`: the claims presented
are those of a charter noted in `inForce`, unless the file was behind at the beginning.

*Verdicts.* `Noted`: what is wrong now is in `could` for every verification that goes on, and so
is what was wrong with the row it has read, at some moment. A row that passes the verification had nothing wrong then
of what is asked (`FoundWasRight`, by way of `NothingAsked`); one that passes no longer has expired (`LostByExpiry`), and still
is the agent's unless a newer charter has replaced it (`Precedes`), which is the exception `VerdictsRight` names.

*One key.* `KeysOwned` keeps a process from having a key nobody generated. Unless two starts have raced,
the process that makes the key file is alone with it (`MakerAlone`), and all who serve and all that was signed have the key in it
(`OneKey`). `Readable` says that what is written in a document reads back as its signature, which is `EncodingsRoundTrip`.

*The encodings.* What `Number` and `Numeral` compute is proved for all lengths. The library's induction theorems take an operator
as a parameter, which the installed provers cannot instantiate; here induction is stated of the *set* of the
numbers a property holds of (`Induction`, `StrongInduction`), from the least number it would miss, and that a recursive function obeys
its equations is proved from the functions that solve them up to a size (`Approximation`, `Agreement`, `Recursion`). A numeral
then has the number it came from and no leading zero, and only one sequence has both (`NumeralUnique`). Leading zeros are
counted apart, so the two directions of base58btc undo each other (`Base58Back`, `Base58Forth`). For base64url the arithmetic of one group
is enough (`RoundTrip64`). `OneSpelling` does not hold of base64url, whose decoder drops the filling bits.

*The age of an answer.* A charter fetched was in force at most `spent` ago (`Fetched`), a
cached one at most what has passed of `Ttl`, and `Patience` (`Cached`), and charters not
superseded or revoked have age 0 (`Current`); an answer takes its age from one of these.

*Late stores.* Only `Store` puts anything in the cache and the return of a change empties it, so an
entry behind the process's own change was put there by a `verify` that had fetched before (`FallsBehind`).

Only model-checked: the liveness properties `RevocationHeard` and `ServesAgain`, as liveness under fairness and
`ENABLED` are out of the prover's reach; and the properties that the four runs of the second table violate,
which are false. Every other property of a run is stated by a theorem. Of those that
`OneAtATime` checks, the theorems need `Apart`, as they are false without.

## What is not modelled

- *Ed25519, SHA-256 and the canonical JSON.* Taken to work: a signature is accepted with the key that made it
  and with no other.
- *HTTP framing, JSON parsing and malformed documents.* A request is its deciding fields; one that
  does not parse changes nothing.
- *The order of bits, gzip and base64url of the status list.* The repository has no decoder that they would
  have to agree with.
- *Nonces, audiences, challenges, salts and digests* of presentations and SD-JWTs. The
  registry stores none of them.
- *The command line of the operator* mints vouchers and keys offline. What it makes is the
  constants `Payload` and `Jwks`.
- *`provision_watershed.py`* is one voucher and one `provision` for each agent of a list, with new ids:
  the vouchers are members of `Payload`, the calls those of `Client`.
- *The demo* has no state of its own.
- *The times `created_at`, `consumed_at` and `revoked_at`* but for whether they are set: nothing
  reads them. Two revocations with a voucher each may both pass the check and both spend their voucher; the later time stays.

## Known limits of the code

Met while modelling, besides what the runs of the second table show.

- The status list has 131072 bits. The bit of an agent with a higher index is dropped without an error
  (`status_list.py:39`), whereas `main.py:250` says that the list "can never drift from the source of
  truth". `BitsTellRevocation` is about indexes within the list.
- A `verify` that fetched before a change of its own process and stores after it puts the old charter
  back into the cache that the change has invalidated (`registry_client.py:349`), for at most the lifetime of
  an entry. `BehindOnlyByLateStore` says that nothing else does.
- `_SD_CLAIMS` (`jwt_vc.py:126`) has no `scopes`, whereas `jwt_vc.py:8` has "all charter claims" as
  selectively disclosable.
- `/verify` (`main.py:616-626`) asks for the registry's signature on the charter presented and for the status of the
  charter in force, not whether they are the same: a superseded charter is valid with its own claims, until
  the agent is revoked or its charter in force expires. `Unasked` has it as `"superseded"`; that an agent in good faith
  does not present such a charter is `ClaimsInForce`.
- The standalone verifier knows no expiry: the DID document has none, and the `validUntil` of the charter presented is not
  looked at (`registry_client.py:844-857`). `GoodStanding` does not ask it of that kind.
- `rotate_agent_key` asks neither for an active charter nor for a voucher (`main.py:655-661`) and re-issues with a fresh
  lifetime (`main.py:687`), so a rotation makes an expired charter active again, although of a renewal it is said that "once it has
  expired, the operator must re-confirm with a voucher" (`main.py:738`). `RotateSelect` does the same; no
  property excludes it.
- Two first starts at a time can leave processes with different keys, as `README.md:368` of the repository
  warns; `AllAccept` excepts them. A process that ends between the truncation of the key file and its writing
  leaves a file no later start can read, which `ServesAgain` excepts.

## What could follow

- An abstract specification of a verification, one look at the agent at one moment, that `Credentials` implements.
- `Client` over `Registry`, instead of over the registry as one agent sees it: it would show the
  two sets of races together, at the price of a much larger state space.
