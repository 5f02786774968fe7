---------------------------- MODULE VerifyCache ----------------------------
(***************************************************************************)
(* verify of registry_client.py and its cache, for one DID: the threads of *)
(* a process ask for an agent's charter while the registry replaces or     *)
(* revokes it, and while rotate and reissue of the same process invalidate *)
(* the cache.                                                              *)
(*                                                                         *)
(* A charter is its number in the order of issue, 0 is no charter.  Time   *)
(* is relative: how long an entry may still serve, how long a call has     *)
(* taken, how long ago a charter went out of force.                        *)
(***************************************************************************)
EXTENDS Integers

CONSTANTS
  Threads,
  Ttl,          \* VERIFY_CACHE_TTL
  Patience,     \* how long a call of verify takes at most, by its HTTP timeouts
  MaxVersion    \* bound: charters of the agent

ASSUME CacheAssumption ==
  /\ Ttl \in Nat \ {0}
  /\ Patience \in Nat \ {0}
  /\ MaxVersion \in Nat \ {0}

Versions == 1..MaxVersion
Ages == 0..(Ttl + Patience)   \* an age is counted no further

VARIABLES
  latest,   \* the charter the registry has stored last
  revoked,  \* whether the agent is revoked
  stale,    \* charter -> how long it has been out of force
  entry,    \* the cache: a charter and how long it may still serve
  call,     \* thread -> what it is doing
  told,     \* the latest answer: a charter and how long it had been out of force
  own       \* history: the latest charter that a rotate or reissue of this process returned

vars == <<latest, revoked, stale, entry, call, told, own>>

Calls == [step : {"idle", "asking", "checking", "changing", "changed"},
          version : 0..MaxVersion, spent : 0..Patience]

Idle == [step |-> "idle", version |-> 0, spent |-> 0]
NoEntry == [version |-> 0, left |-> 0]
Nobody == [version |-> 0, age |-> 0]

Init ==
  /\ latest = 0
  /\ revoked = FALSE
  /\ stale = [v \in Versions |-> 0]
  /\ entry = NoEntry
  /\ call = [t \in Threads |-> Idle]
  /\ told = Nobody
  /\ own = 0

-----------------------------------------------------------------------------
(* verify *)

\* time.monotonic() < expires_at
HitWhenever == entry.version # 0
Hit == entry.version # 0 /\ entry.left > 0

\* How long a new entry serves.
LifetimeExtended == entry.left + Ttl
Lifetime == Ttl

Answer(v) == told' = [version |-> v, age |-> IF v = 0 THEN 0 ELSE stale[v]]

VerifyHit(t) ==
  /\ call[t].step = "idle"
  /\ Hit
  /\ Answer(entry.version)
  /\ UNCHANGED <<latest, revoked, stale, entry, call, own>>

VerifyMiss(t) ==
  /\ call[t].step = "idle"
  /\ ~Hit
  /\ call' = [call EXCEPT ![t] = [step |-> "asking", version |-> 0, spent |-> 0]]
  /\ UNCHANGED <<latest, revoked, stale, entry, told, own>>

\* The registry answers the first request: 404, 410 or the charter.
FetchNothing(t) ==
  /\ call[t].step = "asking"
  /\ latest = 0 \/ revoked
  /\ call' = [call EXCEPT ![t] = Idle]
  /\ Answer(0)
  /\ UNCHANGED <<latest, revoked, stale, entry, own>>

FetchCharter(t) ==
  /\ call[t].step = "asking"
  /\ latest # 0 /\ ~revoked
  /\ call' = [call EXCEPT ![t].step = "checking", ![t].version = latest]
  /\ UNCHANGED <<latest, revoked, stale, entry, told, own>>

\* The registry's own DID document has arrived and the signature is right: the
\* charter is stored, whatever the cache holds by now.
Store(t) ==
  /\ call[t].step = "checking"
  /\ entry' = [version |-> call[t].version, left |-> Lifetime]
  /\ call' = [call EXCEPT ![t] = Idle]
  /\ Answer(call[t].version)
  /\ UNCHANGED <<latest, revoked, stale, own>>

\* An HTTP error or a timeout.  The cache is not touched.
VerifyFail(t) ==
  /\ call[t].step \in {"asking", "checking"}
  /\ call' = [call EXCEPT ![t] = Idle]
  /\ Answer(0)
  /\ UNCHANGED <<latest, revoked, stale, entry, own>>

-----------------------------------------------------------------------------
(* rotate and reissue of the same process *)

ChangeStart(t) ==
  /\ call[t].step = "idle"
  /\ call' = [call EXCEPT ![t] = [step |-> "changing", version |-> 0, spent |-> 0]]
  /\ UNCHANGED <<latest, revoked, stale, entry, told, own>>

\* The registry stores a charter.  Its handlers ask for a revocation when they load the
\* agent, so one that began before may still store its charter; nobody is given it then.
Issue == latest < MaxVersion /\ latest' = latest + 1

ChangeCommit(t) ==
  /\ call[t].step = "changing"
  /\ latest # 0
  /\ Issue
  /\ call' = [call EXCEPT ![t].step = "changed", ![t].version = latest + 1]
  /\ UNCHANGED <<revoked, stale, entry, told, own>>

\* invalidate_cache(did)
InvalidateNothing == UNCHANGED entry
Invalidate == entry' = NoEntry

\* The last thing the call does.
ChangeReturn(t) ==
  /\ call[t].step = "changed"
  /\ Invalidate
  /\ own' = IF call[t].version > own THEN call[t].version ELSE own
  /\ call' = [call EXCEPT ![t] = Idle]
  /\ UNCHANGED <<latest, revoked, stale, told>>

\* Refused, or the answer is lost, or the files cannot be written: an exception,
\* which skips the invalidation.
ChangeFail(t) ==
  /\ call[t].step \in {"changing", "changed"}
  /\ call' = [call EXCEPT ![t] = Idle]
  /\ UNCHANGED <<latest, revoked, stale, entry, told, own>>

-----------------------------------------------------------------------------
(* The others *)

\* A charter enrolled, reissued or rotated to by another process.
OthersIssue == Issue /\ UNCHANGED <<revoked, stale, entry, call, told, own>>

Revoke ==
  /\ latest # 0 /\ ~revoked
  /\ revoked' = TRUE
  /\ UNCHANGED <<latest, stale, entry, call, told, own>>

InForce(v) == v >= latest /\ ~revoked

Verifying(t) == call[t].step \in {"asking", "checking"}

\* Time passes, but not beyond the timeouts of a call.
Tick ==
  /\ \A t \in Threads : Verifying(t) => call[t].spent < Patience
  /\ stale' = [v \in Versions |-> IF InForce(v) \/ stale[v] = Ttl + Patience
                                  THEN stale[v] ELSE stale[v] + 1]
  /\ entry' = [entry EXCEPT !.left = IF entry.left = 0 THEN 0 ELSE entry.left - 1]
  /\ call' = [t \in Threads |-> IF Verifying(t)
                                THEN [call[t] EXCEPT !.spent = call[t].spent + 1]
                                ELSE call[t]]
  /\ UNCHANGED <<latest, revoked, told, own>>

-----------------------------------------------------------------------------
\* What a call of verify does once it has begun.
Proceed(t) == FetchNothing(t) \/ FetchCharter(t) \/ Store(t) \/ VerifyFail(t)

Next ==
  \/ \E t \in Threads : \/ VerifyHit(t) \/ VerifyMiss(t) \/ Proceed(t)
                        \/ ChangeStart(t) \/ ChangeCommit(t) \/ ChangeReturn(t)
                        \/ ChangeFail(t)
  \/ OthersIssue \/ Revoke \/ Tick

Spec == Init /\ [][Next]_vars

\* Time goes on, and a call of verify ends: by its answer or by its timeout.
FairSpec == Spec /\ WF_vars(Tick) /\ \A t \in Threads : WF_vars(Proceed(t))

-----------------------------------------------------------------------------
(* Correctness *)

TypeOK ==
  /\ latest \in 0..MaxVersion
  /\ revoked \in BOOLEAN
  /\ stale \in [Versions -> Ages]
  /\ entry \in [version : 0..MaxVersion, left : 0..Ttl]
  /\ call \in [Threads -> Calls]
  /\ told \in [version : 0..MaxVersion, age : Ages]
  /\ own \in 0..MaxVersion

\* Whatever races, an answer is at most a cache lifetime and the duration of one call
\* behind the registry: less than that time ago its charter was in force and its
\* agent not revoked ("Results are cached for VERIFY_CACHE_TTL seconds").
AnswersRecent == told.age < Ttl + Patience

\* After a revocation there comes a time from which verify never again answers with a
\* charter: calls that had fetched one end, and what they stored expires.
RevocationHeard ==
  <>[](revoked => ~Hit /\ \A t \in Threads : call[t].step # "checking")

\* The cache serves a charter older than one that rotate or reissue has returned.
Behind == Hit /\ entry.version < own

\* It gets there only by the late store of a verify: neither by the end of a change,
\* whichever changes run at once, nor by a fetch made after it.
BehindOnlyByLateStore ==
  [][~Behind /\ Behind' =>
       \E t \in Threads : call[t].step = "checking" /\ call[t].version < own
                         /\ call'[t].step = "idle"]_vars
=============================================================================
