------------------------- MODULE VerifyCacheProofs -------------------------
(***************************************************************************)
(* Proofs about VerifyCache: types, and how old an answer may be, for any  *)
(* number of threads, any cache lifetime and any timeout.                  *)
(***************************************************************************)
EXTENDS VerifyCache, TLAPS

\* A charter being checked has been out of force no longer than the call has lasted.
Fetched ==
  \A t \in Threads : call[t].step = "checking" =>
    call[t].version \in Versions /\ stale[call[t].version] <= call[t].spent

\* One in the cache, no longer than a call and the part of its lifetime that is over.
Cached ==
  Hit => entry.version \in Versions /\ stale[entry.version] + entry.left <= Ttl + Patience

\* A charter in force has not been out of force.
Current == \A v \in Versions : InForce(v) => stale[v] = 0

Inv == TypeOK /\ Fetched /\ Cached /\ Current /\ AnswersRecent

LEMMA TypesKept ==
  ASSUME TypeOK, [Next]_vars
  PROVE  TypeOK'
<1> USE CacheAssumption DEF TypeOK
<1>i. Idle \in Calls
  BY DEF Idle, Calls
<1>v. \A v \in 0..MaxVersion : Answer(v) => told' \in [version : 0..MaxVersion, age : Ages]
  BY DEF Answer, Versions, Ages
<1>1. ASSUME NEW t \in Threads, VerifyHit(t) PROVE TypeOK'
  BY <1>1, <1>v DEF VerifyHit
<1>2. ASSUME NEW t \in Threads, VerifyMiss(t) PROVE TypeOK'
  BY <1>2 DEF VerifyMiss, Calls
<1>3. ASSUME NEW t \in Threads, FetchNothing(t) \/ VerifyFail(t) PROVE TypeOK'
  <2>1. Answer(0) /\ call' = [call EXCEPT ![t] = Idle]
        /\ UNCHANGED <<latest, revoked, stale, entry, own>>
    BY <1>3 DEF FetchNothing, VerifyFail
  <2>2. QED
    BY <2>1, <1>i, <1>v
<1>4. ASSUME NEW t \in Threads, FetchCharter(t) PROVE TypeOK'
  <2> DEFINE checking == [call[t] EXCEPT !.step = "checking", !.version = latest]
  <2>1. call' = [call EXCEPT ![t] = checking] /\ checking \in Calls
    BY <1>4 DEF FetchCharter, Calls
  <2> HIDE DEF checking
  <2>2. call' \in [Threads -> Calls]
    BY <2>1
  <2>3. UNCHANGED <<latest, revoked, stale, entry, told, own>>
    BY <1>4 DEF FetchCharter
  <2>4. QED
    BY <2>2, <2>3
<1>5. ASSUME NEW t \in Threads, Store(t) PROVE TypeOK'
  <2>1. call[t].version \in 0..MaxVersion
    BY DEF Calls
  <2>2. entry' \in [version : 0..MaxVersion, left : 0..Ttl]
    BY <1>5, <2>1 DEF Store, Lifetime
  <2>3. QED
    BY <1>5, <1>i, <1>v, <2>1, <2>2 DEF Store
<1>6. ASSUME NEW t \in Threads, ChangeStart(t) \/ ChangeFail(t) PROVE TypeOK'
  <2>1. [step |-> "changing", version |-> 0, spent |-> 0] \in Calls
    BY DEF Calls
  <2>2. QED
    BY <1>6, <1>i, <2>1 DEF ChangeStart, ChangeFail
<1>7. ASSUME NEW t \in Threads, ChangeCommit(t) PROVE TypeOK'
  <2>1. latest' = latest + 1 /\ latest' \in 0..MaxVersion
    BY <1>7 DEF ChangeCommit, Issue
  <2>2. call' \in [Threads -> Calls]
    <3> DEFINE changed == [call[t] EXCEPT !.step = "changed", !.version = latest']
    <3>1. call' = [call EXCEPT ![t] = changed]
      BY <1>7, <2>1 DEF ChangeCommit
    <3>2. changed \in Calls
      BY <2>1 DEF Calls
    <3> HIDE DEF changed
    <3>3. QED
      BY <3>1, <3>2
  <2>3. QED
    BY <1>7, <2>1, <2>2 DEF ChangeCommit
<1>8. ASSUME NEW t \in Threads, ChangeReturn(t) PROVE TypeOK'
  <2>1. call[t].version \in 0..MaxVersion
    BY DEF Calls
  <2>2. QED
    BY <1>8, <1>i, <2>1 DEF ChangeReturn, Invalidate, NoEntry
<1>9. ASSUME OthersIssue \/ Revoke PROVE TypeOK'
  <2>1. CASE OthersIssue
    <3>1. latest' \in 0..MaxVersion
      BY <2>1 DEF OthersIssue, Issue
    <3>2. QED
      BY <2>1, <3>1 DEF OthersIssue
  <2>2. CASE Revoke
    BY <2>2 DEF Revoke
  <2>3. QED
    BY <1>9, <2>1, <2>2
<1>10. ASSUME Tick PROVE TypeOK'
  <2>1. stale' \in [Versions -> Ages]
    BY <1>10 DEF Tick, Ages
  <2>2. entry' \in [version : 0..MaxVersion, left : 0..Ttl]
    BY <1>10 DEF Tick
  <2>3. ASSUME NEW t \in Threads, Verifying(t)
        PROVE  [call[t] EXCEPT !.spent = call[t].spent + 1] \in Calls
    BY <1>10, <2>3 DEF Tick, Calls
  <2>4. call' \in [Threads -> Calls]
    BY <1>10, <2>3 DEF Tick
  <2>5. QED
    BY <1>10, <2>1, <2>2, <2>4 DEF Tick
<1>11. ASSUME UNCHANGED vars PROVE TypeOK'
  BY <1>11 DEF vars
<1>12. QED
  BY <1>1, <1>2, <1>3, <1>4, <1>5, <1>6, <1>7, <1>8, <1>9, <1>10, <1>11 DEF Next, Proceed

LEMMA AgesKept ==
  ASSUME Inv, TypeOK', [Next]_vars
  PROVE  Fetched' /\ Cached' /\ Current' /\ AnswersRecent'
<1> USE CacheAssumption DEF Inv
<1>s. stale \in [Versions -> Nat] /\ \A t \in Threads : call[t].spent \in 0..Patience
  BY DEF TypeOK, Ages, Calls
\* A step that lets no time pass and brings no charter into force.
<1>c. ASSUME UNCHANGED stale, latest <= latest', revoked => revoked' PROVE Current'
  BY <1>c DEF Current, InForce, TypeOK, Versions
<1>1. ASSUME NEW t \in Threads, VerifyHit(t)
      PROVE  Fetched' /\ Cached' /\ AnswersRecent' /\ UNCHANGED <<latest, revoked, stale>>
  <2>1. stale[entry.version] < Ttl + Patience /\ entry.version \in Versions
    BY <1>1, <1>s DEF VerifyHit, Hit, Cached, TypeOK
  <2>2. QED
    BY <1>1, <2>1 DEF VerifyHit, Answer, Versions, Fetched, Cached, Hit, AnswersRecent
<1>2. ASSUME NEW t \in Threads,
             \/ VerifyMiss(t) \/ FetchNothing(t) \/ VerifyFail(t)
             \/ ChangeStart(t) \/ ChangeFail(t)
      PROVE  Fetched' /\ Cached' /\ AnswersRecent' /\ UNCHANGED <<latest, revoked, stale>>
  <2>1. /\ UNCHANGED <<latest, revoked, stale, entry>>
        /\ \A u \in Threads \ {t} : call'[u] = call[u]
        /\ call'[t].step # "checking"
        /\ told' = told \/ told'.age = 0
    BY <1>2 DEF VerifyMiss, FetchNothing, VerifyFail, ChangeStart, ChangeFail, Answer, Idle,
                TypeOK
  <2>2. QED
    BY <2>1 DEF Fetched, Cached, Hit, AnswersRecent
<1>3. ASSUME NEW t \in Threads, FetchCharter(t)
      PROVE  Fetched' /\ Cached' /\ AnswersRecent' /\ UNCHANGED <<latest, revoked, stale>>
  <2>1. latest \in Versions /\ stale[latest] = 0
    BY <1>3 DEF FetchCharter, Current, InForce, TypeOK, Versions
  <2>2. /\ call'[t].version = latest /\ call'[t].spent = call[t].spent
        /\ \A u \in Threads \ {t} : call'[u] = call[u]
    BY <1>3 DEF FetchCharter, TypeOK, Calls
  <2>3. UNCHANGED <<latest, revoked, stale, entry, told>>
    BY <1>3 DEF FetchCharter
  <2>4. Fetched'
    BY <1>s, <2>1, <2>2, <2>3 DEF Fetched
  <2>5. QED
    BY <2>3, <2>4 DEF Cached, Hit, AnswersRecent
<1>4. ASSUME NEW t \in Threads, Store(t)
      PROVE  Fetched' /\ Cached' /\ AnswersRecent' /\ UNCHANGED <<latest, revoked, stale>>
  <2> DEFINE v == call[t].version
  <2>1. v \in Versions /\ stale[v] \in Nat /\ stale[v] <= Patience
    BY <1>4, <1>s DEF Store, Fetched
  <2>2. /\ entry'.version = v /\ entry'.left = Ttl /\ told'.age = stale[v]
        /\ UNCHANGED <<latest, revoked, stale>>
    BY <1>4, <2>1 DEF Store, Lifetime, Answer, Versions
  <2>3. call'[t].step = "idle" /\ \A u \in Threads \ {t} : call'[u] = call[u]
    BY <1>4 DEF Store, Idle, TypeOK
  <2>4. QED
    BY <2>1, <2>2, <2>3 DEF Fetched, Cached, AnswersRecent
<1>5. ASSUME NEW t \in Threads, ChangeCommit(t) \/ ChangeReturn(t)
      PROVE  Fetched' /\ Cached' /\ AnswersRecent' /\ Current'
  <2>1. /\ UNCHANGED <<revoked, stale, told>> /\ latest <= latest'
        /\ \A u \in Threads \ {t} : call'[u] = call[u]
        /\ call'[t].step # "checking"
        /\ entry' = entry \/ entry'.version = 0
    BY <1>5 DEF ChangeCommit, Issue, ChangeReturn, Invalidate, NoEntry, Idle, TypeOK, Calls
  <2>2. QED
    BY <1>c, <2>1 DEF Fetched, Cached, Hit, AnswersRecent
<1>6. ASSUME OthersIssue \/ Revoke
      PROVE  Fetched' /\ Cached' /\ AnswersRecent' /\ Current'
  <2>1. UNCHANGED <<stale, told, call, entry>> /\ latest <= latest' /\ (revoked => revoked')
    BY <1>6 DEF OthersIssue, Issue, Revoke, TypeOK
  <2>2. QED
    BY <1>c, <2>1 DEF Fetched, Cached, Hit, AnswersRecent
<1>7. ASSUME Tick
      PROVE  Fetched' /\ Cached' /\ AnswersRecent' /\ Current'
  <2>1. UNCHANGED <<latest, revoked, told>>
    BY <1>7 DEF Tick
  <2>2. \A v \in Versions : /\ stale'[v] <= stale[v] + 1
                            /\ InForce(v) => stale'[v] = stale[v]
    BY <1>7, <1>s DEF Tick
  <2>3. Fetched'
    <3> SUFFICES ASSUME NEW t \in Threads, call'[t].step = "checking"
                 PROVE  call'[t].version \in Versions /\ stale'[call'[t].version] <= call'[t].spent
      BY DEF Fetched
    <3>1. /\ call[t].step = "checking" /\ call'[t].version = call[t].version
          /\ call'[t].spent = call[t].spent + 1
      BY <1>7 DEF Tick, Verifying, TypeOK, Calls
    <3>2. call[t].version \in Versions /\ stale[call[t].version] <= call[t].spent
      BY <3>1 DEF Fetched
    <3>3. stale[call[t].version] \in Nat /\ stale'[call[t].version] \in Nat
      BY <1>s, <3>2 DEF TypeOK, Ages
    <3>4. QED
      BY <1>s, <2>2, <3>1, <3>2, <3>3
  <2>4. Cached'
    <3> SUFFICES ASSUME Hit'
                 PROVE  entry'.version \in Versions
                        /\ stale'[entry'.version] + entry'.left <= Ttl + Patience
      BY DEF Cached
    <3>1. Hit /\ entry'.version = entry.version /\ entry'.left = entry.left - 1
      BY <1>7 DEF Tick, Hit, TypeOK
    <3>2. entry.version \in Versions /\ stale[entry.version] + entry.left <= Ttl + Patience
      BY <3>1 DEF Cached
    <3>3. /\ stale[entry.version] \in Nat /\ stale'[entry.version] \in Nat
          /\ entry.left \in Nat
      BY <1>s, <3>2 DEF TypeOK, Ages
    <3>4. QED
      BY <2>2, <3>1, <3>2, <3>3
  <2>5. Current' /\ AnswersRecent'
    BY <2>1, <2>2 DEF Current, InForce, AnswersRecent
  <2>6. QED
    BY <2>3, <2>4, <2>5
<1>8. ASSUME UNCHANGED vars
      PROVE  Fetched' /\ Cached' /\ AnswersRecent' /\ Current'
  BY <1>8 DEF vars, Fetched, Cached, Hit, AnswersRecent, Current, InForce
<1>9. latest \in Nat
  BY DEF TypeOK
<1>10. QED
  BY <1>c, <1>1, <1>2, <1>3, <1>4, <1>5, <1>6, <1>7, <1>8, <1>9 DEF Next, Proceed

LEMMA Invariance == Spec => []Inv
<1>1. Init => Inv
  <2>1. Init => TypeOK
    <3>1. /\ Idle \in Calls
          /\ NoEntry \in [version : 0..MaxVersion, left : 0..Ttl]
          /\ Nobody \in [version : 0..MaxVersion, age : Ages]
          /\ 0 \in Ages /\ 0 \in 0..MaxVersion
      BY CacheAssumption DEF Calls, Idle, NoEntry, Nobody, Ages
    <3>2. Init => call \in [Threads -> Calls] /\ stale \in [Versions -> Ages]
      BY <3>1 DEF Init
    <3>3. QED
      BY <3>1, <3>2 DEF Init, TypeOK
  <2>2. Init => Fetched /\ Cached /\ Current /\ AnswersRecent
    BY CacheAssumption DEF Init, Fetched, Cached, Hit, Current, AnswersRecent, Idle, NoEntry,
                           Nobody
  <2>3. QED
    BY <2>1, <2>2 DEF Inv
<1>2. Inv /\ [Next]_vars => Inv'
  BY TypesKept, AgesKept DEF Inv
<1>3. QED
  BY <1>1, <1>2, PTL DEF Spec

\* The variables keep their types: ages and lifetimes stay within their bounds.
THEOREM TypeCorrect == Spec => []TypeOK
<1>1. Inv => TypeOK
  BY DEF Inv
<1>2. QED
  BY <1>1, Invariance, PTL

\* Every answer of verify was true less than a lifetime and a call ago.
THEOREM AnswersAreRecent == Spec => []AnswersRecent
<1>1. Inv => AnswersRecent
  BY DEF Inv
<1>2. QED
  BY <1>1, Invariance, PTL

LEMMA FallsBehind ==
  ASSUME TypeOK, [Next]_vars, ~Behind, Behind'
  PROVE  \E t \in Threads : call[t].step = "checking" /\ call[t].version < own
                           /\ call'[t].step = "idle"
<1>1. ASSUME NEW t \in Threads, Store(t)
      PROVE  call[t].step = "checking" /\ call[t].version < own /\ call'[t].step = "idle"
  BY <1>1 DEF Store, Behind, Idle, TypeOK
<1>2. ASSUME NEW t \in Threads, ChangeReturn(t) PROVE FALSE
  BY <1>2 DEF ChangeReturn, Invalidate, NoEntry, Behind, Hit
<1>3. ASSUME entry' = entry, own' = own PROVE FALSE
  BY <1>3 DEF Behind, Hit
<1>4. CASE Tick
  BY <1>4 DEF Tick, Behind, Hit, TypeOK
<1>5. CASE UNCHANGED vars
  BY <1>3, <1>5 DEF vars
<1>6. CASE OthersIssue \/ Revoke
  BY <1>3, <1>6 DEF OthersIssue, Revoke
<1>7. ASSUME NEW t \in Threads,
             \/ VerifyHit(t) \/ VerifyMiss(t) \/ FetchNothing(t) \/ FetchCharter(t)
             \/ VerifyFail(t) \/ ChangeStart(t) \/ ChangeCommit(t) \/ ChangeFail(t)
      PROVE  FALSE
  BY <1>3, <1>7 DEF VerifyHit, VerifyMiss, FetchNothing, FetchCharter, VerifyFail,
                    ChangeStart, ChangeCommit, ChangeFail
<1>8. QED
  BY <1>1, <1>2, <1>4, <1>5, <1>6, <1>7 DEF Next, Proceed

\* For any number of threads: the cache falls behind a change that its own process has
\* seen through by the store of a verify that had fetched before, and by nothing else.
THEOREM FallsBehindByLateStore == Spec => BehindOnlyByLateStore
<1>1. TypeOK /\ [Next]_vars
        => [~Behind /\ Behind' =>
              \E t \in Threads : call[t].step = "checking" /\ call[t].version < own
                               /\ call'[t].step = "idle"]_vars
  BY FallsBehind
<1>2. QED
  BY <1>1, TypeCorrect, PTL DEF Spec, BehindOnlyByLateStore
=============================================================================
