------------------------- MODULE CredentialsProofs -------------------------
(***************************************************************************)
(* Proofs about Credentials, for any keys, any number of verifications and *)
(* any lifetime: every verdict was right, in what is asked, at some moment *)
(* of the verification, unless the charter read was outrun.                *)
(***************************************************************************)
EXTENDS Credentials, TLAPS

\* An agent that is enrolled has been issued a charter.
Issued == Enrolled => serial > 0

\* Row r, read when the charter had number n, may be superseded, and if it is not its
\* charter has not changed.
Precedes(r, n) == n <= serial /\ (n = serial => r.until = row.until)

\* What is wrong now has been noted, and so has what was wrong when the row was read.
Noted(c) ==
  /\ check[c].step # "done" => Faults(check[c], row, serial, now) \in could[c]
  /\ check[c].step = "read" =>
       /\ Precedes(check[c].row, check[c].serial)
       /\ \E time \in 0..now :
            Faults(check[c], check[c].row, check[c].serial, time) \in could[c]

Inv == TypeOK /\ Issued /\ \A c \in Checks : Noted(c)

-----------------------------------------------------------------------------
(* Types *)

LEMMA OverTyped == Over \in CheckStates /\ Over.step = "done"
<1>1. (CHOOSE k \in Keys : TRUE) \in Keys
  BY CredentialsAssumption
<1>2. NoAgent \in Rows
  BY DEF NoAgent, Rows, Opt
<1>3. 0 \in 0..MaxIssued
  BY CredentialsAssumption
<1>4. QED
  BY <1>1, <1>2, <1>3 DEF Over, Begun, CheckStates, Kinds

LEMMA FaultsTyped == \A c, r, n, time : Faults(c, r, n, time) \subseteq Fault
  BY DEF Faults

LEMMA FindsTyped == \A c, r, time : Finds(c, r, time) \in BOOLEAN
  BY DEF Finds, Signatures, Active, Resolves

LEMMA Initially == Init => Inv
<1> SUFFICES ASSUME Init PROVE Inv
  OBVIOUS
<1>1. NoAgent \in Rows
  BY DEF NoAgent, Rows, Opt
<1>2. TypeOK
  BY <1>1, OverTyped, CredentialsAssumption DEF Init, RowInit, TypeOK, NoAgent
<1>3. Issued
  BY DEF Init, RowInit, Issued, Enrolled, NoAgent
<1>4. ASSUME NEW c \in Checks PROVE Noted(c)
  BY <1>4, OverTyped DEF Init, Noted
<1>5. QED
  BY <1>2, <1>3, <1>4 DEF Inv

\* A handler's step leaves a row, and a charter changes only with its number.
LEMMA WritesKeep ==
  ASSUME Inv, Write
  PROVE  /\ row' \in Rows /\ \A u \in row'.until : u <= now + Ttl
         /\ serial' \in 0..MaxIssued /\ now' = now
         /\ Issued' /\ \A r \in Rows, n \in Nat : Precedes(r, n) => Precedes(r, n)'
<1>1. /\ row \in Rows /\ \A u \in row.until : u <= now + Ttl
      /\ serial \in 0..MaxIssued /\ now \in Nat /\ Ttl \in Nat
  BY CredentialsAssumption DEF Inv, TypeOK
<1>2. CASE Withdraw /\ UNCHANGED serial
  <2>1. /\ row' = [row EXCEPT !.revoked = TRUE] /\ row.key # {}
        /\ serial' = serial /\ now' = now
    BY <1>2 DEF Withdraw, Revoke, Enrolled
  <2>2. QED
    BY <1>1, <2>1 DEF Inv, Issued, Enrolled, Rows, Precedes
<1>3. CASE serial < MaxIssued /\ Issue /\ serial' = serial + 1
  <2>1. PICK key \in Opt(Keys) : row' = [row EXCEPT !.key = key, !.until = Lifetime]
    <3>1. \A key \in Keys : {key} \in Opt(Keys)
      BY DEF Opt
    <3>2. CASE Enrol \/ Rotate
      BY <3>1, <3>2 DEF Enrol, Rotate, WithCharter
    <3>3. CASE Reissue
      BY <1>1, <3>3 DEF Reissue, WithCharter, Rows
    <3>4. QED
      BY <1>3, <3>2, <3>3 DEF Issue
  <2>2. Lifetime \in Opt(Nat) /\ \A u \in Lifetime : u <= now + Ttl
    BY <1>1 DEF Lifetime, Opt
  <2>3. row' \in Rows /\ \A u \in row'.until : u <= now + Ttl
    BY <1>1, <2>1, <2>2 DEF Rows
  <2>4. serial' \in 0..MaxIssued /\ serial' > 0 /\ serial' > serial
    BY <1>1, <1>3, CredentialsAssumption
  <2>5. \A r \in Rows, n \in Nat : Precedes(r, n) => Precedes(r, n)'
    BY <1>1, <1>3 DEF Precedes
  <2>6. now' = now
    BY <1>3 DEF Issue
  <2>7. QED
    BY <2>3, <2>4, <2>5, <2>6 DEF Issued
<1>4. QED
  BY <1>2, <1>3 DEF Write

\* A step of one verification leaves it well typed and the others as they are.
LEMMA StepTyped ==
  ASSUME Inv, NEW c \in Checks, Begin(c) \/ Read(c) \/ Decide(c) \/ Fail(c)
  PROVE  /\ check' \in [Checks -> CheckStates]
         /\ \A d \in Checks : d # c => check'[d] = check[d]
         /\ UNCHANGED <<now, row, serial, tokens>>
<1>1. /\ check \in [Checks -> CheckStates] /\ row \in Rows /\ NoAgent \in Rows
      /\ serial \in 0..MaxIssued /\ 0 \in 0..MaxIssued
  BY CredentialsAssumption DEF Inv, TypeOK, NoAgent, Rows, Opt
<1>2. CASE Begin(c)
  <2>1. PICK kind \in Kinds, signer \in Keys, charter \in 0..serial, signed \in BOOLEAN :
           check' = [check EXCEPT ![c] = Begun(kind, signer, charter, signed)]
    BY <1>2 DEF Begin
  <2>2. charter \in 0..MaxIssued
    BY <1>1, CredentialsAssumption
  <2>3. Begun(kind, signer, charter, signed) \in CheckStates
    BY <1>1, <2>2 DEF Begun, CheckStates
  <2>4. UNCHANGED <<now, row, serial, tokens>>
    BY <1>2 DEF Begin
  <2>5. QED
    BY <1>1, <2>1, <2>3, <2>4
<1>3. CASE Read(c)
  <2> DEFINE read == [check[c] EXCEPT !.step = "read", !.row = row, !.serial = serial]
  <2>1. read \in CheckStates
    BY <1>1 DEF CheckStates
  <2>2. check' = [check EXCEPT ![c] = read] /\ UNCHANGED <<now, row, serial, tokens>>
    BY <1>1, <1>3 DEF Read
  <2> HIDE DEF read
  <2>3. QED
    BY <1>1, <2>1, <2>2
<1>4. CASE Decide(c)
  <2> DEFINE found == Finds(check[c], check[c].row, now)
             decided == [check[c] EXCEPT !.step = "done", !.valid = found]
  <2>1. check' = [check EXCEPT ![c] = decided] /\ UNCHANGED <<now, row, serial, tokens>>
    BY <1>1, <1>4 DEF Decide
  <2>2. found \in BOOLEAN
    BY FindsTyped
  <2> HIDE DEF found
  <2>3. decided \in CheckStates
    BY <1>1, <2>2 DEF CheckStates
  <2> HIDE DEF decided
  <2>4. QED
    BY <1>1, <2>1, <2>3
<1>5. CASE Fail(c)
  BY <1>1, <1>5, OverTyped DEF Fail
<1>6. QED
  BY <1>2, <1>3, <1>4, <1>5

LEMMA TypesKeep ==
  ASSUME Inv, Next
  PROVE  TypeOK'
<1>1. /\ row \in Rows /\ \A u \in row.until : u <= now + Ttl
      /\ now \in 0..MaxTime /\ serial \in 0..MaxIssued /\ tokens \subseteq Tokens
      /\ check \in [Checks -> CheckStates] /\ could \in [Checks -> SUBSET SUBSET Fault]
  BY DEF Inv, TypeOK
<1>2. could' \in [Checks -> SUBSET SUBSET Fault]
  <2>1. ASSUME NEW c \in Checks
        PROVE  (IF check'[c].step = "done" THEN {}
                ELSE (IF check[c].step = "done" THEN {} ELSE could[c])
                     \cup {Faults(check'[c], row', serial', now')}) \in SUBSET SUBSET Fault
    <3>1. Faults(check'[c], row', serial', now') \in SUBSET Fault
      BY FaultsTyped
    <3>2. could[c] \subseteq SUBSET Fault
      BY <1>1
    <3>3. QED
      BY <3>1, <3>2
  <2>2. QED
    BY <2>1 DEF Next, Watch
<1>3. CASE Write
  BY <1>1, <1>2, <1>3, WritesKeep DEF TypeOK, Write
<1>4. CASE GetToken
  <2>1. row.key \in Opt(Keys) /\ row.until \in Opt(Nat) /\ serial \in 1..MaxIssued
    BY <1>1, <1>4 DEF GetToken, Inv, Issued, Rows
  <2>2. Lifetime \in Opt(Nat)
    BY <1>1, CredentialsAssumption DEF Lifetime, Opt
  <2>3. \A key \in row.key : key \in Keys
    BY <2>1 DEF Opt
  <2>4. tokens' \subseteq Tokens
    BY <1>1, <1>4, <2>1, <2>2, <2>3 DEF GetToken, Tokens
  <2>5. QED
    BY <1>1, <1>2, <1>4, <2>4 DEF TypeOK, GetToken
<1>5. CASE Tick
  <2>1. now' \in 0..MaxTime
    BY <1>1, <1>5, CredentialsAssumption DEF Tick, Pass
  <2>2. \A u \in row.until : u \in Nat /\ u <= now' + Ttl
    BY <1>1, <1>5, CredentialsAssumption DEF Tick, Pass, Rows, Opt
  <2>3. QED
    BY <1>1, <1>2, <1>5, <2>1, <2>2 DEF TypeOK, Tick, Pass
<1>6. CASE \E c \in Checks : Begin(c) \/ Read(c) \/ Decide(c) \/ Fail(c)
  BY <1>1, <1>2, <1>6, StepTyped DEF TypeOK
<1>7. QED
  BY <1>3, <1>4, <1>5, <1>6 DEF Next

-----------------------------------------------------------------------------
(* What is noted *)

\* A verification that goes on notes what is right after each step, and forgets nothing.
LEMMA Watched ==
  ASSUME Inv, Watch, NEW c \in Checks, check'[c].step # "done"
  PROVE  /\ Faults(check'[c], row', serial', now') \in could'[c]
         /\ check[c].step # "done" => could[c] \subseteq could'[c]
  BY DEF Watch

\* The clock and the charters only go forward.
LEMMA Forward ==
  ASSUME Inv, Next
  PROVE  /\ now \in Nat /\ now' \in Nat /\ now <= now'
         /\ \A r \in Rows, n \in Nat : Precedes(r, n) => Precedes(r, n)'
         /\ Issued'
<1>1. now \in Nat /\ now' \in Nat
  BY TypesKeep, CredentialsAssumption DEF Inv, TypeOK
<1>2. CASE Write
  BY <1>1, <1>2, WritesKeep DEF Write
<1>3. CASE Tick
  BY <1>1, <1>3 DEF Tick, Pass, Inv, Issued, Enrolled, Precedes
<1>4. CASE GetToken
  BY <1>1, <1>4 DEF GetToken, Inv, Issued, Enrolled, Precedes
<1>5. CASE \E c \in Checks : Begin(c) \/ Read(c) \/ Decide(c) \/ Fail(c)
  BY <1>1, <1>5 DEF Begin, Read, Decide, Fail, Inv, Issued, Enrolled, Precedes
<1>6. QED
  BY <1>2, <1>3, <1>4, <1>5 DEF Next

\* A verification either stands still, or reads the row, or is at its beginning or end.
LEMMA Stages ==
  ASSUME Inv, Next, NEW c \in Checks
  PROVE  \/ check'[c] = check[c]
         \/ /\ check[c].step = "begun" /\ UNCHANGED <<row, serial, now>>
            /\ check'[c] = [check[c] EXCEPT !.step = "read", !.row = row, !.serial = serial]
         \/ check'[c].step \in {"begun", "done"}
<1>1. check \in [Checks -> CheckStates]
  BY DEF Inv, TypeOK
<1>2. CASE Write \/ GetToken \/ Tick
  BY <1>2 DEF Write, GetToken, Tick
<1>3. ASSUME NEW d \in Checks, Begin(d) \/ Read(d) \/ Decide(d) \/ Fail(d)
      PROVE  \/ check'[c] = check[c]
             \/ /\ check[c].step = "begun" /\ UNCHANGED <<row, serial, now>>
                /\ check'[c] = [check[c] EXCEPT !.step = "read", !.row = row, !.serial = serial]
             \/ check'[c].step \in {"begun", "done"}
  <2>1. CASE d # c
    BY <1>3, <2>1, StepTyped
  <2>2. CASE d = c
    <3>1. CASE Begin(d)
      BY <1>1, <2>2, <3>1 DEF Begin, Begun
    <3>2. CASE Read(d)
      BY <1>1, <2>2, <3>2 DEF Read
    <3>3. CASE Decide(d)
      BY <1>1, <2>2, <3>3 DEF Decide, CheckStates
    <3>4. CASE Fail(d)
      BY <1>1, <2>2, <3>4, OverTyped DEF Fail
    <3>5. QED
      BY <1>3, <3>1, <3>2, <3>3, <3>4
  <2>3. QED
    BY <2>1, <2>2
<1>4. QED
  BY <1>2, <1>3 DEF Next

LEMMA NotesKeep ==
  ASSUME Inv, Next, NEW c \in Checks
  PROVE  Noted(c)'
<1>1. Watch /\ check[c] \in CheckStates /\ row \in Rows /\ Noted(c)
  BY DEF Next, Inv, TypeOK
<1>2. CASE check'[c] = check[c]
  <2>1. check'[c].step # "done" => Faults(check'[c], row', serial', now') \in could'[c]
    BY <1>1, Watched
  <2>2. ASSUME check'[c].step = "read"
        PROVE  /\ Precedes(check[c].row, check[c].serial)'
               /\ \E time \in 0..now' :
                    Faults(check[c], check[c].row, check[c].serial, time) \in could'[c]
    <3>1. check[c].step = "read" /\ check[c].row \in Rows
      BY <1>1, <1>2, <2>2 DEF CheckStates
    <3>2. could[c] \subseteq could'[c]
      BY <1>1, <1>2, <3>1, Watched
    <3>3. PICK time \in 0..now :
             Faults(check[c], check[c].row, check[c].serial, time) \in could[c]
      BY <1>1, <3>1 DEF Noted
    <3>4. time \in 0..now'
      BY Forward
    <3>5. Precedes(check[c].row, check[c].serial)'
      <4>1. check[c].serial \in Nat /\ Precedes(check[c].row, check[c].serial)
        BY <1>1, <3>1, CredentialsAssumption DEF Noted, CheckStates
      <4>2. QED
        BY <1>2, <3>1, <4>1, Forward DEF Precedes
    <3>6. QED
      BY <3>2, <3>3, <3>4, <3>5
  <2>3. QED
    BY <1>2, <2>1, <2>2 DEF Noted, Precedes
<1>3. CASE /\ check[c].step = "begun" /\ UNCHANGED <<row, serial, now>>
           /\ check'[c] = [check[c] EXCEPT !.step = "read", !.row = row, !.serial = serial]
  <2>1. check'[c].row = row' /\ check'[c].step = "read"
    BY <1>1, <1>3 DEF CheckStates
  <2>2. Faults(check'[c], row', serial', now') \in could'[c]
    BY <1>1, <2>1, Watched
  <2>3. now' \in 0..now'
    BY Forward
  <2>4. check'[c].serial = serial' /\ serial' \in Nat
    BY <1>1, <1>3, CredentialsAssumption DEF Inv, TypeOK, CheckStates
  <2>5. QED
    BY <2>1, <2>2, <2>3, <2>4 DEF Noted, Precedes
<1>4. CASE check'[c].step \in {"begun", "done"}
  BY <1>1, <1>4, Watched DEF Noted
<1>5. QED
  BY <1>2, <1>3, <1>4, Stages

LEMMA Invariance == Spec => []Inv
<1>1. Inv /\ [Next]_vars => Inv'
  <2> SUFFICES ASSUME Inv, [Next]_vars PROVE Inv'
    OBVIOUS
  <2>1. CASE Next
    BY <2>1, TypesKeep, Forward, NotesKeep DEF Inv
  <2>2. CASE UNCHANGED vars
    BY <2>2 DEF vars, Inv, TypeOK, Issued, Enrolled, Noted, Precedes
  <2>3. QED
    BY <2>1, <2>2
<1>2. QED
  BY <1>1, Initially, PTL DEF Spec

-----------------------------------------------------------------------------
(* The verdict *)

\* Of the optional values in a row: times are numbers, and a key is the only one.
LEMMA RowValues ==
  ASSUME NEW r \in Rows
  PROVE  /\ r.until \subseteq Nat
         /\ \A k : k \in r.key <=> r.key = {k}
<1>1. r.until \in Opt(Nat) /\ r.key \in Opt(Keys)
  BY DEF Rows
<1>2. QED
  BY <1>1 DEF Opt

\* Nothing that is asked is wrong: the signatures and the standing are right.
LEMMA NothingAsked ==
  \A c, r, n, time :
    Faults(c, r, n, time) \subseteq Unasked
      <=> /\ c.kind = "lookup" \/ (c.signed /\ c.signer \in r.key)
          /\ GoodStanding(c, r, time)
<1> SUFFICES ASSUME NEW c, NEW r, NEW n, NEW time
             PROVE  Faults(c, r, n, time) \subseteq Unasked
                      <=> /\ c.kind = "lookup" \/ (c.signed /\ c.signer \in r.key)
                          /\ GoodStanding(c, r, time)
  OBVIOUS
<1>1. "signatures" \in Faults(c, r, n, time)
        <=> ~(c.kind = "lookup" \/ (c.signed /\ c.signer \in r.key))
  BY DEF Faults, Fault
<1>2. "standing" \in Faults(c, r, n, time) <=> ~GoodStanding(c, r, time)
  BY DEF Faults, Fault
<1>3. Faults(c, r, n, time) \subseteq Unasked
        <=> "signatures" \notin Faults(c, r, n, time) /\ "standing" \notin Faults(c, r, n, time)
  BY FaultsTyped DEF Fault, Unasked
<1>4. QED
  BY <1>1, <1>2, <1>3

\* On a row that passes, nothing that is asked was wrong at any earlier time.
LEMMA FoundWasRight ==
  ASSUME NEW c \in CheckStates, NEW r \in Rows, now \in Nat, NEW time \in 0..now, NEW n,
         Finds(c, r, now)
  PROVE  Faults(c, r, n, time) \subseteq Unasked
<1>1. c.kind = "lookup" \/ (c.signed /\ c.signer \in r.key)
  BY RowValues DEF Finds, Signatures, Document
<1>2. r.key # {} /\ ~r.revoked
  BY RowValues DEF Finds, Active, Resolves, Document
<1>3. c.kind = "standalone" \/ \A u \in r.until : now <= u
  BY DEF Finds, Active
<1>4. ASSUME NEW u \in r.until, now <= u PROVE ~(u < time)
  BY <1>4, RowValues
<1>5. GoodStanding(c, r, time)
  BY <1>2, <1>3, <1>4 DEF GoodStanding
<1>6. QED
  BY <1>1, <1>5, NothingAsked

\* A row that was right and does not pass now has expired.
LEMMA LostByExpiry ==
  ASSUME NEW c \in CheckStates, NEW r \in Rows, now \in Nat, NEW time \in 0..now, NEW n,
         Faults(c, r, n, time) \subseteq Unasked, ~Finds(c, r, now)
  PROVE  c.kind # "standalone" /\ \E u \in r.until : u < now
<1>1. /\ c.kind = "lookup" \/ (c.signed /\ c.signer \in r.key)
      /\ r.key # {} /\ ~r.revoked /\ c.kind \in Kinds
  BY NothingAsked DEF GoodStanding, CheckStates
<1>2. c.kind = "lookup" \/ Signatures(c, r.key)
  BY <1>1, RowValues DEF Signatures
<1>3. c.kind # "standalone" /\ ~Active(r, now)
  BY <1>1, <1>2 DEF Finds, Resolves, Document, Kinds
<1>4. PICK u \in r.until : ~(now <= u)
  BY <1>1, <1>3 DEF Active
<1>5. u < now
  BY <1>4, RowValues
<1>6. QED
  BY <1>3, <1>5

LEMMA Accepted ==
  ASSUME Inv, NEW c \in Checks, check[c].step = "read", Finds(check[c], check[c].row, now)
  PROVE  \E faults \in could[c] : faults \subseteq Unasked
<1>1. check[c] \in CheckStates /\ check[c].row \in Rows /\ now \in Nat
  BY CredentialsAssumption DEF Inv, TypeOK, CheckStates
<1>2. PICK time \in 0..now :
         Faults(check[c], check[c].row, check[c].serial, time) \in could[c]
  BY DEF Inv, Noted
<1>3. Faults(check[c], check[c].row, check[c].serial, time) \subseteq Unasked
  BY <1>1, FoundWasRight
<1>4. QED
  BY <1>2, <1>3

LEMMA Refused ==
  ASSUME Inv, NEW c \in Checks, check[c].step = "read", ~Finds(check[c], check[c].row, now)
  PROVE  (\E faults \in could[c] : ~(faults \subseteq Unasked)) \/ Outrun(c)
<1>1. /\ check[c] \in CheckStates /\ check[c].row \in Rows /\ now \in Nat
      /\ row \in Rows
  BY CredentialsAssumption DEF Inv, TypeOK, CheckStates
<1>2. PICK time \in 0..now :
         Faults(check[c], check[c].row, check[c].serial, time) \in could[c]
  BY DEF Inv, Noted
<1>3. CASE ~(Faults(check[c], check[c].row, check[c].serial, time) \subseteq Unasked)
  BY <1>2, <1>3
<1>4. CASE Faults(check[c], check[c].row, check[c].serial, time) \subseteq Unasked
  <2>1. check[c].kind # "standalone" /\ \E u \in check[c].row.until : u < now
    BY <1>1, <1>4, LostByExpiry
  <2>2. Precedes(check[c].row, check[c].serial)
    BY DEF Inv, Noted
  <2>3. CASE check[c].serial < serial
    BY <2>1, <2>3 DEF Outrun
  <2>4. CASE check[c].serial = serial
    <3>1. ~GoodStanding(check[c], row, now)
      BY <1>1, <2>1, <2>2, <2>4, CredentialsAssumption DEF Precedes, GoodStanding, Rows
    <3>2. ~(Faults(check[c], row, serial, now) \subseteq Unasked)
      BY <3>1, NothingAsked
    <3>3. Faults(check[c], row, serial, now) \in could[c]
      BY DEF Inv, Noted
    <3>4. QED
      BY <3>2, <3>3
  <2>5. check[c].serial \in Int /\ serial \in Int
    BY <1>1, CredentialsAssumption DEF Inv, TypeOK, CheckStates
  <2>6. check[c].serial <= serial
    BY <2>2 DEF Precedes
  <2>7. check[c].serial < serial \/ check[c].serial = serial
    BY <2>5, <2>6
  <2>8. QED
    BY <2>3, <2>4, <2>7
<1>5. QED
  BY <1>3, <1>4

\* A verification that failed has reached no verdict, or refused a row that was nobody's.
LEMMA Concluded ==
  ASSUME Inv, Next, NEW c \in Checks, Concludes(c)
  PROVE  check'[c].valid = Finds(check[c], check[c].row, now)
<1>1. check[c].step = "read" /\ check'[c].step = "done"
      /\ check'[c] = [check[c] EXCEPT !.step = "done", !.valid = check'[c].valid]
  BY DEF Concludes, Inv, TypeOK, CheckStates
<1>2. check[c] \in CheckStates /\ check \in [Checks -> CheckStates]
  BY DEF Inv, TypeOK
<1>3. PICK d \in Checks : Begin(d) \/ Read(d) \/ Decide(d) \/ Fail(d)
  BY <1>1 DEF Next, Write, GetToken, Tick
<1>4. d = c
  BY <1>1, <1>3, StepTyped
<1>5. CASE Decide(c)
  BY <1>2, <1>5 DEF Decide, CheckStates
<1>6. CASE Fail(c)
  <2>1. check'[c] = Over
    BY <1>2, <1>6 DEF Fail
  <2>2. Over.row = NoAgent /\ Over.kind = "lookup" /\ Over.valid = FALSE
    BY DEF Over, Begun
  <2>3. check'[c].row = check[c].row /\ check'[c].kind = check[c].kind
    BY <1>1, <1>2 DEF CheckStates
  <2>4. check[c].row = NoAgent /\ check[c].kind = "lookup" /\ check'[c].valid = FALSE
    BY <2>1, <2>2, <2>3
  <2>5. ~Finds(check[c], check[c].row, now)
    BY <2>4 DEF Finds, Active, NoAgent
  <2>6. QED
    BY <2>4, <2>5, FindsTyped
<1>7. QED
  BY <1>1, <1>2, <1>3, <1>4, <1>5, <1>6 DEF Begin, Read

-----------------------------------------------------------------------------
(* Theorems *)

\* Rows, tokens and verifications keep their types: a charter handed out as a token
\* has a number, and a verdict is a verdict.
THEOREM Typed == Spec => []TypeOK
<1>1. Inv => TypeOK
  BY DEF Inv
<1>2. QED
  BY <1>1, Invariance, PTL

\* For any number of verifications at once, any keys and any lifetime, a verdict of
\* /verify, of the attributes or of the standalone verifier was right, in all that they
\* ask, at some moment of the verification, unless a renewal outran the charter that was
\* read.  Whether the charter is the holder's, and in force, they do not ask.
THEOREM VerdictsWereRight == Spec => VerdictsRight
<1>1. Inv /\ [Next]_vars =>
        [\A c \in Checks : Concludes(c) =>
           IF check'[c].valid THEN \E faults \in could[c] : faults \subseteq Unasked
           ELSE (\E faults \in could[c] : ~(faults \subseteq Unasked)) \/ Outrun(c)]_vars
  <2> SUFFICES ASSUME Inv, Next, NEW c \in Checks, Concludes(c)
               PROVE  IF check'[c].valid THEN \E faults \in could[c] : faults \subseteq Unasked
                      ELSE (\E faults \in could[c] : ~(faults \subseteq Unasked)) \/ Outrun(c)
    OBVIOUS
  <2>1. check[c].step = "read" /\ (check'[c].valid <=> Finds(check[c], check[c].row, now))
    BY Concluded DEF Concludes
  <2>2. QED
    BY <2>1, Accepted, Refused
<1>2. QED
  BY <1>1, Invariance, PTL DEF Spec, VerdictsRight
=============================================================================
