---------------------------- MODULE ClientProofs ----------------------------
(***************************************************************************)
(* Proofs about Client, for any number of processes, keys and requests:    *)
(* type correctness, that only accepted keys are stored, when the key can  *)
(* be lost, that a lost key stays lost, and what the files hold.           *)
(***************************************************************************)
EXTENDS Client, TLAPS

----------------------------------------------------------------------------
\* The invariant

\* Whoever waits has one request at the registry and knows what it asks for.
Linked ==
  /\ \A r \in requests : r.by # NoProc =>
       call[r.by].step = "waiting" /\ call[r.by].op = r.op /\ call[r.by].key = r.key
  /\ \A r, s \in requests : r.by # NoProc /\ r.by = s.by => r = s

\* A call that saves a key changes the key, to one the registry has accepted.
Saving ==
  \A p \in Procs :
    /\ Busy(p) => call[p].key \in Keys
    /\ SavesKey(p) => ChangesKey(call[p].op) /\ call[p].key \in accepted

\* Keys are generated before they are accepted; the registered one is accepted.
Generated ==
  /\ accepted \subseteq made
  /\ regKey # Missing => regKey \in accepted /\ regCharter \in Charters
  /\ \A r \in requests : r.key \in made

Inv == TypeOK /\ Linked /\ Saving /\ Generated /\ FileKeyAccepted

----------------------------------------------------------------------------
\* The forms of a step

\* Process p, which was idle, asks r of the registry.
Asks(p, r) ==
  /\ ~Busy(p)
  /\ r \in Requests /\ r.by = p /\ r.admitted = FALSE
  /\ \/ r.signer = keyFile
     \/ r.signer \notin made
  /\ requests' = requests \cup {r}
  /\ call' = [call EXCEPT ![p] = [step |-> "waiting", op |-> r.op, key |-> r.key,
                                  charter |-> Missing]]
  /\ made \subseteq made' /\ made' \subseteq Keys /\ r.key \in made'
  /\ overlap \subseteq overlap' /\ overlap' \subseteq {"key", "call"}
  /\ \A q \in Procs \ {p} :
       Busy(q) /\ ChangesKey(r.op) /\ ChangesKey(call[q].op) => "key" \in overlap'
  /\ overlap' = {} => \A q \in Procs \ {p} : ~Busy(q)
  /\ UNCHANGED <<remote, files, lost>>

Starts(p) == Provision(p) \/ Rotate(p) \/ Reissue(p) \/ ReissueByDefault(p)

Saves(p) == SaveKeyBegin(p) \/ SaveKeyEnd(p) \/ SaveCharterBegin(p) \/ SaveCharterEnd(p)

LEMMA SendAsks ==
  ASSUME Inv, NEW p \in Procs, NEW op \in Ops, NEW signer \in Keys, NEW key \in Keys,
         NEW claims \in SUBSET Caps, NEW amend \in BOOLEAN,
         ~Busy(p), Send(p, op, signer, key, claims, amend),
         signer = keyFile \/ signer \notin made,
         made \subseteq made', made' \subseteq Keys, key \in made'
  PROVE  \E r : Asks(p, r)
<1> DEFINE r == [by |-> p, op |-> op, signer |-> signer, key |-> key, claims |-> claims,
                 amend |-> amend, admitted |-> FALSE]
<1>1. r \in Requests
  BY DEF Requests
<1>2. /\ requests' = requests \cup {r}
      /\ call' = [call EXCEPT ![p] = [step |-> "waiting", op |-> op, key |-> key,
                                      charter |-> Missing]]
      /\ UNCHANGED <<remote, files, lost>>
  BY DEF Send
<1>3. /\ overlap \subseteq overlap' /\ overlap' \subseteq {"key", "call"}
      /\ \A q \in Procs \ {p} :
           Busy(q) /\ ChangesKey(op) /\ ChangesKey(call[q].op) => "key" \in overlap'
      /\ overlap' = {} => \A q \in Procs \ {p} : ~Busy(q)
  BY DEF Send, Inv, TypeOK
<1>4. Asks(p, r)
  BY <1>1, <1>2, <1>3 DEF Asks
<1>5. QED
  BY <1>4

LEMMA StartAsks ==
  ASSUME Inv, NEW p \in Procs, Starts(p)
  PROVE  \E r : Asks(p, r)
<1>1. CASE Provision(p)
  <2>1. PICK key \in Keys, claims \in SUBSET Caps :
          Generate(key) /\ Send(p, "provision", key, key, claims, FALSE)
    BY <1>1 DEF Provision
  <2>2. QED
    BY <1>1, <2>1, SendAsks DEF Provision, Generate, Ops, Inv, TypeOK
<1>2. CASE Rotate(p)
  <2>1. PICK key \in Keys : Generate(key) /\ Send(p, "rotate", keyFile, key, {}, FALSE)
    BY <1>2 DEF Rotate
  <2>2. QED
    BY <1>2, <2>1, SendAsks DEF Rotate, KeyLoads, Generate, Ops, Inv, TypeOK
<1>3. CASE Reissue(p)
  BY <1>3, SendAsks DEF Reissue, KeyLoads, Ops, Inv, TypeOK, Generated,
                           FileKeyAccepted
<1>4. CASE ReissueByDefault(p)
  BY <1>4, SendAsks DEF ReissueByDefault, KeyLoads, Ops, Charters, Inv, TypeOK,
                           Generated, FileKeyAccepted
<1>5. QED
  BY <1>1, <1>2, <1>3, <1>4 DEF Starts

LEMMA StepCases ==
  ASSUME Inv, Next
  PROVE  \/ \E p \in Procs : (\E r : Asks(p, r)) \/ Saves(p) \/ Die(p)
         \/ \E r \in requests : Admit(r) \/ Commit(r) \/ Refuse(r)
         \/ Revoke
BY StartAsks DEF Next, Starts, Saves

----------------------------------------------------------------------------
\* What the steps of the registry find

\* A handler lets a request pass only for an agent as it is registered.
LEMMA AdmitTypes ==
  ASSUME Inv, NEW r \in requests, Admit(r)
  PROVE  /\ r \in Requests
         /\ \E s \in Requests :
              /\ requests' = (requests \ {r}) \cup {s}
              /\ s.by = r.by /\ s.op = r.op /\ s.key = r.key /\ s.signer = r.signer
<1> DEFINE claims == IF r.op = "rotate" THEN regCharter.claims ELSE r.claims
           s == [r EXCEPT !.admitted = TRUE, !.claims = claims]
<1>1. r \in Requests
  BY DEF Inv, TypeOK
<1>2. claims \in SUBSET Caps
  <2>1. CASE r.op = "rotate"
    <3>1. regKey = r.signer /\ r.signer \in Keys
      BY <1>1, <2>1 DEF Admit, Admissible, Requests
    <3>2. regCharter \in Charters
      BY <3>1, ClientAssumption DEF Inv, Generated
    <3>3. QED
      BY <2>1, <3>2 DEF Charters
  <2>2. CASE r.op # "rotate"
    BY <1>1, <2>2 DEF Requests
  <2>3. QED
    BY <2>1, <2>2
<1>3. s \in Requests /\ s.by = r.by /\ s.op = r.op /\ s.key = r.key /\ s.signer = r.signer
  BY <1>1, <1>2 DEF Requests
<1>4. requests' = (requests \ {r}) \cup {s}
  BY DEF Admit
<1>5. QED
  BY <1>1, <1>3, <1>4

\* The charter that a commit signs.
Signed(r) == [serial |-> issued + 1, claims |-> r.claims]

LEMMA CommitTypes ==
  ASSUME Inv, NEW r \in requests, Commit(r)
  PROVE  /\ r \in Requests
         /\ issued' \in 0..MaxIssued
         /\ Signed(r) \in Charters
         /\ regCharter' = Signed(r)
         /\ requests' = requests \ {r}
<1>1. r \in Requests
  BY DEF Inv, TypeOK
<1>2. issued \in 0..MaxIssued /\ issued < MaxIssued /\ issued' = issued + 1
  BY DEF Commit, Inv, TypeOK
<1>3. Signed(r) \in Charters
  BY <1>1, <1>2, ClientAssumption DEF Signed, Charters, Requests
<1>4. QED
  BY <1>1, <1>2, <1>3, ClientAssumption DEF Commit, Signed

----------------------------------------------------------------------------
\* Every step preserves the invariant

LEMMA AsksPreserves ==
  ASSUME Inv, NEW p \in Procs, NEW r, Asks(p, r)
  PROVE  Inv'
<1> USE ClientAssumption DEF Inv, Asks, Busy, SavesKey
<1>1. TypeOK'
  BY DEF TypeOK, Calls, Steps, Requests, remote, files, lost
<1>2. Linked'
  BY DEF Linked, TypeOK
<1>3. Saving'
  BY DEF Saving, TypeOK, Requests, remote
<1>4. Generated' /\ FileKeyAccepted'
  BY DEF Generated, FileKeyAccepted, remote, files
<1>5. QED
  BY <1>1, <1>2, <1>3, <1>4

LEMMA SavesPreserves ==
  ASSUME Inv, NEW p \in Procs, Saves(p)
  PROVE  Inv'
<1> USE ClientAssumption DEF Inv, Saves, SaveKeyBegin, SaveKeyEnd, SaveCharterBegin,
        SaveCharterEnd
<1>1. TypeOK'
  BY DEF TypeOK, Calls, Steps, Idle, Ops, Saving, Busy, remote, lost
<1>2. /\ requests' = requests /\ accepted' = accepted
      /\ \A q \in Procs \ {p} : call'[q] = call[q]
      /\ call[p].step \notin {"waiting", "idle"}
      /\ \/ call'[p].step = "idle"
         \/ /\ call'[p].key = call[p].key /\ call'[p].op = call[p].op
            /\ call'[p].step \in {"savingKey", "charterToSave", "savingCharter"}
            /\ call'[p].step = "savingKey" => call[p].step = "keyToSave"
  BY DEF TypeOK, Calls, Idle, remote
<1>3. Linked'
  BY <1>2 DEF Linked, TypeOK, Requests
<1>4. Saving'
  BY <1>2 DEF Saving, Busy, SavesKey
<1>5. Generated' /\ FileKeyAccepted'
  BY DEF Generated, FileKeyAccepted, Saving, SavesKey, remote
<1>6. QED
  BY <1>1, <1>3, <1>4, <1>5

LEMMA DiePreserves ==
  ASSUME Inv, NEW p \in Procs, Die(p)
  PROVE  Inv'
<1> USE ClientAssumption DEF Inv, Die
<1>1. TypeOK'
  <2>1. requests' \subseteq Requests
    BY DEF TypeOK, Requests
  <2>2. call' \in [Procs -> Calls]
    BY DEF TypeOK, Calls, Steps, Ops, Idle
  <2>3. keyLost' \in BOOLEAN /\ charterLost' \in BOOLEAN
    OBVIOUS
  <2>4. QED
    BY <2>1, <2>2, <2>3 DEF TypeOK, remote, files
<1>2. Linked'
  <2>1. \A s \in requests' : \E r \in requests :
          IF r.by = p THEN s.by = NoProc ELSE s = r
    BY DEF TypeOK, Requests
  <2>2. \A q \in Procs \ {p} : call'[q] = call[q]
    BY DEF TypeOK
  <2>3. \A r \in requests : r.by \in Procs \cup {NoProc}
    BY DEF TypeOK, Requests
  <2>4. QED
    BY <2>1, <2>2, <2>3 DEF Linked
<1>3. Saving'
  BY DEF Saving, Busy, SavesKey, TypeOK, Idle, remote
<1>4. Generated' /\ FileKeyAccepted'
  <2>1. \A s \in requests' : \E r \in requests : s.key = r.key
    BY DEF TypeOK, Requests
  <2>2. QED
    BY <2>1 DEF Generated, FileKeyAccepted, remote, files
<1>5. QED
  BY <1>1, <1>2, <1>3, <1>4

LEMMA AdmitPreserves ==
  ASSUME Inv, NEW r \in requests, Admit(r)
  PROVE  Inv'
<1>1. PICK s \in Requests :
        /\ requests' = (requests \ {r}) \cup {s}
        /\ s.by = r.by /\ s.op = r.op /\ s.key = r.key /\ s.signer = r.signer
  BY AdmitTypes
<1>2. UNCHANGED <<remote, made, files, call, lost, overlap>>
  BY DEF Admit
<1>3. Linked'
  BY <1>1, <1>2 DEF Inv, Linked
<1>4. QED
  BY <1>1, <1>2, <1>3 DEF Inv, TypeOK, Saving, Busy, SavesKey, Generated, FileKeyAccepted,
                          remote, files, lost

LEMMA CommitPreserves ==
  ASSUME Inv, NEW r \in requests, Commit(r)
  PROVE  Inv'
<1> DEFINE c == Signed(r)
<1>1. /\ r \in Requests /\ issued' \in 0..MaxIssued /\ c \in Charters
      /\ regCharter' = c /\ requests' = requests \ {r}
  BY CommitTypes
<1>2. /\ UNCHANGED <<revoked, made, files, overlap>>
      /\ IF r.by = NoProc THEN call' = call ELSE Granted(r.by, c)
      /\ charterLost' \in BOOLEAN /\ (keyLost' \in BOOLEAN \/ keyLost' = keyLost)
      /\ IF ChangesKey(r.op)
         THEN regKey' = r.key /\ accepted' = accepted \cup {r.key}
         ELSE UNCHANGED <<regKey, accepted>>
  BY DEF Commit, Signed
<1> HIDE DEF c
<1>3. r.by # NoProc =>
        /\ r.by \in Procs
        /\ call[r.by].step = "waiting" /\ call[r.by].op = r.op /\ call[r.by].key = r.key
  BY <1>1 DEF Inv, Linked, Requests
<1>4. /\ call' \in [Procs -> Calls]
      /\ \A q \in Procs : q # r.by => call'[q] = call[q]
      /\ r.by # NoProc =>
           /\ call'[r.by].key = r.key /\ call'[r.by].op = r.op
           /\ call'[r.by].step = FirstSave(r.op)
  BY <1>1, <1>2, <1>3, ClientAssumption
     DEF Inv, TypeOK, Calls, Steps, Granted, FirstSave, ChangesKey
<1>5. TypeOK'
  BY <1>1, <1>2, <1>4 DEF Inv, TypeOK, Requests, files
<1>6. Linked'
  BY <1>1, <1>3, <1>4 DEF Inv, Linked, TypeOK, Requests
<1>7. accepted \subseteq accepted' /\ (ChangesKey(r.op) => r.key \in accepted')
  BY <1>2
<1>8. Saving'
  <2> SUFFICES ASSUME NEW q \in Procs
               PROVE  /\ Busy(q)' => call'[q].key \in Keys
                      /\ SavesKey(q)' => ChangesKey(call'[q].op) /\ call'[q].key \in accepted'
    BY DEF Saving
  <2>1. CASE q = r.by
    BY <1>1, <1>4, <1>7, <2>1, ClientAssumption DEF SavesKey, FirstSave, Requests
  <2>2. CASE q # r.by
    BY <1>4, <1>7, <2>2 DEF Inv, Saving, Busy, SavesKey
  <2>3. QED
    BY <2>1, <2>2
<1>9. Generated' /\ FileKeyAccepted'
  BY <1>1, <1>2, <1>7 DEF Inv, Generated, FileKeyAccepted, TypeOK, files
<1>10. QED
  BY <1>5, <1>6, <1>8, <1>9 DEF Inv

LEMMA RefusePreserves ==
  ASSUME Inv, NEW r \in requests, Refuse(r)
  PROVE  Inv'
<1>1. /\ r \in Requests /\ requests' = requests \ {r}
      /\ UNCHANGED <<remote, made, files, lost, overlap>>
      /\ IF r.by = NoProc THEN call' = call ELSE call' = [call EXCEPT ![r.by] = Idle]
  BY DEF Refuse, Rejected, Inv, TypeOK
<1>2. /\ call' \in [Procs -> Calls]
      /\ \A q \in Procs : q # r.by => call'[q] = call[q]
      /\ \A q \in Procs : call'[q] = call[q] \/ call'[q].step = "idle"
  BY <1>1, ClientAssumption DEF Inv, TypeOK, Requests, Calls, Steps, Ops, Idle
<1>3. Linked'
  BY <1>1, <1>2 DEF Inv, Linked, TypeOK, Requests
<1>4. QED
  BY <1>1, <1>2, <1>3 DEF Inv, TypeOK, Saving, Busy, SavesKey, Generated, FileKeyAccepted,
                          remote, files, lost

LEMMA RevokePreserves ==
  ASSUME Inv, Revoke
  PROVE  Inv'
BY DEF Revoke, Inv, TypeOK, Linked, Saving, Busy, SavesKey, Generated, FileKeyAccepted,
       files, lost

LEMMA StutterPreserves ==
  ASSUME Inv, UNCHANGED vars
  PROVE  Inv'
BY DEF vars, Inv, TypeOK, Linked, Saving, Busy, SavesKey, Generated, FileKeyAccepted

LEMMA Invariance == Spec => []Inv
<1>1. Init => Inv
  <2>1. Init => TypeOK
    <3>1. Idle \in Calls
      BY DEF Idle, Calls, Steps, Ops
    <3>2. Init => call \in [Procs -> Calls]
      BY <3>1 DEF Init
    <3>3. Init => issued \in 0..MaxIssued
      BY ClientAssumption DEF Init
    <3>4. QED
      BY <3>2, <3>3 DEF Init, TypeOK
  <2>2. Init => Linked /\ Saving
    BY DEF Init, Linked, Saving, Busy, SavesKey, Idle
  <2>3. Init => Generated /\ FileKeyAccepted
    BY ClientAssumption DEF Init, Generated, FileKeyAccepted
  <2>4. QED
    BY <2>1, <2>2, <2>3 DEF Inv
<1>2. Inv /\ [Next]_vars => Inv'
  <2> SUFFICES ASSUME Inv, [Next]_vars PROVE Inv'
    OBVIOUS
  <2>1. CASE Next
    BY <2>1, StepCases, AsksPreserves, SavesPreserves, DiePreserves, AdmitPreserves,
       CommitPreserves, RefusePreserves, RevokePreserves
  <2>2. CASE UNCHANGED vars
    BY <2>2, StutterPreserves
  <2>3. QED
    BY <2>1, <2>2
<1>3. QED
  BY <1>1, <1>2, PTL DEF Spec

\* The variables keep their types, whatever calls fail or overlap.
THEOREM TypeCorrect == Spec => []TypeOK
<1>1. Inv => TypeOK
  BY DEF Inv
<1>2. QED
  BY <1>1, Invariance, PTL

\* No call ever stores a key that the registry has not accepted.
THEOREM StoredKeysAccepted == Spec => []FileKeyAccepted
<1>1. Inv => FileKeyAccepted
  BY DEF Inv
<1>2. QED
  BY <1>1, Invariance, PTL

----------------------------------------------------------------------------
\* When the key can be lost

\* Two calls that change the key at the same time have been noted.
Alone ==
  \A p, q \in Procs :
    p # q /\ Busy(p) /\ Busy(q) /\ ChangesKey(call[p].op) /\ ChangesKey(call[q].op)
      => "key" \in overlap

\* Otherwise a key about to be written is the registered one, unless the commit of a
\* request that nobody waits for has replaced it.
Current ==
  \/ "key" \in overlap
  \/ keyLost
  \/ \A p \in Procs : SavesKey(p) => call[p].key = regKey

LossInv == Alone /\ Current /\ KeyNotLost

LEMMA AsksKeepsKey ==
  ASSUME Inv, LossInv, NEW p \in Procs, NEW r, Asks(p, r)
  PROVE  LossInv'
<1>1. /\ UNCHANGED <<regKey, keyFile, keyLost>> /\ overlap \subseteq overlap'
      /\ call'[p].step = "waiting" /\ call'[p].op = r.op
      /\ \A q \in Procs \ {p} : call'[q] = call[q]
      /\ call[p].step = "idle"
  BY DEF Asks, Inv, TypeOK, Busy, remote, files, lost
<1>2. Alone'
  BY <1>1 DEF LossInv, Alone, Busy, Asks
<1>3. QED
  BY <1>1, <1>2 DEF LossInv, Current, KeyNotLost, SavesKey

LEMMA SavesKeepsKey ==
  ASSUME Inv, LossInv, NEW p \in Procs, Saves(p)
  PROVE  LossInv'
<1>1. /\ UNCHANGED <<regKey, keyLost, overlap>>
      /\ \A q \in Procs \ {p} : call'[q] = call[q]
      /\ call[p].step # "idle"
      /\ call'[p].step # "idle" => call'[p].op = call[p].op /\ call'[p].key = call[p].key
  BY DEF Saves, SaveKeyBegin, SaveKeyEnd, SaveCharterBegin, SaveCharterEnd, Inv, TypeOK,
         Calls, Idle, remote, lost
<1>2. Alone'
  BY <1>1 DEF LossInv, Alone, Busy
<1>3. CASE SaveKeyBegin(p)
  <2>1. SavesKey(p) /\ SavesKey(p)'
    BY <1>3 DEF SaveKeyBegin, SavesKey, Inv, TypeOK, Calls
  <2>2. QED
    BY <1>1, <1>2, <2>1 DEF LossInv, Current, KeyNotLost, SavesKey
<1>4. CASE SaveKeyEnd(p)
  <2>1. SavesKey(p) /\ ~SavesKey(p)' /\ keyFile' = call[p].key
    BY <1>4 DEF SaveKeyEnd, SavesKey, Inv, TypeOK, Calls
  <2>2. QED
    BY <1>1, <1>2, <2>1 DEF LossInv, Current, KeyNotLost, SavesKey
<1>5. CASE SaveCharterBegin(p) \/ SaveCharterEnd(p)
  <2>1. ~SavesKey(p) /\ ~SavesKey(p)' /\ keyFile' = keyFile
    BY <1>5 DEF SaveCharterBegin, SaveCharterEnd, SavesKey, Inv, TypeOK, Calls, Idle
  <2>2. QED
    BY <1>1, <1>2, <2>1 DEF LossInv, Current, KeyNotLost, SavesKey
<1>6. QED
  BY <1>3, <1>4, <1>5 DEF Saves

LEMMA DieKeepsKey ==
  ASSUME Inv, LossInv, NEW p \in Procs, Die(p)
  PROVE  LossInv'
<1>1. /\ UNCHANGED <<regKey, keyFile, overlap>>
      /\ keyLost => keyLost'
      /\ SavesKey(p) /\ call[p].key = regKey => keyLost'
      /\ \A q \in Procs \ {p} : call'[q] = call[q]
      /\ call'[p].step = "idle"
  BY DEF Die, Inv, TypeOK, Idle, SavesKey, remote, files
<1>2. QED
  BY <1>1 DEF LossInv, Alone, Current, KeyNotLost, Busy, SavesKey

LEMMA CommitKeepsKey ==
  ASSUME Inv, LossInv, NEW r \in requests, Commit(r)
  PROVE  LossInv'
<1>1. /\ r \in Requests /\ overlap' = overlap /\ keyFile' = keyFile
      /\ IF ChangesKey(r.op)
         THEN regKey' = r.key /\ (r.by = NoProc => keyLost')
         ELSE regKey' = regKey /\ keyLost' = keyLost
  BY DEF Commit, Inv, TypeOK, files
<1>2. CASE r.by = NoProc
  <2>1. call' = call
    BY <1>2 DEF Commit
  <2>2. QED
    BY <1>1, <1>2, <2>1 DEF LossInv, Alone, Current, KeyNotLost, Busy, SavesKey
<1>3. CASE r.by # NoProc
  <2> DEFINE p == r.by
  <2>1. p \in Procs /\ call[p].step = "waiting" /\ call[p].op = r.op /\ call[p].key = r.key
    BY <1>1, <1>3 DEF Inv, Linked, Requests
  <2>2. /\ \A q \in Procs \ {p} : call'[q] = call[q]
        /\ call'[p].key = r.key /\ call'[p].op = r.op /\ call'[p].step = FirstSave(r.op)
    BY <1>3, <2>1 DEF Commit, Granted, Inv, TypeOK, Calls
  <2> HIDE DEF p
  <2>3. Busy(p) /\ ~SavesKey(p) /\ (SavesKey(p)' <=> ChangesKey(r.op))
    BY <2>1, <2>2 DEF Busy, SavesKey, FirstSave
  <2>4. Alone'
    BY <2>1, <2>2, <2>3, <1>1 DEF LossInv, Alone, Busy
  <2>5. CASE ChangesKey(r.op)
    <3>1. regKey' = r.key /\ SavesKey(p)' /\ call'[p].key = regKey'
      BY <1>1, <2>2, <2>3, <2>5
    <3>2. \A q \in Procs \ {p} : SavesKey(q) => "key" \in overlap
      BY <2>1, <2>3, <2>5 DEF LossInv, Alone, Inv, Saving, SavesKey, Busy
    <3>3. Current'
      BY <1>1, <2>2, <3>1, <3>2 DEF Current, SavesKey
    <3>4. KeyNotLost'
      BY <2>1, <3>1 DEF KeyNotLost
    <3>5. QED
      BY <2>4, <3>3, <3>4 DEF LossInv
  <2>6. CASE ~ChangesKey(r.op)
    <3>1. regKey' = regKey /\ ~SavesKey(p)'
      BY <1>1, <2>3, <2>6
    <3>2. \A q \in Procs : q # p => (SavesKey(q)' <=> SavesKey(q))
      BY <2>2 DEF SavesKey
    <3>3. QED
      BY <1>1, <2>2, <2>3, <2>4, <3>1, <3>2 DEF LossInv, Current, KeyNotLost
  <2>7. QED
    BY <2>5, <2>6
<1>4. QED
  BY <1>2, <1>3

LEMMA RefuseKeepsKey ==
  ASSUME Inv, LossInv, NEW r \in requests, Refuse(r)
  PROVE  LossInv'
<1>1. UNCHANGED <<regKey, keyFile, overlap, keyLost>>
  BY DEF Refuse, remote, files, lost
<1>2. CASE r.by = NoProc
  BY <1>1, <1>2 DEF Refuse, LossInv, Alone, Current, KeyNotLost, Busy, SavesKey
<1>3. CASE r.by # NoProc
  <2>1. r.by \in Procs /\ call[r.by].step = "waiting"
    BY <1>3 DEF Inv, TypeOK, Linked, Requests
  <2>2. call'[r.by].step = "idle" /\ \A q \in Procs \ {r.by} : call'[q] = call[q]
    BY <1>3, <2>1 DEF Refuse, Rejected, Inv, TypeOK, Idle
  <2>3. QED
    BY <1>1, <2>1, <2>2 DEF LossInv, Alone, Current, KeyNotLost, Busy, SavesKey
<1>4. QED
  BY <1>2, <1>3

\* The agent's key is lost only by a call that ends between the commit and the write,
\* or by two key changes at once.
THEOREM KeyLostOnlyByAccident == Spec => []KeyNotLost
<1>1. Init => LossInv
  BY DEF Init, LossInv, Alone, Current, KeyNotLost, Busy, SavesKey, Idle
<1>2. Inv /\ LossInv /\ [Next]_vars => LossInv'
  <2> SUFFICES ASSUME Inv, LossInv, [Next]_vars PROVE LossInv'
    OBVIOUS
  <2>1. ASSUME NEW r \in requests, Admit(r) PROVE LossInv'
    BY <2>1 DEF Admit, LossInv, Alone, Current, KeyNotLost, Busy, SavesKey, remote, files, lost
  <2>2. ASSUME Revoke PROVE LossInv'
    BY <2>2 DEF Revoke, LossInv, Alone, Current, KeyNotLost, Busy, SavesKey, files, lost
  <2>3. ASSUME UNCHANGED vars PROVE LossInv'
    BY <2>3 DEF vars, LossInv, Alone, Current, KeyNotLost, Busy, SavesKey
  <2>4. QED
    BY <2>1, <2>2, <2>3, StepCases, AsksKeepsKey, SavesKeepsKey, DieKeepsKey,
       CommitKeepsKey, RefuseKeepsKey
<1>3. LossInv => KeyNotLost
  BY DEF LossInv
<1>4. QED
  BY <1>1, <1>2, <1>3, Invariance, PTL DEF Spec

----------------------------------------------------------------------------
\* A key that is gone is gone forever

\* Once nobody has the registered key, no call, whether provision, rotate or reissue,
\* old or new, changes what the registry has or brings the key back to the file.
THEOREM GoneKeysStayGone == Spec => KeyGoneForever
<1> DEFINE Stays == KeyGone' /\ regKey' = regKey
<1>1. ASSUME Inv, KeyGone, NEW p \in Procs, NEW r, Asks(p, r) PROVE Stays
  <2>1. /\ UNCHANGED <<regKey, keyFile>>
        /\ \A q \in Procs : SavesKey(q)' => SavesKey(q) /\ call'[q] = call[q]
    BY <1>1 DEF Asks, Inv, TypeOK, SavesKey, remote, files
  <2>2. r.signer # regKey
    BY <1>1 DEF Asks, KeyGone, Inv, Generated
  <2>3. QED
    BY <1>1, <2>1, <2>2 DEF KeyGone, Asks
<1>2. ASSUME Inv, KeyGone, NEW p \in Procs, Saves(p) PROVE Stays
  <2>1. /\ UNCHANGED <<regKey, requests>>
        /\ keyFile' \in {keyFile, Torn} \/ (SavesKey(p) /\ keyFile' = call[p].key)
        /\ \A q \in Procs : SavesKey(q)' => SavesKey(q) /\ call'[q].key = call[q].key
    BY <1>2 DEF Saves, SaveKeyBegin, SaveKeyEnd, SaveCharterBegin, SaveCharterEnd, SavesKey,
                Idle, Inv, TypeOK, Calls, remote
  <2>2. regKey # Torn
    BY ClientAssumption, <1>2 DEF KeyGone, Inv, TypeOK
  <2>3. QED
    BY <1>2, <2>1, <2>2 DEF KeyGone
<1>3. ASSUME Inv, KeyGone, NEW p \in Procs, Die(p) PROVE Stays
  <2>1. /\ UNCHANGED <<regKey, keyFile>>
        /\ \A q \in Procs : SavesKey(q)' => SavesKey(q) /\ call'[q] = call[q]
    BY <1>3 DEF Die, Idle, SavesKey, Inv, TypeOK, remote, files
  <2>2. \A s \in requests' : \E r \in requests :
          s.signer = r.signer /\ s.admitted = r.admitted /\ s.op = r.op
    BY <1>3 DEF Die, Inv, TypeOK, Requests
  <2>3. QED
    BY <1>3, <2>1, <2>2 DEF KeyGone
<1>4. ASSUME Inv, KeyGone, NEW r \in requests, Admit(r) PROVE FALSE
  BY <1>4 DEF Admit, Admissible, KeyGone
<1>5. ASSUME Inv, KeyGone, NEW r \in requests, Commit(r) PROVE Stays
  <2>1. r \in Requests /\ r.op = "reissue"
    BY <1>5 DEF Commit, Storable, KeyGone, Inv, TypeOK, Requests, Ops
  <2>2. UNCHANGED <<regKey, keyFile>> /\ requests' = requests \ {r}
    BY <1>5, <2>1 DEF Commit, ChangesKey, files
  <2>3. r.by # NoProc => r.by \in Procs /\ call[r.by].op = "reissue"
    BY <1>5, <2>1 DEF Inv, Linked, Requests
  <2>4. \A q \in Procs : SavesKey(q)' => SavesKey(q) /\ call'[q] = call[q]
    BY <1>5, <2>3 DEF Commit, Granted, FirstSave, ChangesKey, SavesKey, Inv, TypeOK, Calls
  <2>5. QED
    BY <1>5, <2>2, <2>4 DEF KeyGone
<1>6. ASSUME Inv, KeyGone, NEW r \in requests, Refuse(r) PROVE Stays
  <2>1. UNCHANGED <<regKey, keyFile>> /\ requests' = requests \ {r}
    BY <1>6 DEF Refuse, remote, files
  <2>2. \A q \in Procs : SavesKey(q)' => SavesKey(q) /\ call'[q] = call[q]
    BY <1>6 DEF Refuse, Rejected, SavesKey, Idle, Inv, TypeOK
  <2>3. QED
    BY <1>6, <2>1, <2>2 DEF KeyGone
<1>7. ASSUME KeyGone, Revoke PROVE Stays
  BY <1>7 DEF Revoke, KeyGone, SavesKey, files
<1>8. ASSUME KeyGone, UNCHANGED vars PROVE Stays
  BY <1>8 DEF vars, KeyGone, SavesKey
<1>9. Inv /\ [Next]_vars => (KeyGone => KeyGone' /\ UNCHANGED regKey)
  BY <1>1, <1>2, <1>3, <1>4, <1>5, <1>6, <1>7, <1>8, StepCases
<1>10. QED
  BY <1>9, Invariance, PTL DEF Spec, KeyGoneForever

----------------------------------------------------------------------------
\* What the files hold

\* A call has its charter from the moment it is granted, and an agent is enrolled then.
Granting ==
  /\ \A p \in Procs : call[p].charter = Missing <=> call[p].step \in {"idle", "waiting"}
  /\ \A p \in Procs : call[p].charter # Missing => regKey # Missing
  /\ charterFile # Missing \/ accepted # {} => regKey # Missing
  /\ \A r \in requests : r.admitted /\ r.op # "provision" => regKey # Missing

\* With one call at a time, nobody else writes the charter file.
OneWriter ==
  /\ \A p, q \in Procs : Busy(p) /\ Busy(q) => p = q
  /\ \A p \in Procs : call[p].step = "savingCharter" => charterFile = Torn

\* The charter in force is in the file, or in the call that has yet to write it.
CharterAtHand ==
  \/ regKey = Missing
  \/ charterLost
  \/ charterFile = regCharter /\ \A p \in Procs : call[p].charter = Missing
  \/ \E p \in Procs : call[p].charter = regCharter

FilesInv == Granting /\ (overlap = {} => OneWriter /\ CharterAtHand)

LEMMA AsksKeepsFiles ==
  ASSUME Inv, FilesInv, NEW p \in Procs, NEW r, Asks(p, r)
  PROVE  FilesInv'
<1>1. /\ UNCHANGED <<regKey, regCharter, accepted, charterFile, charterLost>>
      /\ overlap' = {} => overlap = {} /\ \A q \in Procs \ {p} : ~Busy(q)
      /\ call[p].step = "idle"
      /\ call'[p].step = "waiting" /\ call'[p].charter = Missing
      /\ \A q \in Procs \ {p} : call'[q] = call[q]
      /\ requests' = requests \cup {r} /\ ~r.admitted
  BY DEF Asks, Inv, TypeOK, Busy, remote, files, lost
<1>2. call[p].charter = Missing
  BY <1>1 DEF FilesInv, Granting
<1>3. QED
  BY <1>1, <1>2 DEF FilesInv, Granting, OneWriter, CharterAtHand, Busy

LEMMA SavesKeepsFiles ==
  ASSUME Inv, FilesInv, NEW p \in Procs, Saves(p)
  PROVE  FilesInv'
<1>1. /\ UNCHANGED <<regKey, regCharter, accepted, charterLost, overlap, requests>>
      /\ \A q \in Procs \ {p} : call'[q] = call[q]
      /\ call[p].step \notin {"idle", "waiting"}
  BY DEF Saves, SaveKeyBegin, SaveKeyEnd, SaveCharterBegin, SaveCharterEnd, Inv, TypeOK,
         remote, lost
<1>2. call[p].charter # Missing /\ regKey # Missing
  BY <1>1 DEF FilesInv, Granting
<1>3. CASE SaveKeyBegin(p) \/ SaveKeyEnd(p)
  <2>1. /\ charterFile' = charterFile /\ call'[p].charter = call[p].charter
        /\ call'[p].step \in {"savingKey", "charterToSave"}
    BY <1>3 DEF SaveKeyBegin, SaveKeyEnd, Inv, TypeOK, Calls
  <2>2. QED
    BY <1>1, <1>2, <2>1 DEF FilesInv, Granting, OneWriter, CharterAtHand, Busy
<1>4. CASE SaveCharterBegin(p)
  <2>1. /\ charterFile' = Torn /\ call'[p].charter = call[p].charter
        /\ call'[p].step = "savingCharter"
    BY <1>4 DEF SaveCharterBegin, Inv, TypeOK, Calls
  <2>2. QED
    BY <1>1, <1>2, <2>1 DEF FilesInv, Granting, OneWriter, CharterAtHand, Busy
<1>5. CASE SaveCharterEnd(p)
  <2>1. /\ call[p].step = "savingCharter"
        /\ call'[p].step = "idle" /\ call'[p].charter = Missing
        /\ charterFile = Torn => charterFile' = call[p].charter
    BY <1>5 DEF SaveCharterEnd, Inv, TypeOK, Idle
  <2>2. Granting'
    BY <1>1, <1>2, <2>1 DEF FilesInv, Granting
  <2>3. ASSUME overlap' = {} PROVE OneWriter' /\ CharterAtHand'
    <3>1. overlap = {} /\ OneWriter /\ CharterAtHand
      BY <1>1, <2>3 DEF FilesInv
    <3>2. \A q \in Procs \ {p} : call[q].step = "idle" /\ call[q].charter = Missing
      BY <1>1, <3>1 DEF OneWriter, Busy, FilesInv, Granting
    <3>3. charterFile' = call[p].charter
      BY <2>1, <3>1 DEF OneWriter
    <3>4. charterLost \/ call[p].charter = regCharter
      <4>1. regCharter # Missing
        BY <1>2, FileAssumption DEF Inv, Generated
      <4>2. QED
        BY <1>2, <3>1, <3>2, <4>1 DEF CharterAtHand
    <3>5. QED
      BY <1>1, <2>1, <3>2, <3>3, <3>4 DEF OneWriter, CharterAtHand, Busy
  <2>4. QED
    BY <2>2, <2>3 DEF FilesInv
<1>6. QED
  BY <1>3, <1>4, <1>5 DEF Saves

LEMMA DieKeepsFiles ==
  ASSUME Inv, FilesInv, NEW p \in Procs, Die(p)
  PROVE  FilesInv'
<1>1. /\ UNCHANGED <<regKey, regCharter, accepted, charterFile, overlap>>
      /\ charterLost => charterLost'
      /\ call[p].charter # Missing /\ call[p].charter = regCharter => charterLost'
      /\ \A q \in Procs \ {p} : call'[q] = call[q]
      /\ call'[p].step = "idle" /\ call'[p].charter = Missing
      /\ \A s \in requests' : \E r \in requests : s.admitted = r.admitted /\ s.op = r.op
  BY DEF Die, Inv, TypeOK, Idle, Requests, remote, files
<1>2. regKey # Missing => regCharter # Missing
  BY FileAssumption DEF Inv, Generated
<1>3. QED
  BY <1>1, <1>2 DEF FilesInv, Granting, OneWriter, CharterAtHand, Busy

LEMMA CommitKeepsFiles ==
  ASSUME Inv, FilesInv, NEW r \in requests, Commit(r)
  PROVE  FilesInv'
<1> DEFINE c == Signed(r)
<1>1. /\ r \in Requests /\ c \in Charters /\ regCharter' = c
      /\ UNCHANGED <<charterFile, overlap>> /\ requests' = requests \ {r}
      /\ charterLost' = (r.by = NoProc)
  BY CommitTypes DEF Commit, files
<1> HIDE DEF c
<1>2. c # Missing
  BY <1>1, FileAssumption
<1>3. regKey' # Missing
  <2>1. CASE ChangesKey(r.op)
    BY <1>1, <2>1, ClientAssumption DEF Commit, Requests
  <2>2. CASE ~ChangesKey(r.op)
    <3>1. regKey' = regKey
      BY <2>2 DEF Commit
    <3>2. regKey # Missing \/ r.op = "provision"
      BY DEF Commit, FilesInv, Granting
    <3>3. QED
      BY <2>2, <3>1, <3>2 DEF ChangesKey
  <2>3. QED
    BY <2>1, <2>2
<1>4. CASE r.by = NoProc
  <2>1. call' = call /\ charterLost'
    BY <1>1, <1>4 DEF Commit
  <2>2. QED
    BY <1>1, <1>3, <2>1 DEF FilesInv, Granting, OneWriter, CharterAtHand, Busy
<1>5. CASE r.by # NoProc
  <2> DEFINE p == r.by
  <2>1. p \in Procs /\ call[p].step = "waiting"
    BY <1>1, <1>5 DEF Inv, Linked, Requests
  <2>2. /\ \A q \in Procs \ {p} : call'[q] = call[q]
        /\ call'[p].charter = c /\ call'[p].step \in {"keyToSave", "charterToSave"}
    BY <1>5, <2>1 DEF Commit, Granted, FirstSave, Inv, TypeOK, Calls, Signed, c
  <2> HIDE DEF p
  <2>3. QED
    BY <1>1, <1>2, <1>3, <2>1, <2>2 DEF FilesInv, Granting, OneWriter, CharterAtHand, Busy
<1>6. QED
  BY <1>4, <1>5

LEMMA AdmitKeepsFiles ==
  ASSUME Inv, FilesInv, NEW r \in requests, Admit(r)
  PROVE  FilesInv'
<1>1. PICK s \in Requests :
        /\ requests' = (requests \ {r}) \cup {s}
        /\ s.by = r.by /\ s.op = r.op /\ s.key = r.key /\ s.signer = r.signer
  BY AdmitTypes
<1>2. UNCHANGED <<regKey, regCharter, accepted, charterFile, call, charterLost, overlap>>
  BY DEF Admit, remote, files, lost
<1>3. r.op # "provision" => regKey # Missing
  BY ClientAssumption DEF Admit, Admissible, Inv, TypeOK, Requests
<1>4. QED
  BY <1>1, <1>2, <1>3 DEF FilesInv, Granting, OneWriter, CharterAtHand, Busy

LEMMA RefuseKeepsFiles ==
  ASSUME Inv, FilesInv, NEW r \in requests, Refuse(r)
  PROVE  FilesInv'
<1>1. /\ UNCHANGED <<regKey, regCharter, accepted, charterFile, charterLost, overlap>>
      /\ requests' = requests \ {r}
  BY DEF Refuse, remote, files, lost
<1>2. CASE r.by = NoProc
  BY <1>1, <1>2 DEF Refuse, FilesInv, Granting, OneWriter, CharterAtHand, Busy
<1>3. CASE r.by # NoProc
  <2>1. r.by \in Procs /\ call[r.by].step = "waiting"
    BY <1>3 DEF Inv, TypeOK, Linked, Requests
  <2>2. /\ call'[r.by].step = "idle" /\ call'[r.by].charter = Missing
        /\ \A q \in Procs \ {r.by} : call'[q] = call[q]
    BY <1>3, <2>1 DEF Refuse, Rejected, Inv, TypeOK, Idle
  <2>3. call[r.by].charter = Missing
    BY <2>1 DEF FilesInv, Granting
  <2>4. QED
    BY <1>1, <2>1, <2>2, <2>3 DEF FilesInv, Granting, OneWriter, CharterAtHand, Busy
<1>4. QED
  BY <1>2, <1>3

\* Types, keys and files together hold throughout.
LEMMA FilesInvariance == Spec => [](Inv /\ FilesInv)
<1>1. Init => FilesInv
  BY DEF Init, FilesInv, Granting, OneWriter, CharterAtHand, Busy, Idle
<1>2. Inv /\ FilesInv /\ [Next]_vars => FilesInv'
  <2> SUFFICES ASSUME Inv, FilesInv, [Next]_vars PROVE FilesInv'
    OBVIOUS
  <2>1. ASSUME Revoke PROVE FilesInv'
    BY <2>1 DEF Revoke, FilesInv, Granting, OneWriter, CharterAtHand, Busy, files, lost
  <2>2. ASSUME UNCHANGED vars PROVE FilesInv'
    BY <2>2 DEF vars, FilesInv, Granting, OneWriter, CharterAtHand, Busy
  <2>3. QED
    BY <2>1, <2>2, StepCases, AsksKeepsFiles, SavesKeepsFiles, DieKeepsFiles,
       AdmitKeepsFiles, CommitKeepsFiles, RefuseKeepsFiles
<1>3. QED
  BY <1>1, <1>2, Invariance, PTL DEF Spec

\* When no call is under way, the files are those of the agent as registered, unless
\* calls have overlapped or one has ended before it had written them.
THEOREM FilesFollow == Spec => []FilesInStep
<1>1. Inv /\ FilesInv /\ KeyNotLost => FilesInStep
  <2> SUFFICES ASSUME Inv, FilesInv, KeyNotLost, regKey # Missing, overlap = {},
                      \A p \in Procs : ~Busy(p)
               PROVE  /\ keyFile = regKey \/ keyLost
                      /\ charterFile = regCharter \/ charterLost
    BY DEF FilesInStep
  <2>1. \A p \in Procs : ~SavesKey(p) /\ call[p].charter = Missing
    BY DEF Busy, SavesKey, FilesInv, Granting
  <2>2. regCharter # Missing
    BY FileAssumption DEF Inv, Generated
  <2>3. QED
    BY <2>1, <2>2 DEF KeyNotLost, FilesInv, CharterAtHand
<1>2. QED
  BY <1>1, FilesInvariance, KeyLostOnlyByAccident, PTL
=============================================================================
