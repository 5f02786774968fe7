------------------------------- MODULE Client -------------------------------
(***************************************************************************)
(* One agent's use of the client library: provision, rotate and reissue    *)
(* of registry_client.py, called by processes that share the agent's key   *)
(* file and charter file, against a registry that may be slow, refuse, or  *)
(* serve a request nobody waits for any more.                              *)
(*                                                                         *)
(* The library keeps nothing but the two files.  It writes them after the  *)
(* registry has committed, one after the other and in place, so a call     *)
(* that ends in between leaves them behind the registry, or broken.        *)
(***************************************************************************)
EXTENDS Integers, FiniteSets

CONSTANTS
  Procs,        \* processes of the agent, each running one call at a time
  NoProc,       \* in place of a process that has given up waiting
  Keys,         \* key pairs
  Caps,         \* capabilities a charter may claim
  Missing,      \* content of a file, or key of the registry, that is not there
  Torn,         \* content of a file that was truncated and not written to the end
  MaxIssued,    \* bound: charters the registry issues
  MaxRequests   \* bound: requests on their way at the same time

ASSUME ClientAssumption ==
  /\ NoProc \notin Procs
  /\ Missing \notin Keys /\ Torn \notin Keys /\ Missing # Torn
  /\ MaxIssued \in Nat /\ MaxRequests \in Nat

Charters == [serial : 1..MaxIssued, claims : SUBSET Caps]
Ops == {"provision", "rotate", "reissue"}

ASSUME FileAssumption == Missing \notin Charters /\ Torn \notin Charters

VARIABLES
  regKey,       \* the key the registry has for the agent
  regCharter,   \* the charter it has in force
  revoked,      \* whether the agent is revoked
  issued,       \* number of charters signed
  requests,     \* what the registry has been asked and has not answered
  made,         \* keys generated so far
  keyFile,      \* the two files
  charterFile,
  call,         \* what each process is doing
  accepted,     \* history: keys the registry has accepted
  keyLost,      \* history: the registered key is of a call that ended before saving it
  charterLost,  \* history: the charter in force likewise
  overlap       \* history: what kinds of calls have run at the same time

remote == <<regKey, regCharter, revoked, issued, accepted>>
files == <<keyFile, charterFile>>
lost == <<keyLost, charterLost>>
vars == <<regKey, regCharter, revoked, issued, requests, made, keyFile, charterFile,
          call, accepted, keyLost, charterLost, overlap>>

-----------------------------------------------------------------------------
(* Calls and requests *)

Steps == {"idle", "waiting", "keyToSave", "savingKey", "charterToSave", "savingCharter"}

Calls == [step : Steps, op : Ops, key : Keys \cup {Missing}, charter : Charters \cup {Missing}]

Idle == [step |-> "idle", op |-> "provision", key |-> Missing, charter |-> Missing]

\* A request: by whom, proved with which key, for which key and claims, with a
\* voucher to amend or not, and whether the handler has let it pass already.
Requests == [by : Procs \cup {NoProc}, op : Ops, signer : Keys, key : Keys,
             claims : SUBSET Caps, amend : BOOLEAN, admitted : BOOLEAN]

ChangesKey(op) == op # "reissue"

Init ==
  /\ regKey = Missing
  /\ regCharter = Missing
  /\ revoked = FALSE
  /\ issued = 0
  /\ requests = {}
  /\ made = {}
  /\ keyFile = Missing
  /\ charterFile = Missing
  /\ call = [p \in Procs |-> Idle]
  /\ accepted = {}
  /\ keyLost = FALSE
  /\ charterLost = FALSE
  /\ overlap = {}

-----------------------------------------------------------------------------
(* The calls of the library *)

Busy(p) == call[p].step # "idle"

\* Process p posts a request and waits for the answer.
Send(p, op, signer, key, claims, amend) ==
  /\ Cardinality(requests) < MaxRequests
  /\ requests' = requests \cup
       {[by |-> p, op |-> op, signer |-> signer, key |-> key, claims |-> claims,
         amend |-> amend, admitted |-> FALSE]}
  /\ call' = [call EXCEPT ![p] = [step |-> "waiting", op |-> op, key |-> key,
                                  charter |-> Missing]]
  /\ LET others == {q \in Procs \ {p} : Busy(q)} IN
       overlap' = overlap \cup (IF others = {} THEN {} ELSE {"call"})
                          \cup (IF /\ ChangesKey(op)
                                   /\ \E q \in others : ChangesKey(call[q].op)
                                THEN {"key"} ELSE {})
  /\ UNCHANGED <<remote, files, lost>>

\* A key pair nobody has used.
Generate(key) == key \notin made /\ made' = made \cup {key}

\* provision does not look at the files.
Provision(p) ==
  /\ ~Busy(p)
  /\ \E key \in Keys, claims \in SUBSET Caps :
       Generate(key) /\ Send(p, "provision", key, key, claims, FALSE)

\* The key file exists and can be read.
KeyExists == keyFile # Missing
KeyLoads == keyFile \in Keys

\* rotate proves the new key with the one in the file.
Rotate(p) ==
  /\ ~Busy(p)
  /\ KeyLoads
  /\ \E key \in Keys : Generate(key) /\ Send(p, "rotate", keyFile, key, {}, FALSE)

\* reissue asks for given claims or, by default, for those of the charter file;
\* with a voucher it is an amendment.
Reissue(p) ==
  /\ ~Busy(p)
  /\ KeyLoads
  /\ \E claims \in SUBSET Caps, amend \in BOOLEAN :
       Send(p, "reissue", keyFile, keyFile, claims, amend)
  /\ UNCHANGED made

ReissueByDefault(p) ==
  /\ ~Busy(p)
  /\ KeyLoads
  /\ charterFile \in Charters
  /\ \E amend \in BOOLEAN :
       Send(p, "reissue", keyFile, keyFile, charterFile.claims, amend)
  /\ UNCHANGED made

\* What a call does when the registry has granted it: a reissue has no key to save.
FirstSaveCharter(op) == "charterToSave"
FirstSaveKey(op) == IF ChangesKey(op) THEN "keyToSave" ELSE "idle"
FirstSaveEnrolled(op) == IF op = "provision" THEN "keyToSave" ELSE "charterToSave"
FirstSave(op) == IF ChangesKey(op) THEN "keyToSave" ELSE "charterToSave"

\* write_bytes truncates the file and then writes it.
SaveKeyBegin(p) ==
  /\ call[p].step = "keyToSave"
  /\ keyFile' = Torn
  /\ call' = [call EXCEPT ![p].step = "savingKey"]
  /\ UNCHANGED <<remote, requests, made, charterFile, lost, overlap>>

SaveKeyEnd(p) ==
  /\ call[p].step = "savingKey"
  /\ keyFile' = call[p].key
  /\ call' = [call EXCEPT ![p].step = "charterToSave"]
  /\ UNCHANGED <<remote, requests, made, charterFile, lost, overlap>>

SaveCharterBegin(p) ==
  /\ call[p].step = "charterToSave"
  /\ charterFile' = Torn
  /\ call' = [call EXCEPT ![p].step = "savingCharter"]
  /\ UNCHANGED <<remote, requests, made, keyFile, lost, overlap>>

\* If another process has written since the truncation, what it wrote may be the
\* longer text and stick out behind this one.
SaveCharterEnd(p) ==
  /\ call[p].step = "savingCharter"
  /\ charterFile' \in {call[p].charter} \cup (IF charterFile = Torn THEN {} ELSE {Torn})
  /\ call' = [call EXCEPT ![p] = Idle]
  /\ UNCHANGED <<remote, requests, made, keyFile, lost, overlap>>

\* The call ends before its work is done: a timeout, a lost connection, a failed
\* write, the end of the process.  The registry goes on with the request.
Die(p) ==
  /\ Busy(p)
  /\ call' = [call EXCEPT ![p] = Idle]
  /\ requests' = {IF r.by = p THEN [r EXCEPT !.by = NoProc] ELSE r : r \in requests}
  /\ keyLost' = (keyLost \/ (call[p].step \in {"keyToSave", "savingKey"}
                             /\ call[p].key = regKey))
  /\ charterLost' = (charterLost \/ (call[p].charter # Missing
                                     /\ call[p].charter = regCharter))
  /\ UNCHANGED <<remote, made, files, overlap>>

-----------------------------------------------------------------------------
(* The registry, as far as one agent and its keys are concerned *)

\* The proof of possession, and for a renewal the clamp to the charter in force.
Admissible(r) ==
  IF r.op = "provision" THEN regKey = Missing
  ELSE /\ ~revoked
       /\ regKey = r.signer
       /\ (r.op = "reissue" /\ ~r.amend) => r.claims \subseteq regCharter.claims

\* The handler loads the agent and decides; a rotation takes over the claims.
Admit(r) ==
  /\ ~r.admitted
  /\ Admissible(r)
  /\ requests' = (requests \ {r}) \cup
       {[r EXCEPT !.admitted = TRUE,
                  !.claims = IF r.op = "rotate" THEN regCharter.claims ELSE r.claims]}
  /\ UNCHANGED <<remote, made, files, call, lost, overlap>>

\* The agent is new (agent_id is UNIQUE) or its row is updated.
StorableAlways(r) == TRUE
Storable(r) == r.op = "provision" => regKey = Missing

\* Status 201 or 200: raise_for_status lets the call go on.
Granted(p, charter) ==
  call' = [call EXCEPT ![p].step = FirstSave(call[p].op), ![p].charter = charter]

\* Any other status: an exception.
RejectedUnnoticed(p) == call' = [call EXCEPT ![p].step = FirstSave(call[p].op)]
Rejected(p) == call' = [call EXCEPT ![p] = Idle]

\* The handler commits; whoever waits gets the charter.
Commit(r) ==
  /\ r.admitted
  /\ Storable(r)
  /\ issued < MaxIssued
  /\ issued' = issued + 1
  /\ LET charter == [serial |-> issued + 1, claims |-> r.claims] IN
       /\ regCharter' = charter
       /\ IF r.by = NoProc THEN UNCHANGED call ELSE Granted(r.by, charter)
  /\ charterLost' = (r.by = NoProc)
  /\ IF ChangesKey(r.op)
     THEN /\ regKey' = r.key
          /\ accepted' = accepted \cup {r.key}
          /\ keyLost' = (r.by = NoProc)
     ELSE UNCHANGED <<regKey, accepted, keyLost>>
  /\ requests' = requests \ {r}
  /\ UNCHANGED <<revoked, made, files, overlap>>

\* The request is refused, fails on a constraint or never arrives.
Refuse(r) ==
  /\ requests' = requests \ {r}
  /\ IF r.by = NoProc THEN UNCHANGED call ELSE Rejected(r.by)
  /\ UNCHANGED <<remote, made, files, lost, overlap>>

Revoke ==
  /\ regKey # Missing /\ ~revoked
  /\ revoked' = TRUE
  /\ UNCHANGED <<regKey, regCharter, issued, accepted, requests, made, files, call,
                 lost, overlap>>

-----------------------------------------------------------------------------
Next ==
  \/ \E p \in Procs : \/ Provision(p) \/ Rotate(p) \/ Reissue(p) \/ ReissueByDefault(p)
                      \/ SaveKeyBegin(p) \/ SaveKeyEnd(p)
                      \/ SaveCharterBegin(p) \/ SaveCharterEnd(p)
                      \/ Die(p)
  \/ \E r \in requests : Admit(r) \/ Commit(r) \/ Refuse(r)
  \/ Revoke

Spec == Init /\ [][Next]_vars

-----------------------------------------------------------------------------
(* Correctness *)

TypeOK ==
  /\ regKey \in Keys \cup {Missing}
  /\ regCharter \in Charters \cup {Missing}
  /\ revoked \in BOOLEAN
  /\ issued \in 0..MaxIssued
  /\ requests \subseteq Requests
  /\ made \subseteq Keys
  /\ keyFile \in Keys \cup {Missing, Torn}
  /\ charterFile \in Charters \cup {Missing, Torn}
  /\ call \in [Procs -> Calls]
  /\ accepted \subseteq Keys
  /\ keyLost \in BOOLEAN
  /\ charterLost \in BOOLEAN
  /\ overlap \subseteq {"key", "call"}

\* A key is stored only after the registry has accepted it, whichever calls were
\* refused, lost or raced ("Persist the new key and refreshed charter only after
\* the registry accepts", rotate).
FileKeyAccepted == keyFile \in Keys => keyFile \in accepted

\* Process p has yet to write the key it was granted.
SavesKey(p) == call[p].step \in {"keyToSave", "savingKey"}

\* The agent keeps its key: the registered key is in the file or about to be
\* written, unless its call ended between the commit and the write, or two calls
\* that change the key have run at once.  No other failure, and no reissue at the
\* same time, costs the key.
KeyNotLost ==
  \/ regKey = Missing
  \/ keyFile = regKey
  \/ \E p \in Procs : SavesKey(p) /\ call[p].key = regKey
  \/ keyLost
  \/ "key" \in overlap

\* When no call is under way, the files hold the key and the charter in force, so that
\* presentations and default renewals are those of the agent as registered, unless
\* calls have overlapped or the one that brought the key or the charter was lost.
FilesInStep ==
  regKey # Missing /\ overlap = {} /\ (\A p \in Procs : ~Busy(p)) =>
    /\ keyFile = regKey \/ keyLost
    /\ charterFile = regCharter \/ charterLost

\* Nobody has the registered key: no file, no call that may still write it, no
\* request proved with it and no rotation the registry has already let pass.
KeyGone ==
  /\ regKey # Missing
  /\ keyFile # regKey
  /\ \A p \in Procs : ~(SavesKey(p) /\ call[p].key = regKey)
  /\ \A r \in requests : r.signer # regKey /\ ~(r.admitted /\ r.op = "rotate")

\* Then no sequence of calls, provision included, brings the agent back: the
\* registry keeps that key, and the file never holds it again (409 in register,
\* the proofs in rotate and reissue; there is no other way to change a key).
KeyGoneForever == [][KeyGone => KeyGone' /\ UNCHANGED regKey]_vars
=============================================================================
