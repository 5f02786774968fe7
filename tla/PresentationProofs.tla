------------------------- MODULE PresentationProofs -------------------------
(***************************************************************************)
(* Proofs about Presentation, for any processes and keys: whatever the     *)
(* other processes do meanwhile, an agent's presentations are accepted,    *)
(* bound to its key and true to a charter in force, with the exceptions    *)
(* that the properties name.                                               *)
(***************************************************************************)
EXTENDS Presentation, ClientProofs

\* What holds of the files and the registry without a presentation.
LEMMA Underneath == PSpec => [](Inv /\ FilesInv /\ KeyNotLost)
<1>1. PInit => Init
  BY DEF PInit
<1>2. [PNext]_pvars => [Next]_vars
  BY DEF PNext, pvars, SignRecord, Present, PresentSign, PresentToken, FetchToken, Drop,
         Begin, Others
<1>3. PSpec => Spec
  BY <1>1, <1>2, PTL DEF PSpec, Spec
<1>4. QED
  BY <1>3, FilesInvariance, KeyLostOnlyByAccident, PTL

-----------------------------------------------------------------------------
(* What a presentation finds *)

\* Unless it is away, the key in the file is the registered one.
LEMMA KeyFound ==
  ASSUME Inv, FilesInv, KeyNotLost, ~KeyAway, KeyLoads
  PROVE  keyFile = regKey
<1>1. regKey # Missing
  BY DEF KeyLoads, Inv, FileKeyAccepted, FilesInv, Granting
<1>2. QED
  BY <1>1 DEF KeyNotLost, KeyAway

\* Unless it is behind, the charter in the file is the one in force.
LEMMA CharterFound ==
  ASSUME Inv, FilesInv, ~Behind, charterFile \in Charters
  PROVE  charterFile = regCharter
<1>1. regKey # Missing
  BY FileAssumption DEF FilesInv, Granting
<1>2. regCharter # Missing
  BY <1>1, FileAssumption DEF Inv, Generated
<1>3. QED
  BY <1>1, <1>2 DEF FilesInv, CharterAtHand, Behind

\* A step that changes the registered key leaves a call that has to save it.
LEMMA KeyStays ==
  ASSUME Inv, [Next]_vars, ~KeyAway'
  PROVE  regKey' = regKey
<1>1. ASSUME NEW r \in requests, Commit(r) PROVE regKey' = regKey
  <2> SUFFICES ASSUME ChangesKey(r.op) PROVE FALSE
    BY <1>1 DEF Commit
  <2>1. r.by # NoProc
    BY <1>1 DEF Commit, KeyAway
  <2>2. r.by \in Procs /\ call[r.by].op = r.op
    BY <2>1 DEF Inv, TypeOK, Linked, Requests
  <2>3. call'[r.by].step = "keyToSave"
    BY <1>1, <2>1, <2>2 DEF Commit, Granted, FirstSave, Inv, TypeOK, Calls
  <2>4. QED
    BY <2>2, <2>3 DEF KeyAway, SavesKey
<1>2. CASE UNCHANGED vars
  BY <1>2 DEF vars
<1>3. ASSUME NEW p \in Procs, NEW r, Asks(p, r) PROVE regKey' = regKey
  BY <1>3 DEF Asks, remote
<1>4. ASSUME NEW p \in Procs, Saves(p) \/ Die(p) PROVE regKey' = regKey
  BY <1>4 DEF Saves, SaveKeyBegin, SaveKeyEnd, SaveCharterBegin, SaveCharterEnd, Die, remote
<1>5. ASSUME NEW r \in requests, Admit(r) \/ Refuse(r) PROVE regKey' = regKey
  BY <1>5 DEF Admit, Refuse, remote
<1>6. ASSUME Revoke PROVE regKey' = regKey
  BY <1>6 DEF Revoke
<1>7. QED
  BY <1>1, <1>2, <1>3, <1>4, <1>5, <1>6, StepCases

-----------------------------------------------------------------------------
(* The invariant *)

Making == show.step # "none"

\* While nothing is away, the key that was read is the registered one, and so is the
\* key a token was bound to.
KeyInv ==
  Making /\ ~keyAway =>
    /\ ~KeyAway
    /\ show.step \in {"fetching", "presented"} => show.key = regKey
    /\ Presented /\ show.kind \in {"jwt", "sd"} => show.cnf = regKey

\* The claims are of a charter that has been in force since the beginning.
Of(charter) == show.claims = Shown(show.kind, charter.claims, show.disclose)

ClaimsInv ==
  /\ Making => regCharter \in inForce
  /\ show.step = "signing" => show.kind = "vp"
  /\ show.step = "fetching" => show.kind \in {"jwt", "sd"}
  /\ show.step \in {"signing", "presented"} /\ show.kind # "record" /\ ~behind =>
       \E charter \in inForce \ {Missing} : Of(charter)

ShowInv == PTypeOK /\ KeyInv /\ ClaimsInv

LEMMA OthersKeep ==
  ASSUME Inv, Inv', ShowInv, Others
  PROVE  ShowInv'
<1>1. CASE show.step = "none"
  BY <1>1 DEF Others, ShowInv, PTypeOK, KeyInv, ClaimsInv, Making, Presented
<1>2. CASE show.step # "none"
  <2>1. /\ UNCHANGED <<show, behind>>
        /\ inForce' = inForce \cup {regCharter'}
        /\ keyAway' = (keyAway \/ KeyAway')
        /\ Next
    BY <1>2 DEF Others
  <2>2. PTypeOK'
    BY <2>1 DEF ShowInv, PTypeOK, Inv, TypeOK
  <2>3. KeyInv'
    <3>1. ~keyAway' => ~keyAway /\ ~KeyAway' /\ regKey' = regKey
      BY <2>1, KeyStays
    <3>2. QED
      BY <2>1, <3>1 DEF ShowInv, KeyInv, Making, Presented
  <2>4. ClaimsInv'
    BY <2>1 DEF ShowInv, ClaimsInv, Making, Of
  <2>5. QED
    BY <2>2, <2>3, <2>4 DEF ShowInv
<1>3. QED
  BY <1>1, <1>2

LEMMA BeginsKeep ==
  ASSUME Inv, FilesInv, KeyNotLost, SignRecord \/ Present \/ PresentToken
  PROVE  ShowInv'
<1>1. /\ inForce' = {regCharter} /\ keyAway' = KeyAway /\ behind' = Behind
      /\ UNCHANGED vars
  BY DEF SignRecord, Present, PresentToken, Begin
<1>2. (KeyAway' <=> KeyAway) /\ keyAway' \in BOOLEAN /\ behind' \in BOOLEAN
  <2>1. KeyAway' <=> KeyAway
    BY <1>1 DEF KeyAway, SavesKey, vars
  <2>2. KeyAway \in BOOLEAN /\ Behind \in BOOLEAN
    BY DEF KeyAway, Behind, Inv, TypeOK
  <2>3. QED
    BY <1>1, <2>1, <2>2
<1>3. inForce' \subseteq Charters \cup {Missing} /\ regCharter' \in inForce'
  BY <1>1 DEF Inv, TypeOK, vars
<1>4. keyFile \in Keys => keyFile = regKey \/ KeyAway
  BY KeyFound DEF KeyLoads
<1>5. CASE SignRecord
  <2>1. show' = [NoShow EXCEPT !.step = "presented", !.key = keyFile] /\ keyFile \in Keys
    BY <1>5 DEF SignRecord, KeyLoads
  <2>2. QED
    BY <1>1, <1>2, <1>3, <1>4, <2>1
       DEF ShowInv, PTypeOK, KeyInv, ClaimsInv, Making, Presented, NoShow, Show, Kinds, vars
<1>6. CASE Present
  <2>1. /\ charterFile \in Charters
        /\ show' = [NoShow EXCEPT !.step = "signing", !.kind = "vp",
                                  !.claims = charterFile.claims]
    BY <1>6 DEF Present
  <2>2. charterFile.claims \in SUBSET Caps
    BY <2>1 DEF Charters
  <2>3. ~behind' => charterFile \in inForce' \ {Missing}
    BY <1>1, <2>1, CharterFound, FileAssumption
  <2>4. PTypeOK' /\ KeyInv'
    BY <1>2, <1>3, <1>1, <2>1, <2>2
       DEF PTypeOK, KeyInv, Making, Presented, NoShow, Show, Kinds
  <2>5. ClaimsInv'
    BY <1>3, <2>1, <2>3 DEF ClaimsInv, Making, Of, Shown, NoShow
  <2>6. QED
    BY <2>4, <2>5 DEF ShowInv
<1>7. CASE PresentToken
  <2>1. PICK kind \in {"jwt", "sd"}, disclose \in SUBSET Caps :
          show' = [NoShow EXCEPT !.step = "fetching", !.kind = kind, !.key = keyFile,
                                 !.disclose = disclose]
    BY <1>7 DEF PresentToken
  <2>2. keyFile \in Keys
    BY <1>7 DEF PresentToken, KeyLoads
  <2>3. QED
    BY <1>1, <1>2, <1>3, <1>4, <2>1, <2>2
       DEF ShowInv, PTypeOK, KeyInv, ClaimsInv, Making, Presented, NoShow, Show, Kinds, vars
<1>8. QED
  BY <1>5, <1>6, <1>7

LEMMA EndsKeep ==
  ASSUME Inv, FilesInv, KeyNotLost, ShowInv, PresentSign \/ FetchToken \/ Drop
  PROVE  ShowInv'
<1>1. UNCHANGED vars /\ (KeyAway' <=> KeyAway)
  BY DEF PresentSign, FetchToken, Drop, KeyAway, SavesKey, vars
<1>2. CASE PresentSign
  <2>1. /\ show' = [show EXCEPT !.step = "presented", !.key = keyFile] /\ keyFile \in Keys
        /\ show.step = "signing" /\ UNCHANGED <<inForce, keyAway, behind>>
    BY <1>2 DEF PresentSign, KeyLoads, history
  <2>2. ~KeyAway => keyFile = regKey
    BY <2>1, KeyFound DEF KeyLoads
  <2>3. PTypeOK'
    BY <2>1 DEF ShowInv, PTypeOK, Show
  <2>4. KeyInv'
    BY <1>1, <2>1, <2>2 DEF ShowInv, PTypeOK, Show, KeyInv, ClaimsInv, Making, Presented, vars
  <2>5. ClaimsInv'
    BY <1>1, <2>1 DEF ShowInv, PTypeOK, Show, ClaimsInv, Making, Of, vars
  <2>6. QED
    BY <2>3, <2>4, <2>5 DEF ShowInv
<1>3. CASE FetchToken
  <2> DEFINE claims == Shown(show.kind, regCharter.claims, show.disclose)
  <2>1. /\ show' = [show EXCEPT !.step = "presented", !.cnf = regKey, !.claims = claims]
        /\ show.step = "fetching" /\ regKey # Missing
        /\ UNCHANGED <<inForce, keyAway, behind>>
    BY <1>3 DEF FetchToken, history
  <2>2. regKey \in Keys /\ regCharter \in Charters /\ regCharter # Missing
    BY <2>1, FileAssumption DEF Inv, TypeOK, Generated
  <2>3. claims \in SUBSET Caps
    BY <2>2 DEF Shown, Filtered, Disclosures, Charters
  <2> HIDE DEF claims
  <2>4. PTypeOK'
    BY <2>1, <2>2, <2>3 DEF ShowInv, PTypeOK, Show
  <2>5. KeyInv'
    BY <1>1, <2>1 DEF ShowInv, PTypeOK, Show, KeyInv, Making, Presented, vars
  <2>6. ClaimsInv'
    <3>1. show'.claims = claims /\ show'.kind = show.kind /\ show'.disclose = show.disclose
          /\ show'.step = "presented"
      BY <2>1 DEF ShowInv, PTypeOK, Show
    <3>2. regCharter \in inForce' \ {Missing} /\ regCharter' \in inForce'
      BY <1>1, <2>1, <2>2 DEF ShowInv, ClaimsInv, Making, vars
    <3>3. Of(regCharter)'
      BY <1>1, <3>1 DEF Of, claims, vars
    <3>4. regCharter' = regCharter
      BY <1>1 DEF vars
    <3>5. QED
      BY <3>1, <3>2, <3>3, <3>4 DEF ClaimsInv
  <2>7. QED
    BY <2>4, <2>5, <2>6 DEF ShowInv
<1>4. CASE Drop
  BY <1>4 DEF Drop, ShowInv, PTypeOK, KeyInv, ClaimsInv, Making, Presented, NoShow, Show, Kinds
<1>5. QED
  BY <1>2, <1>3, <1>4

LEMMA ShowInvariance == PSpec => []ShowInv
<1>1. PInit => ShowInv
  <2> SUFFICES ASSUME PInit PROVE ShowInv
    OBVIOUS
  <2>1. /\ show = NoShow /\ inForce = {} /\ ~Making
        /\ keyAway \in BOOLEAN /\ behind \in BOOLEAN
    BY DEF PInit, Making, NoShow
  <2>2. PTypeOK
    BY <2>1 DEF PTypeOK, NoShow, Show, Kinds
  <2>3. KeyInv
    BY <2>1 DEF KeyInv
  <2>4. ClaimsInv
    BY <2>1 DEF ClaimsInv, Making
  <2>5. QED
    BY <2>2, <2>3, <2>4 DEF ShowInv
<1>2. (Inv /\ FilesInv /\ KeyNotLost) /\ Inv' /\ ShowInv /\ [PNext]_pvars => ShowInv'
  <2> SUFFICES ASSUME Inv, FilesInv, KeyNotLost, Inv', ShowInv, [PNext]_pvars PROVE ShowInv'
    OBVIOUS
  <2>1. CASE UNCHANGED pvars
    <3>1. (KeyAway' <=> KeyAway) /\ UNCHANGED <<show, inForce, keyAway, behind, regKey,
                                                regCharter>>
      BY <2>1 DEF pvars, vars, KeyAway, SavesKey
    <3>2. QED
      BY <3>1 DEF ShowInv, PTypeOK, KeyInv, ClaimsInv, Making, Presented, Of
  <2>2. QED
    BY <2>1, OthersKeep, BeginsKeep, EndsKeep DEF PNext
<1>3. QED
  BY <1>1, <1>2, Underneath, PTL DEF PSpec

-----------------------------------------------------------------------------
(* Theorems *)

\* The presentation and its history keep their types: what is signed is signed with a
\* key, and what is shown are claims.
THEOREM ShowTyped == PSpec => []PTypeOK
<1>1. ShowInv => PTypeOK
  BY DEF ShowInv
<1>2. QED
  BY <1>1, ShowInvariance, PTL

\* What the agent signs is accepted unless its key was being changed or lost
\* meanwhile, for any number of other processes (sign, present against POST /verify).
THEOREM HoldersAccepted == PSpec => []HolderAccepted
<1>1. ShowInv => HolderAccepted
  BY DEF ShowInv, KeyInv, HolderAccepted, HolderAccepts, Presented, Making
<1>2. QED
  BY <1>1, ShowInvariance, PTL

\* A token is bound to the key that presents it, with the same exception.
THEOREM TokensBound == PSpec => []BoundTokens
<1>1. ShowInv => BoundTokens
  BY DEF ShowInv, KeyInv, BoundTokens, Presented, Making
<1>2. QED
  BY <1>1, ShowInvariance, PTL

\* The claims presented were in force at some moment since the presentation was begun,
\* unless the charter file was behind then.
THEOREM ClaimsWereInForce == PSpec => []ClaimsInForce
<1>1. ShowInv => ClaimsInForce
  BY DEF ShowInv, ClaimsInv, ClaimsInForce, Presented, Making, Of, Shown, Filtered,
         Disclosures
<1>2. QED
  BY <1>1, ShowInvariance, PTL
=============================================================================
