---------------------------- MODULE Presentation ----------------------------
(***************************************************************************)
(* A process of the agent that signs and presents, sign, present,          *)
(* present_jwt and present_sd_jwt of registry_client.py, beside the ones   *)
(* of Client that change key and charter.                                  *)
(*                                                                         *)
(* Nothing is locked: the two files are read one after the other while     *)
(* another process writes them, and a token is fetched after the key that  *)
(* will sign it has been read.                                             *)
(***************************************************************************)
EXTENDS Client

CONSTANT Selectable  \* claims under a name in _SD_CLAIMS

ASSUME SelectableAssumption == Selectable \subseteq Caps

VARIABLES
  show,     \* the presentation being made
  inForce,  \* history: the charters in force since it was begun
  keyAway,  \* history: since then the registered key has not been in the file
  behind    \* history: the charter file was behind when it was begun

history == <<inForce, keyAway, behind>>
pvars == <<vars, show, inForce, keyAway, behind>>

Kinds == {"record", "vp", "jwt", "sd"}

\* What the holder wants to disclose of an SD-JWT; in the other kinds, everything.
Show == [step : {"none", "signing", "fetching", "presented"}, kind : Kinds,
         key : Keys \cup {Missing}, cnf : Keys \cup {Missing},
         disclose : SUBSET Caps, claims : SUBSET Caps]

NoShow == [step |-> "none", kind |-> "record", key |-> Missing, cnf |-> Missing,
           disclose |-> Caps, claims |-> {}]

\* A call that changes the key has been granted and has not saved it, or never will.
KeyAway == keyLost \/ "key" \in overlap \/ \E p \in Procs : SavesKey(p)

\* Likewise for the charter.
Behind == charterLost \/ overlap # {} \/ \E p \in Procs : call[p].charter # Missing

PInit ==
  /\ Init
  /\ show = NoShow
  /\ inForce = {}
  /\ keyAway = FALSE
  /\ behind = FALSE

-----------------------------------------------------------------------------
(* Signing *)

Begin ==
  /\ show.step = "none"
  /\ inForce' = {regCharter}
  /\ keyAway' = KeyAway
  /\ behind' = Behind
  /\ UNCHANGED vars

\* sign: a record signed with the key in the file.
SignRecord ==
  /\ KeyLoads
  /\ show' = [NoShow EXCEPT !.step = "presented", !.key = keyFile]
  /\ Begin

\* present: both files exist, and the charter is read first.
Present ==
  /\ KeyExists
  /\ charterFile \in Charters
  /\ show' = [NoShow EXCEPT !.step = "signing", !.kind = "vp", !.claims = charterFile.claims]
  /\ Begin

\* Then the key; the VP is signed with it.
PresentSign ==
  /\ show.step = "signing"
  /\ KeyLoads
  /\ show' = [show EXCEPT !.step = "presented", !.key = keyFile]
  /\ UNCHANGED <<vars, history>>

\* present_jwt and present_sd_jwt: the key is read first.
PresentToken ==
  /\ KeyLoads
  /\ \E kind \in {"jwt", "sd"}, disclose \in SUBSET Caps :
       /\ kind = "jwt" => disclose = Caps
       /\ show' = [NoShow EXCEPT !.step = "fetching", !.kind = kind, !.key = keyFile,
                                 !.disclose = disclose]
  /\ Begin

\* issue_sd_jwt_vc makes a disclosure of each claim it has a name for, and
\* _filter_disclosures leaves those the holder has chosen.
Disclosures(claims) == claims \cap Selectable
Unfiltered(claims, disclose) == Disclosures(claims)
Filtered(claims, disclose) == Disclosures(claims) \cap disclose

Shown(kind, claims, disclose) ==
  IF kind = "sd" THEN Filtered(claims, disclose) ELSE claims

\* The registry answers with a token of the charter in force, bound to the key it
\* has, and the call wraps it or binds it with the key it has read.
FetchToken ==
  /\ show.step = "fetching"
  /\ regKey # Missing /\ ~revoked
  /\ show' = [show EXCEPT !.step = "presented", !.cnf = regKey,
                          !.claims = Shown(show.kind, regCharter.claims, show.disclose)]
  /\ UNCHANGED <<vars, history>>

\* A file that cannot be read, a 404, a 410 or a failed request ends the call with an
\* exception; a presentation is sent, verified and forgotten.
Drop ==
  /\ show.step # "none"
  /\ show' = NoShow
  /\ inForce' = {} /\ keyAway' = FALSE /\ behind' = FALSE
  /\ UNCHANGED vars

\* The other processes and the registry go on.
Others ==
  /\ Next
  /\ UNCHANGED <<show, behind>>
  /\ IF show.step = "none" THEN UNCHANGED <<inForce, keyAway>>
     ELSE /\ inForce' = inForce \cup {regCharter'}
          /\ keyAway' = (keyAway \/ KeyAway')

PNext ==
  \/ SignRecord \/ Present \/ PresentSign \/ PresentToken \/ FetchToken \/ Drop
  \/ Others

PSpec == PInit /\ [][PNext]_pvars

-----------------------------------------------------------------------------
(* Verification, and correctness *)

Presented == show.step = "presented"

\* POST /verify, the standalone verifier and anyone with the agent's DID document
\* check the signature with the key the registry has, and that it is not revoked.
HolderAccepts == show.key = regKey /\ ~revoked

PTypeOK ==
  /\ show \in Show
  /\ inForce \subseteq Charters \cup {Missing}
  /\ keyAway \in BOOLEAN
  /\ behind \in BOOLEAN

\* What an agent signs in good faith is accepted, whatever else its processes do in
\* between, unless its key was being changed, or had been lost, at some moment since
\* it began (the current key of POST /verify: "a rotated-out ... key fails here").
HolderAccepted == Presented /\ ~keyAway /\ ~revoked => HolderAccepts

\* A token, which is fetched after the key was read, is bound to the key that signs
\* its presentation, with the same exception ("KB-JWT signature matches cnf.jwk").
BoundTokens == Presented /\ show.kind \in {"jwt", "sd"} /\ ~keyAway => show.cnf = show.key

\* POST /verify does not compare the charter presented with the one in force.  Still,
\* what is presented are the claims, of an SD-JWT those that were chosen, of a charter
\* in force at some moment since the presentation was begun, unless the charter file
\* was behind then.
ClaimsInForce ==
  Presented /\ show.kind # "record" /\ ~behind =>
    \E charter \in inForce \ {Missing} :
      show.claims = IF show.kind = "sd" THEN charter.claims \cap Selectable \cap show.disclose
                    ELSE charter.claims
=============================================================================
