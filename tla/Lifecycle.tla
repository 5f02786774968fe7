----------------------------- MODULE Lifecycle -----------------------------
(***************************************************************************)
(* What the registry promises about an agent, without threads, sessions,   *)
(* clocks or keys: an agent exists because an operator's warrant let it    *)
(* enrol, it holds at any time what one warrant spent on it allows, it is  *)
(* revoked by a warrant for that, once and for all, and no warrant serves  *)
(* twice.                                                                  *)
(*                                                                         *)
(* The promise is weaker than one might wish, because handlers race: the   *)
(* authority of an agent may return to what an earlier warrant allowed     *)
(* (Reissue), and a revoked agent may still be amended, reissued to or     *)
(* revoked a second time by handlers that began before.                    *)
(***************************************************************************)
CONSTANTS
  Agents,
  Caps, Scopes,  \* what an agent may be authorised for
  Warrants       \* [voucher, agent, purpose, caps, scopes]

VARIABLES
  standing,   \* agent -> "unknown", "active" or "revoked"
  authority,  \* agent -> the capabilities and scopes its charter claims
  spent       \* the vouchers that have been used

lifecycle == <<standing, authority, spent>>

Authority == [caps : SUBSET Caps, scopes : SUBSET Scopes]
Nothing == [caps |-> {}, scopes |-> {}]

Init ==
  /\ standing = [a \in Agents |-> "unknown"]
  /\ authority = [a \in Agents |-> Nothing]
  /\ spent = {}

\* Warrant w, not used before, is used on agent a.
Spend(w, a, purpose) ==
  /\ w.agent = a
  /\ w.purpose = purpose
  /\ w.voucher \notin spent
  /\ spent' = spent \cup {w.voucher}

\* Agent a now holds something that w allows.
Hold(w, a) ==
  \E held \in Authority :
    /\ held.caps \subseteq w.caps
    /\ held.scopes \subseteq w.scopes
    /\ authority' = [authority EXCEPT ![a] = held]

Enrol(a, w) ==
  /\ standing[a] = "unknown"
  /\ Spend(w, a, "enroll")
  /\ Hold(w, a)
  /\ standing' = [standing EXCEPT ![a] = "active"]

Amend(a, w) ==
  /\ standing[a] # "unknown"
  /\ Spend(w, a, "amend")
  /\ Hold(w, a)
  /\ UNCHANGED standing

Reissue(a, w) ==
  /\ standing[a] # "unknown"
  /\ w.agent = a /\ w.purpose \in {"enroll", "amend"} /\ w.voucher \in spent
  /\ Hold(w, a)
  /\ UNCHANGED <<standing, spent>>

Revoke(a, w) ==
  /\ standing[a] # "unknown"
  /\ Spend(w, a, "revoke")
  /\ standing' = [standing EXCEPT ![a] = "revoked"]
  /\ UNCHANGED authority

Next == \E a \in Agents, w \in Warrants :
          Enrol(a, w) \/ Amend(a, w) \/ Reissue(a, w) \/ Revoke(a, w)

Spec == Init /\ [][Next]_lifecycle
=============================================================================
