----------------------------- MODULE Credential -----------------------------
(***************************************************************************)
(* What a store of credentials promises for one user and one provider.  A  *)
(* write, which saves a credential or deletes it, unsettles the store;     *)
(* once the store has settled, whoever asks is answered with what was      *)
(* written last or, since asking may fail, with nothing, but never with    *)
(* an older credential.  IntegrationStore implements it.                   *)
(***************************************************************************)
CONSTANTS Tokens, None

Credentials == Tokens \cup {None}

VARIABLES
  token,   \* the credential written last, None if it was deleted
  calm,    \* has the store settled on it?
  answer   \* the answer given last

vars == <<token, calm, answer>>

Init == token = None /\ calm = TRUE /\ answer = None

Write == token' \in Credentials /\ calm' = FALSE /\ UNCHANGED answer
Settle == calm' = TRUE /\ UNCHANGED <<token, answer>>
Answer ==
  /\ answer' \in IF calm THEN {token, None} ELSE Credentials
  /\ UNCHANGED <<token, calm>>

Next == Write \/ Settle \/ Answer

Spec == Init /\ [][Next]_vars
=============================================================================
