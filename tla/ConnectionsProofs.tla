------------------------- MODULE ConnectionsProofs -------------------------
(***************************************************************************)
(* For any number of authorizations and local projects: a credential is    *)
(* saved once and for its user, what was disconnected stays so, and the    *)
(* table follows the list of local projects, but for the exceptions that   *)
(* RowsFollow names.                                                       *)
(*                                                                         *)
(* Neither of the first two is inductive.  Once says what is known of an   *)
(* authorization at each place: until it has saved, its code is not spent  *)
(* or it is on the way to its only save.  Quiet says of a disconnected     *)
(* credential that only authorizations that have saved already are under   *)
(* way for it, and these are stopped where their code is exchanged.        *)
(***************************************************************************)
EXTENDS Connections, TLAPS

Places == {"new", "provider", "callback", "exchange", "profile", "save",
           "redirect", "done"}
FlowRecord ==
  [kind : Kinds \cup {"none"}, user : Users, fresh : BOOLEAN, at : Places,
   code : {"none", "unused", "used"}, saves : Nat]

Typed ==
  /\ session \in Users \cup {"none"}
  /\ flow \in [Flows -> FlowRecord]
  /\ creds \in [Users -> [Providers -> Flows \cup {NoFlow}]]
  /\ gone \in [Users -> [Providers -> BOOLEAN]]

OnceAt(kind, at, code, saves) ==
  /\ saves \in {0, 1}
  /\ at \in {"new", "provider", "profile", "save"} => saves = 0
  /\ at = "new" => code = "none"
  /\ IF kind = "vercel_connect"
     THEN code = "none" /\ at \notin {"provider", "callback", "exchange"}
     ELSE /\ code # "used" => saves = 0
          /\ at \in {"profile", "save"} => code = "used"

Once(f) == OnceAt(flow[f].kind, flow[f].at, flow[f].code, flow[f].saves)

Rightful(u, p) ==
  LET f == creds[u][p]
  IN f # NoFlow =>
       flow[f].user = u /\ Provider(flow[f].kind) = p /\ flow[f].saves = 1

Quiet(u, p) ==
  gone[u][p] =>
    creds[u][p] = NoFlow /\ \A f \in MaySave(u, p) : flow[f].saves = 1

IInv ==
  /\ Typed
  /\ \A f \in Flows : Once(f)
  /\ \A u \in Users, p \in Providers : Rightful(u, p)
  /\ \A u \in Users, p \in Providers : Quiet(u, p)

-----------------------------------------------------------------------------
(* What a step may do to a flow, a credential and its mark.                *)

\* A flow that moves on keeps whom and what it is for.
LEMMA FlowAfter ==
  ASSUME Typed, NEW f \in Flows, NEW place \in Places, NEW code \in {"none", "unused", "used"},
         flow' = [flow EXCEPT ![f].at = place, ![f].code = code]
  PROVE  /\ flow' \in [Flows -> FlowRecord]
         /\ \A g \in Flows \ {f} : flow'[g] = flow[g]
         /\ flow'[f].at = place /\ flow'[f].code = code
         /\ flow'[f].kind = flow[f].kind /\ flow'[f].user = flow[f].user
         /\ flow'[f].saves = flow[f].saves
<1>1. flow[f] \in FlowRecord /\ flow \in [Flows -> FlowRecord]
  BY DEF Typed
<1>2. flow'[f] = [flow[f] EXCEPT !.at = place, !.code = code]
  BY <1>1
<1>3. flow'[f] \in FlowRecord
  BY <1>1, <1>2 DEF FlowRecord
<1> QED
  BY <1>1, <1>2, <1>3 DEF FlowRecord

LEMMA Moved ==
  ASSUME Typed, NEW f \in Flows, NEW place \in Places, Moves(f, place)
  PROVE  /\ flow' = [flow EXCEPT ![f].at = place, ![f].code = flow[f].code]
         /\ flow[f].code \in {"none", "unused", "used"}
<1>1. flow[f] \in FlowRecord /\ flow \in [Flows -> FlowRecord]
  BY DEF Typed
<1>2. [flow[f] EXCEPT !.at = place] = [flow[f] EXCEPT !.at = place, !.code = flow[f].code]
  BY <1>1 DEF FlowRecord
<1> QED
  BY <1>1, <1>2 DEF Moves, FlowRecord

\* A step that leaves all flows but f, and all credentials and marks, where
\* they are, only has to say what becomes of f.
LEMMA FlowMoves ==
  ASSUME IInv, Typed', NEW f \in Flows, UNCHANGED creds,
         \A g \in Flows \ {f} : flow'[g] = flow[g],
         Once(f)',
         flow'[f].user = flow[f].user, flow'[f].kind = flow[f].kind,
         flow'[f].saves = flow[f].saves,
         \A u \in Users, p \in Providers : gone'[u][p] =>
           /\ gone[u][p]
           /\ f \in MaySave(u, p)' => f \in MaySave(u, p) \/ flow[f].saves = 1
  PROVE  IInv'
<1>1. \A g \in Flows : Once(g)'
  BY DEF IInv, Once
<1>2. ASSUME NEW u \in Users, NEW p \in Providers PROVE Rightful(u, p)'
  <2>1. /\ Rightful(u, p) /\ creds' = creds
        /\ creds[u][p] \in Flows \cup {NoFlow}
    BY DEF IInv, Typed
  <2>2. ASSUME creds[u][p] # NoFlow
        PROVE  /\ flow'[creds[u][p]].user = flow[creds[u][p]].user
               /\ flow'[creds[u][p]].kind = flow[creds[u][p]].kind
               /\ flow'[creds[u][p]].saves = flow[creds[u][p]].saves
    BY <2>1, <2>2
  <2> QED
    BY <2>1, <2>2 DEF Rightful, Provider
<1>3. ASSUME NEW u \in Users, NEW p \in Providers PROVE Quiet(u, p)'
  <2>1. ASSUME gone'[u][p], NEW g \in MaySave(u, p)'
        PROVE  gone[u][p] /\ (g \in MaySave(u, p) \/ flow[g].saves = 1)
    BY <2>1 DEF MaySave, Provider
  <2>2. \A g \in Flows : flow'[g].saves = flow[g].saves
    OBVIOUS
  <2>3. Quiet(u, p)
    BY DEF IInv
  <2>4. MaySave(u, p)' \subseteq Flows
    BY DEF MaySave
  <2> QED
    BY <2>1, <2>2, <2>3, <2>4 DEF Quiet
<1> QED
  BY <1>1, <1>2, <1>3 DEF IInv

\* A flow that begins may save: its credential is not marked any more.
LEMMA BeginKeeps ==
  ASSUME IInv, NEW f \in Flows, NEW kind \in Kinds, NEW user \in Users,
         NEW place \in {"provider", "profile"},
         place = "profile" <=> kind = "vercel_connect",
         Begin(f, kind, place, user)
  PROVE  IInv'
<1>0. Provider(kind) \in Providers
  BY DEF Provider, Providers
<1>1. flow[f].at = "new" /\ flow[f] \in FlowRecord /\ Once(f)
  BY DEF Begin, IInv, Typed
<1>2. /\ flow'[f] = [flow[f] EXCEPT !.kind = kind, !.at = place, !.user = user]
      /\ \A g \in Flows \ {f} : flow'[g] = flow[g]
  BY DEF Begin, IInv, Typed
<1>9. /\ flow' \in [Flows -> FlowRecord] /\ UNCHANGED <<session, creds>> /\ Typed
  BY SMTT(30) DEF Begin, IInv, Typed, FlowRecord, Places, browser
<1>10. gone' \in [Users -> [Providers -> BOOLEAN]]
  <2>1. CASE UNCHANGED gone
    BY <1>9, <2>1 DEF Typed
  <2>2. CASE Back(user, Provider(kind))
    BY <1>0, <1>9, <2>2 DEF Typed, Back
  <2> QED
    BY <2>1, <2>2 DEF Begin
<1>3. Typed'
  BY <1>9, <1>10 DEF Typed
<1>4. flow[f].saves = 0
  BY <1>1 DEF Once, OnceAt
<1>5. ASSUME NEW g \in Flows PROVE Once(g)'
  <2>1. CASE g # f
    BY <1>2, <2>1 DEF Once, IInv
  <2>2. CASE g = f
    BY <1>1, <1>2, <2>2 DEF Once, OnceAt, FlowRecord
  <2> QED
    BY <2>1, <2>2
<1>6. ASSUME NEW u \in Users, NEW p \in Providers PROVE Rightful(u, p)'
  <2>1. Rightful(u, p) /\ creds' = creds
    BY DEF IInv, Begin
  <2>2. creds[u][p] # f
    BY <1>4, <2>1, ConnectionAssumption DEF Rightful
  <2>3. creds[u][p] \in Flows \cup {NoFlow}
    BY DEF IInv, Typed
  <2> QED
    BY <1>2, <2>1, <2>2, <2>3 DEF Rightful, Provider
<1>7. ASSUME NEW u \in Users, NEW p \in Providers PROVE Quiet(u, p)'
  <2>1. gone'[u][p] => gone[u][p] /\ ~(Saves(kind) /\ u = user /\ p = Provider(kind))
    <3>1. CASE Saves(kind)
      BY <1>0, <1>9, <3>1 DEF Begin, Back, Typed
    <3>2. CASE ~Saves(kind)
      BY <3>2 DEF Begin
    <3> QED
      BY <3>1, <3>2
  <2>2. ASSUME ~(Saves(kind) /\ u = user /\ p = Provider(kind)), NEW g \in MaySave(u, p)'
        PROVE  g \in MaySave(u, p) /\ flow'[g].saves = flow[g].saves
    <3>1. g \in Flows
      BY DEF MaySave
    <3>2. CASE g = f
      BY <1>1, <1>2, <2>2, <3>1, <3>2 DEF MaySave, FlowRecord
    <3>3. CASE g # f
      BY <1>2, <2>2, <3>1, <3>3 DEF MaySave
    <3> QED
      BY <3>2, <3>3
  <2>3. Quiet(u, p) /\ creds' = creds
    BY DEF IInv, Begin
  <2> QED
    BY <2>1, <2>2, <2>3 DEF Quiet
<1> QED
  BY <1>3, <1>5, <1>6, <1>7 DEF IInv

-----------------------------------------------------------------------------
(* The steps.                                                              *)

LEMMA GoesOn ==
  ASSUME IInv, NEW f \in Flows, NEW place \in Places,
         NEW code \in {"none", "unused", "used"},
         flow' = [flow EXCEPT ![f].at = place, ![f].code = code],
         UNCHANGED <<creds, gone>>, session' \in Users \cup {"none"},
         OnceAt(flow[f].kind, place, code, flow[f].saves),
         \/ place \in {"new", "redirect", "done"}
         \/ flow[f].at \notin {"new", "redirect", "done"}
         \/ flow[f].saves = 1
  PROVE  IInv'
<1>1. Typed
  BY DEF IInv
<1>2. /\ flow' \in [Flows -> FlowRecord]
      /\ \A g \in Flows \ {f} : flow'[g] = flow[g]
      /\ flow'[f].at = place /\ flow'[f].code = code
      /\ flow'[f].kind = flow[f].kind /\ flow'[f].user = flow[f].user
      /\ flow'[f].saves = flow[f].saves
  BY <1>1, FlowAfter
<1>3. Typed'
  BY <1>1, <1>2 DEF Typed
<1>4. Once(f)'
  BY <1>2 DEF Once
<1>5. ASSUME NEW u \in Users, NEW p \in Providers, f \in MaySave(u, p)'
      PROVE  f \in MaySave(u, p) \/ flow[f].saves = 1
  BY <1>2, <1>5 DEF MaySave
<1>6. UNCHANGED <<creds, gone>>
  OBVIOUS
<1> QED
  BY <1>2, <1>3, <1>4, <1>5, <1>6, FlowMoves

LEMMA GoingKeeps ==
  ASSUME IInv, NEW f \in Flows,
         Consent(f) \/ Deny(f) \/ Callback(f) \/ Exchange(f) \/ Profile(f) \/ Land(f)
  PROVE  IInv'
<1> USE DEF Places, browser
<1>0. /\ flow[f] \in FlowRecord /\ Typed
      /\ OnceAt(flow[f].kind, flow[f].at, flow[f].code, flow[f].saves)
      /\ session \in Users \cup {"none"}
  BY DEF IInv, Once, Typed
<1>1. CASE Consent(f)
  BY <1>0, <1>1, GoesOn DEF Consent, OnceAt
<1>2. CASE Deny(f)
  BY <1>0, <1>2, Moved, GoesOn DEF Deny, OnceAt
<1>3. CASE Callback(f)
  <2>1. /\ UNCHANGED <<session, creds, gone>> /\ flow[f].at = "callback"
        /\ Moves(f, "exchange") \/ Moves(f, "done")
    BY <1>3 DEF Callback
  <2>2. CASE Moves(f, "exchange")
    BY <1>0, <2>1, <2>2, Moved, GoesOn, ZenonT(60) DEF OnceAt
  <2>3. CASE Moves(f, "done")
    BY <1>0, <2>1, <2>3, Moved, GoesOn DEF OnceAt
  <2> QED
    BY <2>1, <2>2, <2>3
<1>4. CASE Exchange(f)
  <2>1. flow[f].at = "exchange" /\ flow[f].code \in {"none", "unused", "used"}
    BY <1>0, <1>4 DEF Exchange, FlowRecord
  <2>2. CASE /\ flow[f].code = "unused"
             /\ flow' = [flow EXCEPT ![f].at = "profile", ![f].code = "used"]
    BY <1>0, <1>4, <2>1, <2>2, GoesOn DEF Exchange, OnceAt
  <2>3. ASSUME NEW c \in {flow[f].code, "used"},
               flow' = [flow EXCEPT ![f].at = "done", ![f].code = c]
        PROVE  IInv'
    BY <1>0, <1>4, <2>1, <2>3, GoesOn DEF Exchange, OnceAt
  <2> QED
    BY <1>4, <2>2, <2>3 DEF Exchange
<1>5. CASE Profile(f)
  BY <1>0, <1>5, Moved, GoesOn, ZenonT(60) DEF Profile, OnceAt
<1>6. CASE Land(f)
  BY <1>0, <1>6, Moved, GoesOn, ZenonT(60) DEF Land, OnceAt, FlowRecord
<1> QED
  BY <1>1, <1>2, <1>3, <1>4, <1>5, <1>6

\* Growing old changes nothing that matters.
LEMMA AgeKeeps ==
  ASSUME IInv, NEW f \in Flows, Age(f) PROVE IInv'
<1>1. /\ Typed /\ flow[f] \in FlowRecord /\ Once(f)
      /\ UNCHANGED <<session, creds, gone>>
  BY DEF IInv, Typed, Age, browser
<1>2. /\ flow' = [flow EXCEPT ![f].fresh = FALSE]
      /\ flow'[f] = [flow[f] EXCEPT !.fresh = FALSE]
      /\ \A g \in Flows \ {f} : flow'[g] = flow[g]
  BY <1>1 DEF Age, Typed
<1>3. Typed'
  BY <1>1, <1>2 DEF Typed, FlowRecord
<1>4. /\ flow'[f].at = flow[f].at /\ flow'[f].kind = flow[f].kind
      /\ flow'[f].user = flow[f].user /\ flow'[f].saves = flow[f].saves
      /\ flow'[f].code = flow[f].code
  BY <1>1, <1>2 DEF FlowRecord
<1>5. Once(f)'
  BY <1>1, <1>4 DEF Once
<1>6. \A u \in Users, p \in Providers : f \in MaySave(u, p)' => f \in MaySave(u, p)
  BY <1>4 DEF MaySave
<1> QED
  BY <1>1, <1>2, <1>3, <1>4, <1>5, <1>6, FlowMoves

\* A callback that is loaded again may save only if it has not saved, and then
\* its credential is not marked any more.
LEMMA ReplayKeeps ==
  ASSUME IInv, NEW f \in Flows, Replay(f) PROVE IInv'
<1>1. /\ Typed /\ flow[f] \in FlowRecord /\ flow[f].at = "done"
      /\ flow[f].code # "none" /\ Moves(f, "callback")
      /\ OnceAt(flow[f].kind, flow[f].at, flow[f].code, flow[f].saves)
      /\ UNCHANGED <<session, creds>>
  BY DEF IInv, Typed, Replay, browser, Once
<1>2. flow' = [flow EXCEPT ![f].at = "callback", ![f].code = flow[f].code]
  BY <1>1, Moved DEF Places
<1>3. /\ flow' \in [Flows -> FlowRecord]
      /\ \A g \in Flows \ {f} : flow'[g] = flow[g]
      /\ flow'[f].at = "callback" /\ flow'[f].code = flow[f].code
      /\ flow'[f].kind = flow[f].kind /\ flow'[f].user = flow[f].user
      /\ flow'[f].saves = flow[f].saves
  BY <1>1, <1>2, FlowAfter DEF Places, FlowRecord
<1>0. Provider(flow[f].kind) \in Providers /\ flow[f].user \in Users
  BY <1>1 DEF FlowRecord, Provider, Providers
<1>4. gone' \in [Users -> [Providers -> BOOLEAN]]
  <2>1. gone \in [Users -> [Providers -> BOOLEAN]]
    BY <1>1 DEF Typed
  <2>2. CASE UNCHANGED gone
    BY <2>1, <2>2
  <2>3. CASE Back(flow[f].user, Provider(flow[f].kind))
    BY <2>1, <2>3, <1>0 DEF Back
  <2> QED
    BY <2>2, <2>3 DEF Replay
<1>5. Typed'
  BY <1>1, <1>3, <1>4 DEF Typed
<1>6. Once(f)'
  BY <1>1, <1>3 DEF Once, OnceAt
<1>7. ASSUME NEW u \in Users, NEW p \in Providers, gone'[u][p]
      PROVE  /\ gone[u][p]
             /\ f \in MaySave(u, p)' => f \in MaySave(u, p) \/ flow[f].saves = 1
  <2>1. CASE flow[f].saves # 0
    BY <1>1, <1>7, <2>1 DEF Replay, OnceAt
  <2>3. CASE ~Saves(flow[f].kind)
    BY <1>3, <1>7, <2>3 DEF Replay, MaySave
  <2>2. CASE flow[f].saves = 0 /\ Saves(flow[f].kind)
    <3>1. flow[f].user \in Users /\ Provider(flow[f].kind) \in Providers
      BY <1>1 DEF FlowRecord, Provider, Providers
    <3>2. gone' = [gone EXCEPT ![flow[f].user][Provider(flow[f].kind)] = FALSE]
      BY <2>2 DEF Replay, Back
    <3>3. gone[u][p] /\ ~(u = flow[f].user /\ p = Provider(flow[f].kind))
      BY <1>1, <1>7, <3>1, <3>2 DEF Typed
    <3> QED
      BY <1>3, <3>3 DEF MaySave
  <2> QED
    BY <2>1, <2>2, <2>3
<1> QED
  BY <1>1, <1>3, <1>5, <1>6, <1>7, FlowMoves

\* A flow saves for the first time: its credential is the one it brought, and
\* was not marked, or the flow would have saved already.
LEMMA SaveKeeps ==
  ASSUME IInv, NEW f \in Flows, Save(f) PROVE IInv'
<1> DEFINE user == flow[f].user
           prov == Provider(flow[f].kind)
<1>1. /\ Typed /\ flow[f] \in FlowRecord /\ flow[f].at = "save" /\ flow[f].saves = 0
      /\ OnceAt(flow[f].kind, "save", flow[f].code, 0)
      /\ UNCHANGED <<session, gone>> /\ user \in Users /\ prov \in Providers
  BY DEF IInv, Typed, Save, browser, Once, OnceAt, FlowRecord, Provider, Providers
<1>2. /\ flow' = [flow EXCEPT ![f].at = "redirect", ![f].saves = @ + 1]
      /\ flow'[f] = [flow[f] EXCEPT !.at = "redirect", !.saves = @ + 1]
      /\ \A g \in Flows \ {f} : flow'[g] = flow[g]
  BY <1>1 DEF Save, Typed
<1>3. /\ flow'[f].at = "redirect" /\ flow'[f].kind = flow[f].kind
      /\ flow'[f].user = flow[f].user /\ flow'[f].saves = 1
      /\ flow'[f].code = flow[f].code /\ flow'[f] \in FlowRecord
  <2>1. flow[f].saves + 1 = 1
    BY <1>1
  <2>2. flow[f] \in FlowRecord /\ flow'[f] = [flow[f] EXCEPT !.at = "redirect", !.saves = 1]
    BY <1>1, <1>2, <2>1
  <2> DEFINE old == flow[f]
             new == flow'[f]
  <2>3. old \in FlowRecord /\ new = [old EXCEPT !.at = "redirect", !.saves = 1]
    BY <2>2
  <2>4. "redirect" \in Places
    BY DEF Places
  <2> HIDE DEF old, new
  <2>5. new \in FlowRecord
    BY <2>3, <2>4 DEF FlowRecord
  <2>6. /\ new.at = "redirect" /\ new.saves = 1 /\ new.kind = old.kind
        /\ new.code = old.code /\ new.user = old.user
    BY <2>3 DEF FlowRecord
  <2> QED
    BY <2>5, <2>6 DEF old, new
<1>4. \/ flow[f].kind = "google_login" /\ creds' = creds
      \/ flow[f].kind # "google_login" /\ creds' = [creds EXCEPT ![user][prov] = f]
  BY DEF Save, Saves
<1>5. creds \in [Users -> [Providers -> Flows \cup {NoFlow}]]
  BY <1>1 DEF Typed
<1>6. /\ creds' \in [Users -> [Providers -> Flows \cup {NoFlow}]]
      /\ \A u \in Users, p \in Providers :
           creds'[u][p] = creds[u][p] \/ (creds'[u][p] = f /\ u = user /\ p = prov
                                         /\ flow[f].kind # "google_login")
  BY <1>1, <1>4, <1>5
<1>7. flow' \in [Flows -> FlowRecord]
  BY <1>1, <1>2, <1>3 DEF Typed
<1>8. Typed'
  BY <1>1, <1>6, <1>7 DEF Typed
<1>9. ASSUME NEW g \in Flows PROVE Once(g)'
  <2>1. CASE g # f
    BY <1>2, <2>1 DEF Once, IInv
  <2>2. CASE g = f
    BY <1>1, <1>3, <2>2 DEF Once, OnceAt
  <2> QED
    BY <2>1, <2>2
<1>10. ASSUME NEW u \in Users, NEW p \in Providers PROVE Rightful(u, p)'
  <2>1. CASE creds'[u][p] = f /\ u = user /\ p = prov
    BY <1>3, <2>1 DEF Rightful, Provider
  <2>2. CASE creds'[u][p] = creds[u][p]
    <3>1. Rightful(u, p) /\ creds[u][p] \in Flows \cup {NoFlow} /\ NoFlow \notin Flows
      BY <1>5, ConnectionAssumption DEF IInv
    <3>2. creds[u][p] # f
      BY <1>1, <3>1 DEF Rightful
    <3>3. creds[u][p] # NoFlow => flow'[creds[u][p]] = flow[creds[u][p]]
      BY <1>2, <3>1, <3>2
    <3> QED
      BY <2>2, <3>1, <3>3 DEF Rightful, Provider
  <2> QED
    BY <1>6, <2>1, <2>2
<1>11. ASSUME NEW u \in Users, NEW p \in Providers PROVE Quiet(u, p)'
  <2>1. Quiet(u, p) /\ gone' = gone
    BY <1>1 DEF IInv
  <2>2. ASSUME NEW g \in MaySave(u, p)' PROVE g \in MaySave(u, p) /\ flow'[g] = flow[g]
    BY <1>2, <1>3, <2>2 DEF MaySave
  <2>3. ASSUME gone[u][p] PROVE creds'[u][p] = creds[u][p]
    <3>1. f \notin MaySave(u, p)
      BY <1>1, <2>1, <2>3 DEF Quiet
    <3> QED
      BY <1>1, <1>6, <3>1 DEF MaySave, Saves
  <2> QED
    BY <2>1, <2>2, <2>3 DEF Quiet
<1> QED
  BY <1>8, <1>9, <1>10, <1>11 DEF IInv

LEMMA RequesterIsUser ==
  ASSUME Typed, NEW header \in BOOLEAN PROVE Requester(header) \in Users
BY DEF Typed, Requester, Users

\* Signing in and out moves no flow and no credential.
LEMMA SessionsKeep ==
  ASSUME IInv, UNCHANGED <<flow, creds, gone>>, session' \in Users \cup {"none"}
  PROVE  IInv'
BY DEF IInv, Typed, Once, Rightful, Quiet, MaySave

\* Disconnecting marks the credential only if no flow is under way for it.
LEMMA DisconnectKeeps ==
  ASSUME IInv, NEW p \in Providers, Disconnect(p) PROVE IInv'
<1> DEFINE user == Requester(TRUE)
<1>1. user \in Users /\ Typed /\ UNCHANGED <<session, flow>>
  BY RequesterIsUser DEF IInv, Disconnect, browser
<1>2. /\ creds' = [creds EXCEPT ![user][p] = NoFlow]
      /\ gone' = [gone EXCEPT ![user][p] = MaySave(user, p) = {}]
  BY DEF Disconnect
<1>3. /\ creds \in [Users -> [Providers -> Flows \cup {NoFlow}]]
      /\ gone \in [Users -> [Providers -> BOOLEAN]]
  BY <1>1 DEF Typed
<1>4. creds' \in [Users -> [Providers -> Flows \cup {NoFlow}]]
  BY <1>1, <1>2, <1>3
<1>5. gone' \in [Users -> [Providers -> BOOLEAN]]
  BY <1>1, <1>2, <1>3
<1>6. Typed'
  BY <1>1, <1>4, <1>5 DEF Typed
<1>7. \A f \in Flows : Once(f)'
  BY <1>1 DEF IInv, Once
<1>8. ASSUME NEW u \in Users, NEW q \in Providers PROVE Rightful(u, q)' /\ Quiet(u, q)'
  <2>1. Rightful(u, q) /\ Quiet(u, q)
    BY DEF IInv
  <2>2. CASE u = user /\ q = p
    <3>1. creds'[u][q] = NoFlow /\ (gone'[u][q] <=> MaySave(u, q) = {})
      BY <1>1, <1>2, <1>3, <2>2
    <3> QED
      BY <1>1, <3>1 DEF Rightful, Quiet, MaySave
  <2>3. CASE ~(u = user /\ q = p)
    <3>1. creds'[u][q] = creds[u][q] /\ gone'[u][q] = gone[u][q]
      BY <1>1, <1>2, <1>3, <2>3
    <3> QED
      BY <1>1, <2>1, <3>1 DEF Rightful, Quiet, MaySave
  <2> QED
    BY <2>2, <2>3
<1> QED
  BY <1>6, <1>7, <1>8 DEF IInv

\* A request that is cut off saves nothing; its code may come back.
LEMMA RestartKeeps ==
  ASSUME IInv, Restart PROVE IInv'
<1>1. Typed /\ UNCHANGED <<session, creds, gone>> /\ flow \in [Flows -> FlowRecord]
  BY DEF IInv, Typed, Restart, browser
<1>2. ASSUME NEW f \in Flows
      PROVE  /\ flow[f] \in FlowRecord /\ flow'[f] \in FlowRecord
             /\ flow'[f].user = flow[f].user /\ flow'[f].kind = flow[f].kind
             /\ flow'[f].saves = flow[f].saves /\ flow'[f].code = flow[f].code
             /\ flow'[f].at = flow[f].at \/ flow'[f].at = "done"
  BY <1>1 DEF Restart, FlowRecord, Places
<1>3. flow' \in [Flows -> FlowRecord]
  BY <1>1, <1>2 DEF Restart
<1>4. Typed'
  BY <1>1, <1>3 DEF Typed
<1>5. ASSUME NEW f \in Flows PROVE Once(f)'
  <2>1. OnceAt(flow[f].kind, flow[f].at, flow[f].code, flow[f].saves)
    BY DEF IInv, Once
  <2> QED
    BY <1>2, <2>1 DEF Once, OnceAt
<1>6. ASSUME NEW u \in Users, NEW p \in Providers PROVE Rightful(u, p)' /\ Quiet(u, p)'
  <2>1. Rightful(u, p) /\ Quiet(u, p) /\ creds[u][p] \in Flows \cup {NoFlow}
    BY <1>1 DEF IInv, Typed
  <2>2. Rightful(u, p)'
    BY <1>1, <1>2, <2>1 DEF Rightful, Provider
  <2>3. ASSUME NEW g \in MaySave(u, p)' PROVE g \in MaySave(u, p) /\ flow'[g].saves = flow[g].saves
    BY <1>2, <2>3 DEF MaySave
  <2> QED
    BY <1>1, <2>1, <2>2, <2>3 DEF Quiet
<1> QED
  BY <1>4, <1>5, <1>6 DEF IInv

-----------------------------------------------------------------------------
(* The invariant, and what follows from it.                                *)

LEMMA InitHolds == Init => IInv
<1> SUFFICES ASSUME Init PROVE IInv
  OBVIOUS
<1>1. Typed
  BY DEF Init, Typed, Unbegun, FlowRecord, Places, Users
<1>2. \A f \in Flows : Once(f)
  BY DEF Init, Once, OnceAt, Unbegun
<1>3. \A u \in Users, p \in Providers : Rightful(u, p) /\ Quiet(u, p)
  BY DEF Init, Rightful, Quiet
<1> QED
  BY <1>1, <1>2, <1>3 DEF IInv

LEMMA StartingKeeps ==
  ASSUME IInv, NEW f \in Flows, Starting(f) PROVE IInv'
<1>1. CASE GoogleLogin(f)
  BY <1>1, BeginKeeps DEF GoogleLogin, Kinds, Users
<1>2. CASE GitHubLogin(f)
  BY <1>2, BeginKeeps DEF GitHubLogin, Kinds, Users
<1>3. CASE VercelConnect(f)
  <2>1. Requester(TRUE) \in Users
    BY RequesterIsUser DEF IInv
  <2> QED
    BY <1>3, <2>1, BeginKeeps DEF VercelConnect, Kinds
<1>4. CASE \E client \in Clients : GitHubConnect(f, client = "header")
  <2>1. PICK header \in BOOLEAN : GitHubConnect(f, header)
    BY <1>4
  <2>2. Requester(header) \in Users
    BY RequesterIsUser DEF IInv
  <2> QED
    BY <2>1, <2>2, BeginKeeps DEF GitHubConnect, Kinds
<1> QED
  BY <1>1, <1>2, <1>3, <1>4 DEF Starting

LEMMA NextKeeps == IInv /\ [Next]_vars => IInv'
<1> SUFFICES ASSUME IInv, [Next]_vars PROVE IInv'
  OBVIOUS
<1>0. Typed
  BY DEF IInv
<1>1. ASSUME NEW f \in Flows, Starting(f) PROVE IInv'
  BY <1>1, StartingKeeps
<1>2. ASSUME NEW f \in Flows, Going(f) PROVE IInv'
  BY <1>2, GoingKeeps, AgeKeeps, ReplayKeeps, SaveKeeps DEF Going
<1>3. CASE Sessions
  BY <1>0, <1>3, SessionsKeep
     DEF Sessions, GuestLogin, Logout, SessionExpires, Reload, Typed, Users
<1>4. ASSUME NEW p \in Providers, Disconnect(p) PROVE IInv'
  BY <1>4, DisconnectKeeps
<1>5. ASSUME NEW row \in Projects,
             LocalDisconnect(row) \/ \E header \in BOOLEAN : LocalConnect(row, header)
      PROVE  IInv'
  BY <1>0, <1>5, SessionsKeep DEF LocalDisconnect, LocalConnect, Registers, browser, Typed
<1>8. ASSUME NEW t \in statements, Execute(t) PROVE IInv'
  BY <1>0, <1>8, SessionsKeep DEF Execute, browser, Typed
<1>6. CASE Restart
  BY <1>6, RestartKeeps
<1>7. CASE UNCHANGED vars
  BY <1>0, <1>7, SessionsKeep DEF vars, browser, Typed
<1> QED
  BY <1>1, <1>2, <1>3, <1>4, <1>5, <1>6, <1>7, <1>8 DEF Next

LEMMA AlwaysIInv == Spec => []IInv
BY InitHolds, NextKeeps, PTL DEF Spec

\* An authorization saves a credential at most once, and for the user for whom
\* it was begun: the state parameter keeps the user, and the provider takes the
\* code once.
THEOREM SavesOnce == Spec => []SavedOnceForItsUser
<1>1. IInv => SavedOnceForItsUser
  BY DEF IInv, Once, OnceAt, Rightful, SavedOnceForItsUser
<1> QED
  BY <1>1, AlwaysIInv, PTL

\* What was disconnected stays so, whichever callbacks are under way or loaded
\* again.
THEOREM StaysDisconnected == Spec => []DisconnectionLasts
<1>1. IInv => DisconnectionLasts
  BY DEF IInv, Quiet, DisconnectionLasts
<1> QED
  BY <1>1, AlwaysIInv, PTL

-----------------------------------------------------------------------------
(* Types, and the table of local projects.                                 *)

RestTyped ==
  /\ valid \in BOOLEAN /\ view \in {"landing", "project"}
  /\ listed \cup rows \cup doubt \subseteq Projects
  /\ statements \subseteq {"insert", "delete"} \X Projects

LEMMA RestKept == IInv /\ RestTyped /\ [Next]_vars => RestTyped'
<1> SUFFICES ASSUME IInv, RestTyped, [Next]_vars PROVE RestTyped'
  OBVIOUS
<1> USE DEF browser, local, RestTyped
<1>1. ASSUME NEW f \in Flows, Starting(f) PROVE RestTyped'
  BY <1>1 DEF Starting, GoogleLogin, GitHubLogin, VercelConnect, GitHubConnect, Begin
<1>2. ASSUME NEW f \in Flows, Going(f) PROVE RestTyped'
  BY <1>2 DEF Going, Consent, Deny, Age, Callback, Exchange, Profile, Save, Land, Boot,
              Replay
<1>3. CASE Sessions
  BY <1>3 DEF Sessions, GuestLogin, Logout, SessionExpires, Reload, Boot
<1>4. ASSUME NEW p \in Providers, Disconnect(p) PROVE RestTyped'
  BY <1>4 DEF Disconnect
<1>5. ASSUME NEW row \in Projects, NEW header \in BOOLEAN,
             LocalDisconnect(row) \/ LocalConnect(row, header)
      PROVE  RestTyped'
  <2>1. PICK listing \in SUBSET Projects, kind \in {"insert", "delete"} :
          Registers(row, listing, {kind})
    BY <1>5 DEF LocalConnect, LocalDisconnect
  <2> QED
    BY <2>1 DEF Registers
<1>6. ASSUME NEW t \in statements, Execute(t) PROVE RestTyped'
  BY <1>6 DEF Execute
<1>7. CASE Restart
  BY <1>7 DEF Restart
<1>8. CASE UNCHANGED vars
  BY <1>8 DEF vars
<1> QED
  BY <1>1, <1>2, <1>3, <1>4, <1>5, <1>6, <1>7, <1>8 DEF Next

\* The browser, the flows, the credentials and the local projects keep their
\* types.
THEOREM ConnectionTypes == Spec => []TypeOK
<1>1. Init => RestTyped
  BY DEF Init, RestTyped
<1>2. IInv /\ RestTyped => TypeOK
  BY DEF IInv, Typed, FlowRecord, Places, TypeOK, RestTyped
<1> QED
  BY <1>1, <1>2, RestKept, AlwaysIInv, PTL DEF Spec

\* A project without doubt has at most one statement under way, which agrees
\* with the memory; when it has none, the table does.
Agrees(row) ==
  row \notin doubt =>
    /\ <<"insert", row>> \in statements => row \in listed /\ <<"delete", row>> \notin statements
    /\ <<"delete", row>> \in statements => row \notin listed
    /\ (\A t \in statements : t[2] # row) => (row \in listed <=> row \in rows)

LEMMA RegistersAgree ==
  ASSUME RestTyped, NEW row \in Projects, Agrees(row), NEW other \in Projects,
         NEW kind \in {"insert", "delete"},
         Registers(other, IF kind = "insert" THEN listed \cup {other} ELSE listed \ {other},
                   {kind})
  PROVE  Agrees(row)'
<1>1. /\ statements' = statements \cup {<<kind, other>>} /\ rows' = rows
      /\ listed' = IF kind = "insert" THEN listed \cup {other} ELSE listed \ {other}
      /\ doubt' = IF \E t \in statements : t[2] = other THEN doubt \cup {other}
                                                         ELSE doubt \ {other}
  BY DEF Registers
<1>2. CASE row # other
  <2>1. \A k \in {"insert", "delete"} : <<k, row>> \in statements' <=> <<k, row>> \in statements
    BY <1>1, <1>2
  <2>2. (\A t \in statements' : t[2] # row) => \A t \in statements : t[2] # row
    BY <1>1
  <2>3. (row \in listed' <=> row \in listed) /\ (row \in doubt' <=> row \in doubt)
    BY <1>1, <1>2
  <2> QED
    BY <1>1, <2>1, <2>2, <2>3 DEF Agrees
<1>3. CASE row = other
  <2>1. <<kind, row>> \in statements' /\ <<kind, row>>[2] = row
    BY <1>1, <1>3
  <2>2. (row \in listed') <=> kind = "insert"
    BY <1>1, <1>3
  <2>3. ASSUME row \notin doubt'
        PROVE  \A k \in {"insert", "delete"} : <<k, row>> \in statements' => k = kind
    <3>1. \A t \in statements : t[2] # row
      BY <1>1, <1>3, <2>3
    <3>2. \A k \in {"insert", "delete"} : <<k, row>> \notin statements
      BY <3>1
    <3> QED
      BY <1>1, <1>3, <3>2
  <2>4. ~\A t \in statements' : t[2] # row
    BY <2>1
  <2> QED
    BY <2>1, <2>2, <2>3, <2>4 DEF Agrees
<1> QED
  BY <1>2, <1>3

LEMMA ExecuteAgrees ==
  ASSUME RestTyped, NEW row \in Projects, Agrees(row), NEW t \in statements, Execute(t)
  PROVE  Agrees(row)'
<1>1. /\ statements' = statements \ {t} /\ listed' = listed
      /\ \/ /\ rows' = IF t[1] = "insert" THEN rows \cup {t[2]} ELSE rows \ {t[2]}
            /\ doubt' = doubt
         \/ doubt' = doubt \cup {t[2]} /\ rows' = rows
  BY DEF Execute
<1>2. t = <<t[1], t[2]>> /\ t[1] \in {"insert", "delete"}
  BY DEF RestTyped
<1>3. CASE t[2] # row
  <2>1. \A k \in {"insert", "delete"} : <<k, row>> \in statements' <=> <<k, row>> \in statements
    BY <1>1, <1>2, <1>3
  <2>2. (\A u \in statements' : u[2] # row) <=> (\A u \in statements : u[2] # row)
    BY <1>1, <1>3
  <2>3. (row \in rows' <=> row \in rows) /\ (row \in doubt' <=> row \in doubt)
    BY <1>1, <1>3
  <2> QED
    BY <1>1, <2>1, <2>2, <2>3 DEF Agrees
<1>4. CASE t[2] = row /\ row \notin doubt'
  <2>1. /\ row \notin doubt
        /\ rows' = IF t[1] = "insert" THEN rows \cup {row} ELSE rows \ {row}
    BY <1>1, <1>4
  <2>2. <<t[1], row>> \in statements
    BY <1>2, <1>4
  <2>3. /\ t[1] = "insert" => row \in listed /\ <<"delete", row>> \notin statements
        /\ t[1] = "delete" => row \notin listed /\ <<"insert", row>> \notin statements
    BY <2>1, <2>2 DEF Agrees
  <2>4. <<"insert", row>> \notin statements' /\ <<"delete", row>> \notin statements'
    BY <1>1, <1>2, <1>4, <2>3
  <2>5. row \in listed' <=> row \in rows'
    BY <1>1, <1>2, <2>1, <2>3
  <2> QED
    BY <2>4, <2>5 DEF Agrees
<1>5. CASE row \in doubt'
  BY <1>5 DEF Agrees
<1> QED
  BY <1>3, <1>4, <1>5

LEMMA AgreementKept ==
  ASSUME IInv, RestTyped, \A row \in Projects : Agrees(row), [Next]_vars
  PROVE  \A row \in Projects : Agrees(row)'
<1> SUFFICES ASSUME NEW row \in Projects PROVE Agrees(row)'
  OBVIOUS
<1>1. CASE UNCHANGED local
  BY <1>1 DEF local, Agrees
<1>2. ASSUME NEW other \in Projects, NEW header \in BOOLEAN, LocalConnect(other, header)
      PROVE  Agrees(row)'
  BY <1>2, RegistersAgree DEF LocalConnect
<1>3. ASSUME NEW other \in Projects, LocalDisconnect(other) PROVE Agrees(row)'
  BY <1>3, RegistersAgree DEF LocalDisconnect
<1>4. ASSUME NEW t \in statements, Execute(t) PROVE Agrees(row)'
  BY <1>4, ExecuteAgrees
<1>5. CASE Restart
  <2>1. listed' = {} /\ statements' = {} /\ doubt' = doubt \cup rows /\ rows' = rows
    BY <1>5 DEF Restart
  <2> QED
    BY <2>1 DEF Agrees
<1>6. ASSUME NEW f \in Flows, Starting(f) \/ Going(f) PROVE UNCHANGED local
  BY <1>6 DEF Starting, Going, GoogleLogin, GitHubLogin, VercelConnect, GitHubConnect,
              Begin, Consent, Deny, Age, Callback, Exchange, Profile, Save, Land, Replay
<1>7. ASSUME Sessions \/ \E p \in Providers : Disconnect(p) PROVE UNCHANGED local
  BY <1>7 DEF Sessions, GuestLogin, Logout, SessionExpires, Reload, Disconnect
<1> QED
  BY <1>1, <1>2, <1>3, <1>4, <1>5, <1>6, <1>7 DEF Next, vars

\* Requests for local projects that do not overlap, do not fail and are not cut
\* off by a restart leave the table with what the memory lists, in whichever
\* order those for different projects are executed.
THEOREM RowsFollowTheList == Spec => []RowsFollow
<1>1. Init => RestTyped /\ \A row \in Projects : Agrees(row)
  BY DEF Init, RestTyped, Agrees
<1>2. /\ IInv /\ RestTyped /\ (\A row \in Projects : Agrees(row)) /\ [Next]_vars
      => RestTyped' /\ (\A row \in Projects : Agrees(row))'
  BY RestKept, AgreementKept
<1>3. (\A row \in Projects : Agrees(row)) => RowsFollow
  BY DEF Agrees, RowsFollow
<1> QED
  BY <1>1, <1>2, <1>3, AlwaysIInv, PTL DEF Spec

=============================================================================
