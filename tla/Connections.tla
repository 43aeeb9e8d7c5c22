---------------------------- MODULE Connections ----------------------------
(***************************************************************************)
(* Signing in and connecting accounts: api/auth.py, api/integrations.py    *)
(* and the start of the dashboard's page, for one person with a browser,   *)
(* a Google and a GitHub account, a Vercel token and local repositories.   *)
(*                                                                         *)
(* An authorization goes from the page to the provider and back: its       *)
(* state parameter is signed and expires, its code is good for one         *)
(* exchange, and the person may load the callback's address again.  Steps  *)
(* of a callback are its requests to the provider and the save.            *)
(* IntegrationStore models the store of credentials in detail; here it is  *)
(* the register that Credential promises.  A credential is the flow that   *)
(* brought it.                                                             *)
(***************************************************************************)
EXTENDS Naturals, FiniteSets

CONSTANTS
  Flows,    \* bound: the authorizations and Vercel submissions that are begun
  NoFlow,   \* no credential
  Projects, \* the local projects, as pairs of the user who has it and its path
  Clients   \* who connects GitHub: "page" (a navigation) or "header" (an API
            \* client that sends its token)

Users == {"google", "github", "guest"}
Providers == {"github", "vercel"}
Kinds == {"google_login", "github_login", "github_connect", "vercel_connect"}

ASSUME ConnectionAssumption ==
  /\ NoFlow \notin Flows
  /\ Projects \subseteq Users \X STRING
  /\ Clients \subseteq {"page", "header"}

VARIABLES
  session,  \* whose token localStorage holds
  valid,    \* does the server accept it?
  view,     \* KalkiApp.currentView
  flow,     \* each flow: its kind and place, whom it is for, its code
  creds,    \* the integration of each user and provider
  listed,   \* _mem_local_projects, as pairs of user and path
  rows,     \* the table local_projects
  statements, \* the INSERTs and DELETEs that requests are about to execute
  doubt,    \* the projects whose requests overlapped, whose statement failed,
            \* or whose row a restart left without its entry in the memory
  gone      \* was it disconnected, with no flow begun that could bring it back?

browser == <<session, valid, view>>
local == <<listed, rows, statements, doubt>>
vars == <<browser, flow, creds, local, gone>>

Unbegun == [kind |-> "none", at |-> "new", user |-> "guest",
            fresh |-> TRUE, code |-> "none", saves |-> 0]

Init ==
  /\ session = "none" /\ valid = TRUE /\ view = "landing"
  /\ flow = [f \in Flows |-> Unbegun]
  /\ creds = [u \in Users |-> [p \in Providers |-> NoFlow]]
  /\ listed = {} /\ rows = {} /\ statements = {} /\ doubt = {}
  /\ gone = [u \in Users |-> [p \in Providers |-> FALSE]]

-----------------------------------------------------------------------------
(* Whom a request is for: get_current_user_payload, get_required_user.     *)

\* A request without a token is the guest's.
Requester(header) == IF header /\ session # "none" THEN session ELSE "guest"
Unauthorized(header) == header /\ session # "none" /\ ~valid

Provider(kind) == IF kind = "vercel_connect" THEN "vercel" ELSE "github"
Saves(kind) == kind # "google_login"
Back(u, p) == gone' = [gone EXCEPT ![u][p] = FALSE]
Moves(f, place) == flow' = [flow EXCEPT ![f].at = place]

-----------------------------------------------------------------------------
(* A flow begins.                                                          *)

Begin(f, kind, place, user) ==
  /\ flow[f].at = "new"
  /\ flow' = [flow EXCEPT ![f].kind = kind, ![f].at = place, ![f].user = user]
  /\ IF Saves(kind) THEN Back(user, Provider(kind)) ELSE UNCHANGED gone
  /\ UNCHANGED <<browser, creds, local>>

\* google_login, github_login: the state names nobody; the profile will.
GoogleLogin(f) == Begin(f, "google_login", "provider", "google")
GitHubLogin(f) == Begin(f, "github_login", "provider", "github")

\* github_connect: the state carries the user.  The page, once signed in,
\* navigates to it, which sends no header.
GitHubConnect(f, header) ==
  /\ header \/ view = "project"
  /\ ~Unauthorized(header)
  /\ Begin(f, "github_connect", "provider", Requester(header))

\* vercel_connect: the token is tried before it is stored.
VercelConnect(f) ==
  /\ ~Unauthorized(TRUE)
  /\ Begin(f, "vercel_connect", "profile", Requester(TRUE))

-----------------------------------------------------------------------------
(* The provider and the callback.                                          *)

Consent(f) ==
  /\ flow[f].at = "provider"
  /\ flow' = [flow EXCEPT ![f].at = "callback", ![f].code = "unused"]
  /\ UNCHANGED <<browser, creds, local, gone>>

\* The callback with an error, or without a code, changes nothing.
Deny(f) ==
  /\ flow[f].at = "provider"
  /\ Moves(f, "done")
  /\ UNCHANGED <<browser, creds, local, gone>>

\* The person takes more than the 600 seconds the state is good for.
Age(f) ==
  /\ flow[f].at \in {"provider", "callback", "done"} /\ flow[f].fresh
  /\ flow[f].kind # "vercel_connect"
  /\ flow' = [flow EXCEPT ![f].fresh = FALSE]
  /\ UNCHANGED <<browser, creds, local, gone>>

\* verify_oauth_state, _verify_user_oauth_state.
Callback(f) ==
  /\ flow[f].at = "callback"
  /\ Moves(f, IF flow[f].fresh THEN "exchange" ELSE "done")
  /\ UNCHANGED <<browser, creds, local, gone>>

\* Slip: a code that was exchanged before is taken for good.
ExchangeAgain(f) ==
  /\ flow[f].at = "exchange"
  /\ flow' = [flow EXCEPT ![f].at = "profile", ![f].code = "used"]
  /\ UNCHANGED <<browser, creds, local, gone>>

\* The provider takes a code once.  An exchange that failed may have used it.
Exchange(f) ==
  /\ flow[f].at = "exchange"
  /\ \/ /\ flow[f].code = "unused"
        /\ flow' = [flow EXCEPT ![f].at = "profile", ![f].code = "used"]
     \/ \E c \in {flow[f].code, "used"} :
          flow' = [flow EXCEPT ![f].at = "done", ![f].code = c]
  /\ UNCHANGED <<browser, creds, local, gone>>

\* The profile, or the test of a Vercel token: a failure saves nothing.
Profile(f) ==
  /\ flow[f].at = "profile"
  /\ Moves(f, "save") \/ Moves(f, "done")
  /\ UNCHANGED <<browser, creds, local, gone>>

\* save_integration, for every flow but a Google login.
Save(f) ==
  /\ flow[f].at = "save"
  /\ IF Saves(flow[f].kind)
     THEN creds' = [creds EXCEPT ![flow[f].user][Provider(flow[f].kind)] = f]
     ELSE UNCHANGED creds
  /\ flow' = [flow EXCEPT ![f].at = "redirect", ![f].saves = @ + 1]
  /\ UNCHANGED <<browser, local, gone>>

\* bootAuth of a page with the session s: getMe, then a view.
Boot(s, ok) == view' = IF s # "none" /\ ok THEN "project" ELSE "landing"

\* The redirect of a login carries the token that the page stores.
Land(f) ==
  /\ flow[f].at = "redirect"
  /\ IF flow[f].kind \in {"google_login", "github_login"}
     THEN session' = flow[f].user /\ valid' = TRUE
     ELSE UNCHANGED <<session, valid>>
  /\ IF flow[f].kind = "vercel_connect" THEN UNCHANGED view
                                        ELSE Boot(session', valid')
  /\ Moves(f, "done")
  /\ UNCHANGED <<creds, local, gone>>

\* The callback's address is loaded again, from the history or by a reload.
Replay(f) ==
  /\ flow[f].at = "done" /\ flow[f].code # "none"
  /\ Moves(f, "callback")
  /\ IF flow[f].saves = 0 /\ Saves(flow[f].kind)
     THEN Back(flow[f].user, Provider(flow[f].kind)) ELSE UNCHANGED gone
  /\ UNCHANGED <<browser, creds, local>>

-----------------------------------------------------------------------------
(* The session.                                                            *)

\* POST /guest, which a client of the API may use.
GuestLogin ==
  /\ "header" \in Clients
  /\ session' = "guest" /\ valid' = TRUE
  /\ UNCHANGED <<view, flow, creds, local, gone>>

\* btn-logout forgets the token, and nothing else.
Logout ==
  /\ session # "none" /\ view # "landing"
  /\ session' = "none" /\ view' = "landing"
  /\ UNCHANGED <<valid, flow, creds, local, gone>>

\* Thirty days pass.
SessionExpires ==
  /\ session # "none" /\ valid /\ valid' = FALSE
  /\ UNCHANGED <<session, view, flow, creds, local, gone>>

Reload ==
  /\ Boot(session, valid)
  /\ UNCHANGED <<session, valid, flow, creds, local, gone>>

-----------------------------------------------------------------------------
(* Disconnecting, and local repositories.                                  *)

MaySave(u, p) ==
  {f \in Flows : /\ flow[f].at \notin {"new", "redirect", "done"}
                 /\ flow[f].user = u /\ Provider(flow[f].kind) = p
                 /\ Saves(flow[f].kind)}

\* Slip: the credential of another user is deleted.
DisconnectGuest(p) ==
  /\ ~Unauthorized(TRUE)
  /\ creds' = [creds EXCEPT !["guest"][p] = NoFlow]
  /\ gone' = [gone EXCEPT ![Requester(TRUE)][p] = MaySave(Requester(TRUE), p) = {}]
  /\ UNCHANGED <<browser, flow, local>>

\* github_disconnect, vercel_disconnect.
Disconnect(p) ==
  /\ ~Unauthorized(TRUE)
  /\ LET u == Requester(TRUE)
     IN /\ creds' = [creds EXCEPT ![u][p] = NoFlow]
        /\ gone' = [gone EXCEPT ![u][p] = MaySave(u, p) = {}]
  /\ UNCHANGED <<browser, flow, local>>

\* A request about a local project changes the memory at once and then executes
\* its statement, so that two requests for one project may overlap.
Registers(row, listing, executed) ==
  /\ listed' = listing
  /\ statements' = statements \cup (executed \X {row})
  /\ doubt' = IF \E t \in statements : t[2] = row THEN doubt \cup {row}
                                                 ELSE doubt \ {row}
  /\ UNCHANGED <<browser, flow, creds, rows, gone>>

\* local_connect: the id is made of user and path, so that a repository is
\* registered once however often it is paired.
LocalConnect(row, header) ==
  /\ ~Unauthorized(header) /\ row[1] = Requester(header)
  /\ Registers(row, listed \cup {row}, {"insert"})

\* Slip: what the memory does not list is not deleted from the table.
LocalDisconnectListed(row) ==
  /\ ~Unauthorized(TRUE) /\ row[1] = Requester(TRUE)
  /\ Registers(row, listed \ {row}, IF row \in listed THEN {"delete"} ELSE {})

\* local_disconnect takes any id, one from before a restart too.
LocalDisconnect(row) ==
  /\ ~Unauthorized(TRUE) /\ row[1] = Requester(TRUE)
  /\ Registers(row, listed \ {row}, {"delete"})

\* The statement is executed, or fails, which is logged only; without a
\* database each one fails.
Execute(t) ==
  /\ statements' = statements \ {t}
  /\ \/ /\ rows' = IF t[1] = "insert" THEN rows \cup {t[2]} ELSE rows \ {t[2]}
        /\ UNCHANGED doubt
     \/ doubt' = doubt \cup {t[2]} /\ UNCHANGED rows
  /\ UNCHANGED <<browser, flow, creds, listed, gone>>

\* The server restarts: requests under way are cut off, and the local projects
\* are listed from memory only, which is empty now.
Restart ==
  /\ listed' = {} /\ statements' = {} /\ doubt' = doubt \cup rows
  /\ flow' = [f \in Flows |->
                IF flow[f].at \in {"exchange", "profile", "save"}
                THEN [flow[f] EXCEPT !.at = "done"] ELSE flow[f]]
  /\ UNCHANGED <<browser, creds, rows, gone>>

Starting(f) ==
  \/ GoogleLogin(f) \/ GitHubLogin(f) \/ VercelConnect(f)
  \/ \E client \in Clients : GitHubConnect(f, client = "header")
Going(f) ==
  \/ Consent(f) \/ Deny(f) \/ Age(f) \/ Callback(f) \/ Exchange(f)
  \/ Profile(f) \/ Save(f) \/ Land(f) \/ Replay(f)
Sessions == GuestLogin \/ Logout \/ SessionExpires \/ Reload
Next ==
  \/ \E f \in Flows : Starting(f) \/ Going(f)
  \/ Sessions
  \/ \E p \in Providers : Disconnect(p)
  \/ \E row \in Projects :
       \/ LocalDisconnect(row)
       \/ \E header \in BOOLEAN : LocalConnect(row, header)
  \/ \E t \in statements : Execute(t)
  \/ Restart

Spec == Init /\ [][Next]_vars

-----------------------------------------------------------------------------
(* Types.                                                                  *)

\* Every variable has the type its counterpart in the code has.
TypeOK ==
  /\ session \in Users \cup {"none"} /\ valid \in BOOLEAN
  /\ view \in {"landing", "project"}
  /\ flow \in [Flows ->
       [kind : Kinds \cup {"none"}, user : Users, fresh : BOOLEAN,
        at : {"new", "provider", "callback", "exchange", "profile", "save",
              "redirect", "done"},
        code : {"none", "unused", "used"}, saves : Nat]]
  /\ creds \in [Users -> [Providers -> Flows \cup {NoFlow}]]
  /\ listed \cup rows \cup doubt \subseteq Projects
  /\ statements \subseteq {"insert", "delete"} \X Projects
  /\ gone \in [Users -> [Providers -> BOOLEAN]]

-----------------------------------------------------------------------------
(* Safety.                                                                 *)

\* Whatever is loaded again, signed out, expired or restarted meanwhile, an
\* authorization saves a credential at most once, and for the user for whom it
\* was begun.
SavedOnceForItsUser ==
  /\ \A f \in Flows : flow[f].saves <= 1
  /\ \A u \in Users, p \in Providers :
       creds[u][p] # NoFlow =>
         LET f == creds[u][p]
         IN flow[f].user = u /\ Provider(flow[f].kind) = p /\ flow[f].saves = 1

\* A credential that was disconnected while no authorization for it was under
\* way stays so until the next one is begun, or an unused code comes back.
DisconnectionLasts ==
  \A u \in Users, p \in Providers : gone[u][p] => creds[u][p] = NoFlow

\* Once no statement for it is under way, the table has a local project exactly
\* if the memory lists it, unless requests for it overlapped, its statement
\* failed, or the server restarted since it was last connected or disconnected.
RowsFollow ==
  \A row \in Projects \ doubt :
    (\A t \in statements : t[2] # row) => (row \in listed <=> row \in rows)

-----------------------------------------------------------------------------
(* A claim of the documentation that the code does not keep.               *)

\* "Authenticated users only. No guest / anonymous paths."  Whoever signs in
\* and connects by the dashboard connects an account of his own.
NoGuestPath == \A f \in Flows : creds["guest"]["github"] # f
=============================================================================
