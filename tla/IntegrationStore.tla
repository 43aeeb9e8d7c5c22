-------------------------- MODULE IntegrationStore --------------------------
(***************************************************************************)
(* The credentials of one user for one provider in backend/persistence.py: *)
(* a dictionary in the memory of each server process in front of a table   *)
(* of the database.  The dictionary is guarded by a lock, the table is not *)
(* touched under it, so that an operation is two or three steps; requests  *)
(* run on the threads of the processes and may overlap, and the error of a *)
(* statement is logged and forgotten.  Other users and providers have keys *)
(* of their own.  A token stands for the record that holds it; encryption, *)
(* which is undone on the way out, is left out.                            *)
(*                                                                         *)
(* A process that was started without a database, or did not reach it, is  *)
(* one whose statements all fail.                                          *)
(***************************************************************************)
EXTENDS FiniteSets

CONSTANTS
  Processes, \* the server processes over the one table
  Threads,   \* bound: the requests that are under way together
  Tokens,    \* the credentials that are saved
  None,      \* no credential
  Overlap,   \* may a request begin while another is under way?
  Outages    \* operations whose database statement may fail

ASSUME StoreAssumption ==
  /\ IsFiniteSet(Threads)
  /\ None \notin Tokens
  /\ Overlap \in BOOLEAN
  /\ Outages \subseteq {"save", "get", "delete"}

VARIABLES
  cache,    \* _mem_integrations[(user, provider)] of each process
  table,    \* the row of user_integrations
  request,  \* what each thread is doing, for which process, with what token
  answer,   \* what the last get returned
  last      \* history of the last write: what it wrote, whether it ran to its
            \* end without another beside it, whether its statement worked, and
            \* the processes that hold nothing older

vars == <<cache, table, request, answer, last>>

Idle == [at |-> "idle", home |-> None, token |-> None]

At(r, place) == request[r].at = place
Active == {r \in Threads : ~At(r, "idle")}
Writers == {r \in Threads : At(r, "persist") \/ At(r, "erase")}

Init ==
  /\ cache = [p \in Processes |-> None] /\ table = None /\ answer = None
  /\ request = [r \in Threads |-> Idle]
  /\ last = [token |-> None, alone |-> TRUE, stored |-> TRUE, clean |-> Processes]

Begins(r) == At(r, "idle") /\ (Overlap \/ Active = {})

Goes(r, place, p, t) ==
  request' = [request EXCEPT ![r] = [at |-> place, home |-> p, token |-> t]]
Returns(r) == request' = [request EXCEPT ![r] = Idle]

\* A write of p begins: p forgets what it held, and the other processes hold
\* nothing older if they hold nothing and are not about to.
Writes(p, t) ==
  last' = [token |-> t, alone |-> Writers = {}, stored |-> TRUE,
           clean |-> {q \in Processes :
                        /\ q = p \/ cache[q] = None
                        /\ \A r \in Threads : At(r, "fill") => request[r].home # q}]

Fails(op) ==
  op \in Outages /\ UNCHANGED table /\ last' = [last EXCEPT !.stored = FALSE]

-----------------------------------------------------------------------------
(* save_integration: the dictionary, then the table.                       *)

Save(r, p) ==
  /\ Begins(r)
  /\ \E t \in Tokens : /\ cache' = [cache EXCEPT ![p] = t]
                       /\ Goes(r, "persist", p, t) /\ Writes(p, t)
  /\ UNCHANGED <<table, answer>>

Persist(r) ==
  /\ At(r, "persist")
  /\ (table' = request[r].token /\ UNCHANGED last) \/ Fails("save")
  /\ Returns(r)
  /\ UNCHANGED <<cache, answer>>

-----------------------------------------------------------------------------
(* get_integration: the dictionary, else the table, which is remembered.   *)

Get(r, p) ==
  /\ Begins(r)
  /\ IF cache[p] # None
     THEN answer' = cache[p] /\ UNCHANGED request
     ELSE UNCHANGED answer /\ Goes(r, "query", p, None)
  /\ UNCHANGED <<cache, table, last>>

Query(r) ==
  /\ At(r, "query")
  /\ \/ /\ table # None
        /\ Goes(r, "fill", request[r].home, table)
        /\ last' = IF Writers = {} THEN last
                   ELSE [last EXCEPT !.clean = @ \ {request[r].home}]
        /\ UNCHANGED answer
     \/ /\ table = None \/ "get" \in Outages
        /\ answer' = None /\ Returns(r) /\ UNCHANGED last
  /\ UNCHANGED <<cache, table>>

Fill(r) ==
  /\ At(r, "fill")
  /\ cache' = [cache EXCEPT ![request[r].home] = request[r].token]
  /\ answer' = request[r].token
  /\ Returns(r)
  /\ UNCHANGED <<table, last>>

-----------------------------------------------------------------------------
(* delete_integration: the dictionary, then the table.                     *)

\* Slip: the dictionary is not cleared.
DeleteFromTable(r, p) ==
  /\ Begins(r)
  /\ Goes(r, "erase", p, None) /\ Writes(p, None)
  /\ UNCHANGED <<cache, table, answer>>

Delete(r, p) ==
  /\ Begins(r)
  /\ cache' = [cache EXCEPT ![p] = None]
  /\ Goes(r, "erase", p, None) /\ Writes(p, None)
  /\ UNCHANGED <<table, answer>>

\* Slip: the row stays.
EraseNothing(r) ==
  /\ At(r, "erase")
  /\ Returns(r)
  /\ UNCHANGED <<cache, table, answer, last>>

Erase(r) ==
  /\ At(r, "erase")
  /\ (table' = None /\ UNCHANGED last) \/ Fails("delete")
  /\ Returns(r)
  /\ UNCHANGED <<cache, answer>>

-----------------------------------------------------------------------------
(* A restart loses the dictionary of a process and cuts its requests off.  *)

Restart(p) ==
  LET cut == {r \in Active : request[r].home = p} IN
  /\ cache' = [cache EXCEPT ![p] = None]
  /\ request' = [r \in Threads |-> IF r \in cut THEN Idle ELSE request[r]]
  /\ last' = [last EXCEPT !.alone = @ /\ cut \cap Writers = {},
                          !.clean = @ \cup {p}]
  /\ UNCHANGED <<table, answer>>

Next ==
  \/ \E r \in Threads :
       \/ \E p \in Processes : Save(r, p) \/ Get(r, p) \/ Delete(r, p)
       \/ Persist(r) \/ Query(r) \/ Fill(r) \/ Erase(r)
  \/ \E p \in Processes : Restart(p)

Spec == Init /\ [][Next]_vars

-----------------------------------------------------------------------------
(* Properties.                                                             *)

Places == {"idle", "persist", "query", "fill", "erase"}
Credentials == Tokens \cup {None}

\* Memories, table, requests and answers hold credentials, a request under
\* way has its process, and a delete has no token.
TypeOK ==
  /\ cache \in [Processes -> Credentials]
  /\ table \in Credentials /\ answer \in Credentials
  /\ request \in [Threads -> [at : Places, home : Processes \cup {None},
                              token : Credentials]]
  /\ \A r \in Active : request[r].home \in Processes
  /\ \A r \in Threads : At(r, "erase") => request[r].token = None
  /\ last \in [token : Credentials, alone : BOOLEAN, stored : BOOLEAN,
              clean : SUBSET Processes]

\* Has the last write returned, with no other beside it, and was it stored?
Settled == Writers = {} /\ last.alone /\ last.stored

\* However requests overlap, statements fail and processes restart: the last
\* write holds, in the table and in every memory, but for
\*   - a write beside another one, or one whose statement failed or was cut off,
\*   - the memory of another process that held a credential when it began,
\*   - a process where a get had read the row before the write had changed it.
\* So nothing but these lets a credential that was deleted or replaced live.
LastWriteHolds ==
  Settled => /\ table = last.token
             /\ \A p \in last.clean : cache[p] \in {None, last.token}

\* The answers are those of Credential, settled when no memory is excepted.
Promise == INSTANCE Credential
  WITH token <- last.token, calm <- Settled /\ last.clean = Processes
KeepsPromise == Promise!Spec
=============================================================================
