----------------------- MODULE IntegrationStoreProofs -----------------------
(***************************************************************************)
(* The credential store keeps its types, and what was written last holds   *)
(* with the exceptions that LastWriteHolds names: for any number of        *)
(* processes and threads, whatever overlaps, fails or restarts.            *)
(*                                                                         *)
(* LastWriteHolds is not inductive: it says nothing while a write is under *)
(* way, nor of a get that is about to remember the row it read.  Holds     *)
(* adds that a write that runs alone is the last one, and that in a clean  *)
(* process no get brings an older credential.                              *)
(***************************************************************************)
EXTENDS IntegrationStore, TLAPS

Fillers(q) == {r \in Threads : At(r, "fill") /\ request[r].home = q}

WriterIsLast ==
  last.alone => \A r \in Writers : /\ request[r].token = last.token
                                   /\ \A s \in Writers : s = r
TableHolds == Settled => table = last.token
CleanHold ==
  last.alone /\ last.stored =>
    \A q \in last.clean : /\ cache[q] \in {None, last.token}
                          /\ \A r \in Fillers(q) : request[r].token = last.token

Holds == WriterIsLast /\ TableHolds /\ CleanHold

IInv == TypeOK /\ Holds

-----------------------------------------------------------------------------

\* What goes through the store keeps its type, and a request under way has a
\* process.
THEOREM StoreTypes == Spec => []TypeOK
<1> USE DEF Places, Credentials, Idle
<1>1. Init => TypeOK
  BY DEF Init, TypeOK, Active, At
<1>2. TypeOK /\ [Next]_vars => TypeOK'
  <2> SUFFICES ASSUME TypeOK, [Next]_vars PROVE TypeOK'
    OBVIOUS
  <2> USE DEF TypeOK, Goes, Returns, At, Fails, Active
  <2>1. ASSUME NEW r \in Threads, NEW p \in Processes, Save(r, p) PROVE TypeOK'
    BY <2>1 DEF Save, Writes
  <2>2. ASSUME NEW r \in Threads, Persist(r) PROVE TypeOK'
    BY <2>2 DEF Persist
  <2>3. ASSUME NEW r \in Threads, NEW p \in Processes, Get(r, p) PROVE TypeOK'
    BY <2>3 DEF Get
  <2>4. ASSUME NEW r \in Threads, Query(r) PROVE TypeOK'
    BY <2>4 DEF Query
  <2>5. ASSUME NEW r \in Threads, Fill(r) PROVE TypeOK'
    BY <2>5 DEF Fill
  <2>6. ASSUME NEW r \in Threads, NEW p \in Processes, Delete(r, p) PROVE TypeOK'
    BY <2>6 DEF Delete, Writes
  <2>7. ASSUME NEW r \in Threads, Erase(r) PROVE TypeOK'
    BY <2>7 DEF Erase
  <2>8. ASSUME NEW p \in Processes, Restart(p) PROVE TypeOK'
    BY <2>8 DEF Restart
  <2>9. CASE UNCHANGED vars
    BY <2>9 DEF vars
  <2> QED
    BY <2>1, <2>2, <2>3, <2>4, <2>5, <2>6, <2>7, <2>8, <2>9 DEF Next
<1> QED
  BY <1>1, <1>2, PTL DEF Spec

-----------------------------------------------------------------------------

\* A thread that goes on writes or fills only at the place it goes to.
LEMMA GoesOn ==
  ASSUME TypeOK, NEW r \in Threads, NEW place, NEW p, NEW t, Goes(r, place, p, t)
  PROVE  /\ request'[r] = [at |-> place, home |-> p, token |-> t]
         /\ \A s \in Threads : s # r => request'[s] = request[s]
         /\ Writers' = (Writers \ {r}) \cup
                         (IF place \in {"persist", "erase"} THEN {r} ELSE {})
BY DEF TypeOK, Goes, Writers, At

\* A get that goes on leaves the writers alone.
LEMMA ReadsOn ==
  ASSUME TypeOK, NEW r \in Threads, r \notin Writers, NEW place \in {"query", "fill"},
         NEW p, NEW t, Goes(r, place, p, t)
  PROVE  /\ request'[r] = [at |-> place, home |-> p, token |-> t]
         /\ \A s \in Threads : s # r => request'[s] = request[s]
         /\ Writers' = Writers
<1>1. request' = [request EXCEPT ![r] = [at |-> place, home |-> p, token |-> t]]
  BY DEF Goes
<1>2. request'[r] = [at |-> place, home |-> p, token |-> t]
  BY <1>1 DEF TypeOK
<1>3. \A s \in Threads : s # r => request'[s] = request[s]
  BY <1>1 DEF TypeOK
<1>4. ~At(r, "persist")' /\ ~At(r, "erase")'
  BY <1>2 DEF At
<1>5. Writers' = Writers
  BY <1>3, <1>4 DEF Writers, At
<1> QED
  BY <1>2, <1>3, <1>5

LEMMA ComesBack ==
  ASSUME TypeOK, NEW r \in Threads, Returns(r)
  PROVE  /\ request'[r] = Idle
         /\ \A s \in Threads : s # r => request'[s] = request[s]
         /\ Writers' = Writers \ {r}
BY DEF TypeOK, Returns, Writers, At, Idle

\* A write that begins as Save and Delete do is the last one.
LEMMA WriteBegins ==
  ASSUME IInv, NEW r \in Threads, NEW p \in Processes, NEW t, Begins(r),
         NEW place \in {"persist", "erase"}, Goes(r, place, p, t), Writes(p, t),
         cache' = [cache EXCEPT ![p] = t]
  PROVE  Holds'
<1>1. /\ request'[r] = [at |-> place, home |-> p, token |-> t]
      /\ \A s \in Threads : s # r => request'[s] = request[s]
      /\ Writers' = Writers \cup {r} /\ r \notin Writers
  BY GoesOn DEF IInv, Begins, At, Writers
<1>2. WriterIsLast'
  <2>1. last'.token = t /\ last'.alone = (Writers = {})
    BY DEF Writes
  <2>2. ASSUME Writers = {} PROVE Writers' = {r}
    BY <1>1, <2>2
  <2>3. \A s \in Writers' : last'.alone => s = r
    BY <2>1, <2>2
  <2> QED
    BY <1>1, <2>1, <2>3 DEF WriterIsLast
<1>3. TableHolds'
  BY <1>1 DEF TableHolds, Settled
<1>4. ASSUME NEW q \in last'.clean
      PROVE  cache'[q] \in {None, t} /\ Fillers(q)' = {}
  <2>1. /\ q \in Processes /\ (q = p \/ cache[q] = None)
        /\ \A s \in Threads : At(s, "fill") => request[s].home # q
    BY <1>4 DEF Writes
  <2>2. cache'[q] \in {None, t}
    BY <2>1 DEF IInv, TypeOK
  <2>3. \A s \in Threads : ~(At(s, "fill")' /\ request'[s].home = q)
    BY <1>1, <2>1 DEF At
  <2> QED
    BY <2>2, <2>3 DEF Fillers
<1>5. CleanHold'
  BY <1>4 DEF CleanHold, Writes
<1> QED
  BY <1>2, <1>3, <1>5 DEF Holds

\* A write that returns has changed the table as it should, or is no longer
\* sound.
LEMMA WriteReturns ==
  ASSUME IInv, NEW r \in Writers, Returns(r), UNCHANGED cache,
         \/ table' = request[r].token /\ UNCHANGED last
         \/ last' = [last EXCEPT !.stored = FALSE]
  PROVE  Holds'
<1>1. /\ request'[r] = Idle /\ r \in Threads
      /\ \A s \in Threads : s # r => request'[s] = request[s]
      /\ Writers' = Writers \ {r}
  BY ComesBack DEF IInv, Writers
<1>2. /\ last'.alone = last.alone /\ last'.token = last.token
      /\ last'.clean = last.clean /\ (last'.stored => UNCHANGED last)
  BY DEF IInv, TypeOK
<1>3. WriterIsLast'
  BY <1>1, <1>2 DEF IInv, Holds, WriterIsLast
<1>4. TableHolds'
  BY <1>2 DEF IInv, Holds, WriterIsLast, TableHolds, Settled, TypeOK
<1>5. \A q : Fillers(q)' = Fillers(q) \ {r} /\ r \notin Fillers(q)
  BY <1>1 DEF Fillers, Writers, At, Idle
<1>6. CleanHold'
  BY <1>1, <1>2, <1>5 DEF IInv, Holds, CleanHold, Fillers
<1> QED
  BY <1>3, <1>4, <1>6 DEF Holds

\* What r does leaves the writes alone and brings no credential to be filled.
LEMMA Untouched ==
  ASSUME Holds, NEW r \in Threads, r \notin Writers, UNCHANGED <<cache, table, last>>,
         Writers' = Writers, \A s \in Threads : s # r => request'[s] = request[s],
         At(r, "fill")' => request'[r] = request[r]
  PROVE  Holds'
<1>1. \A s \in Writers : request'[s] = request[s]
  BY DEF Writers
<1>2. \A q : \A s \in Fillers(q)' : s \in Fillers(q) /\ request'[s] = request[s]
  BY DEF Fillers, At
<1> QED
  BY <1>1, <1>2 DEF Holds, WriterIsLast, TableHolds, Settled, CleanHold

LEMMA HoldsInductive == IInv /\ [Next]_vars => Holds'
<1> SUFFICES ASSUME IInv, [Next]_vars PROVE Holds'
  OBVIOUS
<1> TypeOK /\ WriterIsLast /\ TableHolds /\ CleanHold
  BY DEF IInv, Holds
<1>1. ASSUME NEW r \in Threads, NEW p \in Processes, Save(r, p) PROVE Holds'
  BY <1>1, WriteBegins DEF Save
<1>2. ASSUME NEW r \in Threads, Persist(r) PROVE Holds'
  BY <1>2, WriteReturns DEF Persist, Fails, Writers
<1>3. ASSUME NEW r \in Threads, NEW p \in Processes, Get(r, p) PROVE Holds'
  <2>1. UNCHANGED <<cache, table, last>> /\ r \notin Writers
    BY <1>3 DEF Get, Begins, At, Writers
  <2>2. CASE Goes(r, "query", p, None)
    <3>1. /\ Writers' = Writers
          /\ request'[r] = [at |-> "query", home |-> p, token |-> None]
          /\ \A s \in Threads : s # r => request'[s] = request[s]
      BY <2>1, <2>2, ReadsOn
    <3>2. ~At(r, "fill")'
      BY <3>1 DEF At
    <3> QED
      BY <2>1, <3>1, <3>2, Untouched DEF IInv
  <2>3. CASE UNCHANGED request
    <3>1. Writers' = Writers
      BY <2>3 DEF Writers, At
    <3> QED
      BY <2>1, <2>3, <3>1, Untouched DEF IInv
  <2> QED
    BY <1>3, <2>2, <2>3 DEF Get
<1>4. ASSUME NEW r \in Threads, Query(r) PROVE Holds'
  <2>1. UNCHANGED <<cache, table>> /\ r \notin Writers
    BY <1>4 DEF Query, At, Writers
  <2>2. CASE Returns(r) /\ UNCHANGED last
    <3>1. /\ Writers' = Writers /\ request'[r] = Idle
          /\ \A s \in Threads : s # r => request'[s] = request[s]
      BY <2>1, <2>2, ComesBack
    <3>2. ~At(r, "fill")'
      BY <3>1 DEF At, Idle
    <3> QED
      BY <2>1, <2>2, <3>1, <3>2, Untouched DEF IInv
  <2>3. CASE /\ Goes(r, "fill", request[r].home, table)
             /\ last' = IF Writers = {} THEN last
                        ELSE [last EXCEPT !.clean = @ \ {request[r].home}]
    <3>1. /\ Writers' = Writers /\ \A s \in Writers : request'[s] = request[s]
      BY <2>1, <2>3, GoesOn DEF Writers
    <3>2. /\ last'.token = last.token /\ last'.alone = last.alone
          /\ last'.stored = last.stored /\ last'.clean \subseteq last.clean
          /\ (Writers # {} => request[r].home \notin last'.clean)
          /\ (Writers = {} => UNCHANGED last)
      BY <2>3 DEF TypeOK
    <3>3. WriterIsLast' /\ TableHolds'
      BY <2>1, <3>1, <3>2 DEF WriterIsLast, TableHolds, Settled
    <3>4. ASSUME last.alone, last.stored, NEW q \in last'.clean, NEW s \in Fillers(q)'
          PROVE  request'[s].token = last.token
      <4>1. CASE s = r
        <5>1. request'[r].home = request[r].home /\ request'[r].token = table
          <6>1. request'[r] = [at |-> "fill", home |-> request[r].home,
                               token |-> table]
            BY <2>3, GoesOn
          <6> QED
            BY <6>1
        <5>2. Writers = {}
          BY <3>2, <3>4, <4>1, <5>1 DEF Fillers
        <5> QED
          BY <3>4, <4>1, <5>1, <5>2 DEF TableHolds, Settled
      <4>2. CASE s # r
        <5>1. s \in Fillers(q) /\ request'[s] = request[s]
          BY <2>3, <3>4, <4>2, GoesOn DEF Fillers, At
        <5> QED
          BY <3>2, <3>4, <5>1 DEF CleanHold
      <4> QED
        BY <4>1, <4>2
    <3>5. CleanHold'
      BY <2>1, <3>2, <3>4 DEF CleanHold
    <3> QED
      BY <3>3, <3>5 DEF Holds
  <2> QED
    BY <1>4, <2>2, <2>3 DEF Query
<1>5. ASSUME NEW r \in Threads, Fill(r) PROVE Holds'
  <2>1. UNCHANGED <<table, last>> /\ r \notin Writers /\ Returns(r)
    BY <1>5 DEF Fill, At, Writers
  <2>2. /\ Writers' = Writers /\ \A s \in Writers : request'[s] = request[s]
    BY <2>1, ComesBack DEF Writers
  <2>3. \A q : \A s \in Fillers(q)' : s \in Fillers(q) /\ request'[s] = request[s]
    BY <2>1, ComesBack DEF Fillers, At, Idle
  <2>4. ASSUME NEW q \in Processes
        PROVE  \/ cache'[q] = cache[q]
               \/ r \in Fillers(q) /\ cache'[q] = request[r].token
    BY <1>5 DEF Fill, TypeOK, Fillers
  <2>5. last.clean \subseteq Processes
    BY DEF TypeOK
  <2>6. CleanHold'
    BY <2>1, <2>3, <2>4, <2>5 DEF CleanHold
  <2> QED
    BY <2>1, <2>2, <2>6 DEF Holds, WriterIsLast, TableHolds, Settled
<1>6. ASSUME NEW r \in Threads, NEW p \in Processes, Delete(r, p) PROVE Holds'
  BY <1>6, WriteBegins DEF Delete
<1>7. ASSUME NEW r \in Threads, Erase(r) PROVE Holds'
  <2>1. CASE last' = [last EXCEPT !.stored = FALSE]
    BY <1>7, <2>1, WriteReturns DEF Erase, Writers
  <2>2. CASE table' = None /\ UNCHANGED last
    BY <1>7, <2>2, WriteReturns DEF Erase, Writers, TypeOK
  <2> QED
    BY <1>7, <2>1, <2>2 DEF Erase, Fails
<1>8. ASSUME NEW p \in Processes, Restart(p) PROVE Holds'
  <2> DEFINE cut == {r \in Active : request[r].home = p}
  <2>1. /\ \A s \in Threads : request'[s] = IF s \in cut THEN Idle ELSE request[s]
        /\ UNCHANGED table
    BY <1>8 DEF Restart
  <2>2. /\ last'.token = last.token /\ last'.stored = last.stored
        /\ last'.clean = last.clean \cup {p}
        /\ last'.alone => last.alone /\ cut \cap Writers = {}
    BY <1>8 DEF Restart, TypeOK
  <2>3. Writers' = Writers \ cut
    BY <2>1 DEF Writers, At, Idle
  <2>4. WriterIsLast'
    BY <2>1, <2>2, <2>3 DEF WriterIsLast, Writers
  <2>5. TableHolds'
    BY <2>1, <2>2, <2>3 DEF TableHolds, Settled
  <2>6. \A q : \A s \in Fillers(q)' : s \in Fillers(q) /\ request'[s] = request[s] /\ q # p
    BY <2>1 DEF Fillers, At, Idle, Active
  <2>7. cache' = [cache EXCEPT ![p] = None] /\ cache \in [Processes -> Credentials]
    BY <1>8 DEF Restart, TypeOK
  <2>8. last.clean \subseteq Processes
    BY DEF TypeOK
  <2>9. CleanHold'
    BY <2>2, <2>6, <2>7, <2>8 DEF CleanHold
  <2> QED
    BY <2>4, <2>5, <2>9 DEF Holds
<1>9. CASE UNCHANGED vars
  BY <1>9 DEF vars, Holds, WriterIsLast, TableHolds, Settled, CleanHold, Fillers,
              Writers, At
<1> QED
  BY <1>1, <1>2, <1>3, <1>4, <1>5, <1>6, <1>7, <1>8, <1>9 DEF Next

-----------------------------------------------------------------------------

\* Holds, with the types, is invariant.
THEOREM StoreInvariant == Spec => []IInv
<1>1. Init => Holds
  BY DEF Init, Holds, WriterIsLast, TableHolds, Settled, CleanHold, Fillers, Writers,
         At, Idle
<1>2. TypeOK /\ TypeOK' /\ Holds /\ [Next]_vars => Holds'
  BY HoldsInductive DEF IInv
<1>3. TypeOK /\ Holds <=> IInv
  BY DEF IInv
<1> QED
  BY <1>1, <1>2, <1>3, StoreTypes, PTL DEF Spec

\* Whatever overlaps, fails and restarts, on any number of processes: nothing
\* but the named exceptions lets a credential that was deleted or replaced live.
THEOREM LastWriteIsKept == Spec => []LastWriteHolds
<1>1. IInv => LastWriteHolds
  BY DEF IInv, Holds, TableHolds, CleanHold, LastWriteHolds, Settled
<1> QED
  BY <1>1, StoreInvariant, PTL

\* Every answer is what Credential promises: once the last write has settled in
\* every process, nobody is given an older credential.
THEOREM AnswersAreSettled == Spec => KeepsPromise
<1> USE DEF Promise!Next, Promise!vars, Promise!Credentials, Credentials
<1>1. Init => Promise!Init
  BY DEF Init, Promise!Init, Settled, Writers, At, Idle
<1>2. IInv /\ IInv' /\ [Next]_vars => [Promise!Next]_(Promise!vars)
  <2> SUFFICES ASSUME IInv, IInv', [Next]_vars PROVE [Promise!Next]_(Promise!vars)
    OBVIOUS
  <2> DEFINE Calm == Settled /\ last.clean = Processes
  <2> TypeOK /\ TypeOK'
    BY DEF IInv
  <2>1. ASSUME NEW r \in Threads, NEW p \in Processes, NEW t \in Credentials,
               NEW place \in {"persist", "erase"},
               Goes(r, place, p, t), Writes(p, t), UNCHANGED answer
        PROVE  Promise!Write
    <3>1. r \in Writers'
      BY <2>1, GoesOn
    <3>2. Calm' = FALSE
      BY <3>1 DEF Settled
    <3>3. last'.token = t
      BY <2>1 DEF Writes
    <3> QED
      BY <2>1, <3>2, <3>3 DEF Promise!Write
  <2>2. ASSUME UNCHANGED answer, last'.token = last.token, Calm => Calm'
        PROVE  [Promise!Next]_(Promise!vars)
    BY <2>2 DEF Promise!Settle, Settled
  <2>3. ASSUME UNCHANGED last, Writers' = Writers, answer' \in Credentials,
               Calm => answer' \in {None, last.token}
        PROVE  Promise!Answer
    <3>1. Calm' = Calm
      BY <2>3 DEF Settled
    <3> QED
      BY <2>3, <3>1 DEF Promise!Answer
  <2>4. ASSUME NEW r \in Threads, NEW p \in Processes, Save(r, p) PROVE Promise!Write
    BY <2>1, <2>4 DEF Save
  <2>5. ASSUME NEW r \in Threads, Persist(r) PROVE [Promise!Next]_(Promise!vars)
    <3>1. r \in Writers
      BY <2>5 DEF Persist, Writers
    <3> QED
      BY <2>2, <2>5, <3>1 DEF Persist, Fails, Settled, TypeOK
  <2>6. ASSUME NEW r \in Threads, NEW p \in Processes, Get(r, p)
        PROVE  [Promise!Next]_(Promise!vars)
    <3>1. UNCHANGED last /\ Writers' = Writers
      <4>1. r \notin Writers
        BY <2>6 DEF Get, Writers, Begins, At
      <4>2. CASE Goes(r, "query", p, None)
        BY <2>6, <4>1, <4>2, ReadsOn DEF Get
      <4>3. CASE UNCHANGED request
        BY <2>6, <4>3 DEF Get, Writers, At
      <4> QED
        BY <2>6, <4>2, <4>3 DEF Get
    <3>2. CASE answer' = cache[p]
      <4>1. cache[p] \in Credentials /\ (Calm => cache[p] \in {None, last.token})
        BY DEF TypeOK, IInv, Holds, CleanHold, Settled
      <4> QED
        BY <2>3, <3>1, <3>2, <4>1
    <3>3. CASE UNCHANGED answer
      BY <2>2, <3>1, <3>3 DEF Settled
    <3> QED
      BY <2>6, <3>2, <3>3 DEF Get
  <2>7. ASSUME NEW r \in Threads, Query(r) PROVE [Promise!Next]_(Promise!vars)
    <3>0. Writers' = Writers
      <4>1. r \notin Writers
        BY <2>7 DEF Query, Writers, At
      <4>2. CASE Goes(r, "fill", request[r].home, table)
        BY <4>1, <4>2, ReadsOn
      <4>3. CASE Returns(r)
        BY <4>1, <4>3, ComesBack
      <4> QED
        BY <2>7, <4>2, <4>3 DEF Query
    <3>1. CASE answer' = None /\ UNCHANGED last
      BY <2>3, <3>0, <3>1
    <3>2. CASE /\ UNCHANGED answer
               /\ last' = IF Writers = {} THEN last
                          ELSE [last EXCEPT !.clean = @ \ {request[r].home}]
      BY <2>2, <3>0, <3>2 DEF Settled, TypeOK
    <3> QED
      BY <2>7, <3>1, <3>2 DEF Query
  <2>8. ASSUME NEW r \in Threads, Fill(r) PROVE Promise!Answer
    <3>1. UNCHANGED last /\ Writers' = Writers /\ answer' = request[r].token
      BY <2>8, ComesBack DEF Fill, Writers, At
    <3>2. request[r].home \in Processes
      BY <2>8 DEF Fill, At, TypeOK, Active
    <3>3. Calm => request[r].token = last.token
      BY <2>8, <3>2 DEF IInv, Holds, CleanHold, Settled, Fill, Fillers
    <3> QED
      BY <2>3, <3>1, <3>3 DEF TypeOK
  <2>9. ASSUME NEW r \in Threads, NEW p \in Processes, Delete(r, p) PROVE Promise!Write
    BY <2>1, <2>9 DEF Delete
  <2>10. ASSUME NEW r \in Threads, Erase(r) PROVE [Promise!Next]_(Promise!vars)
    <3>1. r \in Writers
      BY <2>10 DEF Erase, Writers
    <3> QED
      BY <2>2, <2>10, <3>1 DEF Erase, Fails, Settled, TypeOK
  <2>11. ASSUME NEW p \in Processes, Restart(p) PROVE [Promise!Next]_(Promise!vars)
    <3>1. Writers = {} => Writers' = {}
      BY <2>11 DEF Restart, Writers, At, Idle
    <3>2. /\ last'.token = last.token /\ last'.stored = last.stored
          /\ last'.clean = last.clean \cup {p}
          /\ (Writers = {} => last'.alone = last.alone)
      BY <2>11 DEF Restart, TypeOK
    <3>3. Calm => Calm'
      BY <3>1, <3>2 DEF Settled
    <3> QED
      BY <2>2, <2>11, <3>2, <3>3 DEF Restart
  <2>12. CASE UNCHANGED vars
    BY <2>12 DEF vars, Settled, Writers, At
  <2> QED
    BY <2>4, <2>5, <2>6, <2>7, <2>8, <2>9, <2>10, <2>11, <2>12 DEF Next
<1> QED
  BY <1>1, <1>2, StoreInvariant, PTL DEF Spec, KeepsPromise, Promise!Spec
=============================================================================
