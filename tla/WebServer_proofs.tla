-------------------------- MODULE WebServer_proofs --------------------------
(***************************************************************************)
(* Proofs about WebServer, for any numbers of frontends, sessions, worker  *)
(* processes, connections, queries and faults: no query is executed twice  *)
(* or outside of its session, and no client gets the response to another's *)
(* query.                                                                  *)
(***************************************************************************)
EXTENDS WebServer, FiniteSetTheorems, WellFoundedInduction, TLAPS

Page == {"login", "error", "bye", "response", "eof"}
Reply == [page : Page, of : Query \cup {Nil}]
Process == [st : {"none", "start", "bind", "ready", "closing", "gone"},
            sess : Session \cup {Nil}, by : Frontend \cup {Nil}, told : BOOLEAN]
Connection == [f : Frontend \cup {Nil}, p : Pid \cup {Nil},
               fe : {"none", "open", "closed"},
               wk : {"none", "pending", "open", "closed", "refused"},
               in : Query \cup {Nil}, out : Query \cup {Nil}]
Place == [at : {"idle", "spawn", "wait", "connect", "respawn", "pid", "save", "resp", "body"},
          q : Query \cup {Nil}, sess : Session \cup {Nil},
          tries : {0, 1}, pid : Pid \cup {Nil}]

\* The type of the variables that the invariant is about.
WebType ==
  /\ file \in SUBSET Session
  /\ path \in [Session -> Pid \cup {Nil}]
  /\ worker \in [Pid -> Process]
  /\ conn \in [Conn -> Connection]
  /\ work \in [Frontend -> [Session -> Entry \cup {Nil}]]
  /\ fe \in [Frontend -> Place]
  /\ query \in [Query -> Request \cup {Nil}]
  /\ answer \in [Query -> Reply \cup {Nil}]
  /\ ran \in [Query -> Seq(Session)]

\* A worker has its session by the time it binds a socket: the socket that is found
\* under the name of a session is that of a worker of the session.
WorkersNamed ==
  /\ \A p \in Pid : worker[p].st = "none" => worker[p].sess = Nil
  /\ \A p \in Pid : worker[p].st \in {"bind", "ready", "closing"} => worker[p].sess \in Session
  /\ \A s \in Session : path[s] # Nil => worker[path[s]].sess = s

Waits(f, s) == fe[f].at \in {"resp", "body"} /\ fe[f].sess = s

\* An entry of workSockets has a connection to a worker of the session, on which nothing
\* is left to read unless the frontend waits for it.
EntryOK(f, s) ==
  work[f][s] # Nil =>
    /\ work[f][s].k = Nil => fe[f].at \in {"connect", "respawn"} /\ fe[f].sess = s
    /\ work[f][s].k # Nil =>
         LET c == conn[work[f][s].k] IN
         /\ c.fe # "none"
         /\ c.p \in Pid /\ worker[c.p].sess = s
         /\ IF Waits(f, s) THEN /\ c.in \in {Nil, fe[f].q} /\ c.out \in {Nil, fe[f].q}
                                /\ c.out # Nil => c.in = Nil
                                /\ fe[f].at = "body" => c.out # Nil
                           ELSE c.in = Nil /\ c.out = Nil

\* No two entries, of one frontend or of two, share a connection.
Unshared ==
  \A f, g \in Frontend : \A s, t \in Session :
    work[f][s] # Nil /\ work[g][t] # Nil /\ work[f][s].k = work[g][t].k /\ work[f][s].k # Nil
      => f = g /\ s = t

\* A frontend that is not idle has a query, and the session that its cookie names.
FrontOK(f) ==
  /\ fe[f].at = "idle" => fe[f].q = Nil
  /\ fe[f].at # "idle" =>
       /\ fe[f].q \in Query /\ query[fe[f].q] # Nil
       /\ query[fe[f].q].sess # Nil => fe[f].sess = query[fe[f].q].sess
  /\ fe[f].at \in {"connect", "respawn", "pid", "save", "resp", "body"} => fe[f].sess \in Session
  /\ fe[f].at \in {"connect", "pid", "save", "resp", "body"} => work[f][fe[f].sess] # Nil
  /\ fe[f].at = "wait" => /\ fe[f].pid \in Pid /\ worker[fe[f].pid].st # "none"
                          /\ fe[f].sess # Nil => worker[fe[f].pid].sess = fe[f].sess

\* Where a frontend has not sent its query yet.
Unsent == {"spawn", "wait", "connect", "respawn", "pid", "save"}

\* A query that a frontend has still to send is on no connection and was not executed.
UnsentOnce ==
  /\ \A f \in Frontend : fe[f].at \in Unsent =>
       ran[fe[f].q] = << >> /\ \A k \in Conn : conn[k].in # fe[f].q
  /\ \A f, g \in Frontend : fe[f].at # "idle" /\ fe[f].q = fe[g].q => f = g

\* A query that a worker has still to read is on one connection alone, to a worker of
\* its session, and was not executed.
SentOnce ==
  \A k \in Conn : conn[k].in # Nil =>
    /\ query[conn[k].in] # Nil /\ conn[k].wk # "pending" /\ conn[k].p \in Pid
    /\ query[conn[k].in].sess # Nil => worker[conn[k].p].sess = query[conn[k].in].sess
    /\ conn[k].wk = "open" =>
         /\ ran[conn[k].in] = << >>
         /\ \A j \in Conn : conn[j].in = conn[k].in /\ conn[j].wk = "open" => j = k

\* Queries are numbered as they come, and one that did not come was not executed.
Numbered ==
  /\ \E n \in 0 .. MaxQuery : {q \in Query : query[q] # Nil} = 1 .. n
  /\ \A q \in Query : query[q] = Nil => ran[q] = << >>

\* The inductive invariant.
IInv ==
  /\ WebType /\ WorkersNamed /\ Unshared /\ UnsentOnce /\ SentOnce /\ Numbered
  /\ \A f \in Frontend : FrontOK(f) /\ \A s \in Session : EntryOK(f, s)
  /\ AtMostOnce /\ OwnAnswer /\ RanInSession
-----------------------------------------------------------------------------
(* What most steps leave as it is *)

\* The least of some numbers is one of them.
LEMMA LeastIsOne ==
  ASSUME NEW S \in SUBSET Nat, S # {}
  PROVE  Min(S) \in S
<1>1. PICK m \in S : \A n \in S : <<n, m>> \notin OpToRel(<, Nat)
  BY NatLessThanWellFounded, WFMin
<1>2. ASSUME NEW n \in S PROVE m <= n
  <2>1. m \in Nat /\ n \in Nat  OBVIOUS
  <2>2. ~(n < m)
    <3> SUFFICES ASSUME n < m PROVE FALSE  OBVIOUS
    <3>1. <<n, m>> \in OpToRel(<, Nat)  BY <2>1 DEF OpToRel
    <3> QED  BY <1>1, <3>1
  <2> QED  BY <2>1, <2>2
<1> QED  BY <1>2 DEF Min

\* Processes are not reused, and a worker keeps its session.
WorkersKept ==
  \A p \in Pid : /\ worker[p].st # "none" => worker'[p].st # "none"
                 /\ worker[p].sess # Nil => worker'[p].sess = worker[p].sess

\* Nothing is written to connection k, nor read from it.
Untouched(k) ==
  /\ conn'[k].p = conn[k].p /\ conn'[k].in = conn[k].in /\ conn'[k].out = conn[k].out
  /\ conn[k].fe # "none" => conn'[k].fe # "none"

\* No query is put on connection k, and a worker that has closed it does not open it.
NothingSent(k) ==
  \/ conn'[k].in = Nil
  \/ /\ conn'[k].in = conn[k].in /\ conn'[k].p = conn[k].p
     /\ conn'[k].wk = "pending" => conn[k].wk = "pending"
     /\ conn'[k].wk = "open" => conn[k].wk \in {"pending", "open"}

\* A frontend that takes no step keeps its place, when others use their connections.
LEMMA OthersKept ==
  ASSUME IInv, WorkersKept, NEW g \in Frontend, fe'[g] = fe[g], work'[g] = work[g],
         \A q \in Query : query[q] # Nil => query'[q] = query[q],
         \A s \in Session : work[g][s] # Nil /\ work[g][s].k # Nil => Untouched(work[g][s].k)
  PROVE  FrontOK(g)' /\ \A s \in Session : EntryOK(g, s)'
<1>1. WebType /\ FrontOK(g) /\ \A s \in Session : EntryOK(g, s)  BY DEF IInv
<1>2. Nil \notin Query /\ Nil \notin Session  BY NilAssumption, SessionAssumption
<1>3. ASSUME NEW s \in Session, work[g][s] # Nil, work[g][s].k # Nil
      PROVE  LET k == work[g][s].k IN
             /\ conn'[k].in = conn[k].in /\ conn'[k].out = conn[k].out
             /\ conn'[k].p = conn[k].p /\ conn'[k].fe # "none"
             /\ conn[k].p \in Pid /\ worker'[conn[k].p].sess = s
  BY <1>1, <1>2, <1>3 DEF EntryOK, Untouched, WorkersKept
<1>4. ASSUME NEW s \in Session PROVE EntryOK(g, s)'
  <2>1. CASE work[g][s] = Nil  BY <2>1 DEF EntryOK
  <2>2. CASE work[g][s] # Nil /\ work[g][s].k = Nil  BY <1>1, <2>2 DEF EntryOK
  <2>3. CASE work[g][s] # Nil /\ work[g][s].k # Nil
    <3> PICK k, c : k = work[g][s].k /\ c = conn[k]  OBVIOUS
    <3>1. IF Waits(g, s) THEN /\ c.in \in {Nil, fe[g].q} /\ c.out \in {Nil, fe[g].q}
                              /\ c.out # Nil => c.in = Nil
                              /\ fe[g].at = "body" => c.out # Nil
                         ELSE c.in = Nil /\ c.out = Nil
      BY <1>1, <2>3 DEF EntryOK
    <3>2. /\ conn'[k].fe # "none" /\ conn'[k].in = c.in /\ conn'[k].out = c.out
          /\ conn'[k].p \in Pid /\ worker'[conn'[k].p].sess = s
      BY <1>3, <2>3
    <3>3. work'[g][s] = work[g][s] /\ fe'[g] = fe[g]  OBVIOUS
    <3> QED  BY <2>3, <3>1, <3>2, <3>3 DEF EntryOK, Waits
  <2> QED  BY <2>1, <2>2, <2>3
<1>5. FrontOK(g)'
  BY <1>1, <1>2 DEF FrontOK, WorkersKept
<1> QED  BY <1>4, <1>5

\* No query is sent or executed by a step that puts none on a connection.
LEMMA QueriesKept ==
  ASSUME IInv, WorkersKept, query' = query, ran' = ran,
         \A k \in Conn : NothingSent(k),
         \A f \in Frontend : /\ fe'[f].at \in Unsent => fe[f].at \in Unsent
                             /\ fe'[f].at # "idle" => fe[f].at # "idle" /\ fe'[f].q = fe[f].q
                             /\ fe'[f].q \in {Nil, fe[f].q}
  PROVE  UnsentOnce' /\ SentOnce' /\ Numbered' /\ AtMostOnce' /\ RanInSession'
<1>0. /\ WebType /\ UnsentOnce /\ SentOnce /\ Numbered /\ AtMostOnce /\ RanInSession
      /\ \A f \in Frontend : FrontOK(f)
      /\ Nil \notin Query /\ Nil \notin Session
  BY NilAssumption, SessionAssumption DEF IInv
<1>1. UnsentOnce'
  <2>1. ASSUME NEW f \in Frontend, fe'[f].at \in Unsent
        PROVE  ran'[fe'[f].q] = << >> /\ \A k \in Conn : conn'[k].in # fe'[f].q
    <3>1. fe[f].at \in Unsent /\ fe'[f].q = fe[f].q /\ fe[f].q \in Query
      BY <1>0, <2>1 DEF Unsent, FrontOK
    <3> QED  BY <1>0, <3>1 DEF UnsentOnce, NothingSent
  <2>2. ASSUME NEW f \in Frontend, NEW g \in Frontend, fe'[f].at # "idle", fe'[f].q = fe'[g].q
        PROVE  f = g
    <3>1. fe[f].at # "idle" /\ fe'[f].q = fe[f].q /\ fe[f].q \in Query
      BY <1>0, <2>2 DEF FrontOK
    <3> QED  BY <1>0, <2>2, <3>1, ZenonT(30) DEF UnsentOnce, FrontOK
  <2> QED  BY <2>1, <2>2 DEF UnsentOnce
<1>2. SentOnce'
  BY <1>0 DEF SentOnce, NothingSent, WorkersKept
<1>3. Numbered' /\ AtMostOnce' /\ RanInSession'
  BY <1>0 DEF Numbered, AtMostOnce, RanInSession
<1> QED  BY <1>1, <1>2, <1>3

\* A step of a worker that executes no query.
LEMMA WorkerStep ==
  ASSUME IInv, WebType', WorkersNamed', WorkersKept, UNCHANGED <<work, fe, query, answer, ran>>,
         \A k \in Conn : Untouched(k) /\ NothingSent(k)
  PROVE  IInv'
<1>1. \A f \in Frontend : FrontOK(f)' /\ \A s \in Session : EntryOK(f, s)'
  <2> SUFFICES ASSUME NEW f \in Frontend PROVE FrontOK(f)' /\ \A s \in Session : EntryOK(f, s)'
    OBVIOUS
  <2>1. \A s \in Session : work[f][s] # Nil /\ work[f][s].k # Nil => work[f][s].k \in Conn
    BY DEF IInv, WebType, Entry
  <2> QED  BY <2>1, OthersKept
<1>2. UnsentOnce' /\ SentOnce' /\ Numbered' /\ AtMostOnce' /\ RanInSession'
  BY QueriesKept
<1>3. Unshared' /\ OwnAnswer'  BY DEF IInv, Unshared, OwnAnswer
<1> QED  BY <1>1, <1>2, <1>3 DEF IInv

\* A step of a frontend that reads no query and sends none: it concerns no entry but its
\* own, and no connection but those of its entries and those that nobody has opened.
LEMMA FrontendStep ==
  ASSUME IInv, WebType', WorkersNamed', WorkersKept, query' = query, ran' = ran,
         NEW f \in Frontend,
         \A g \in Frontend \ {f} : fe'[g] = fe[g] /\ work'[g] = work[g],
         \A k \in Conn : conn[k].fe # "none" =>
            Untouched(k) \/ \E s \in Session : work[f][s] # Nil /\ work[f][s].k = k,
         \A k \in Conn : NothingSent(k),
         fe'[f].at \in Unsent => fe[f].at \in Unsent,
         fe'[f].at # "idle" => fe[f].at # "idle" /\ fe'[f].q = fe[f].q,
         FrontOK(f)', \A s \in Session : EntryOK(f, s)', Unshared', OwnAnswer'
  PROVE  IInv'
<1>1. ASSUME NEW g \in Frontend
      PROVE  FrontOK(g)' /\ \A s \in Session : EntryOK(g, s)'
  <2>1. CASE g = f  BY <2>1
  <2>2. CASE g # f
    <3>1. ASSUME NEW s \in Session, work[g][s] # Nil, work[g][s].k # Nil
          PROVE  Untouched(work[g][s].k)
      <4>1. work[g][s].k \in Conn /\ conn[work[g][s].k].fe # "none"
        <5>1. WebType /\ EntryOK(g, s)  BY DEF IInv
        <5>2. work[g][s] \in Entry  BY <3>1, <5>1 DEF WebType
        <5> QED  BY <3>1, <5>1, <5>2 DEF Entry, EntryOK
      <4>2. ~ \E t \in Session : work[f][t] # Nil /\ work[f][t].k = work[g][s].k
        BY <2>2, <3>1 DEF IInv, Unshared
      <4> QED  BY <4>1, <4>2
    <3> QED  BY <2>2, <3>1, OthersKept
  <2> QED  BY <2>1, <2>2
<1>2. UnsentOnce' /\ SentOnce' /\ Numbered' /\ AtMostOnce' /\ RanInSession'
  <2>1. \A g \in Frontend : /\ fe'[g].at \in Unsent => fe[g].at \in Unsent
                            /\ fe'[g].at # "idle" => fe[g].at # "idle" /\ fe'[g].q = fe[g].q
                            /\ fe'[g].q \in {Nil, fe[g].q}
    BY DEF FrontOK
  <2> QED  BY <2>1, QueriesKept
<1> QED  BY <1>1, <1>2 DEF IInv
-----------------------------------------------------------------------------
(* Frontends *)

\* The entries of some sessions are closed, and those of the others kept.
LEMMA CloseFacts ==
  ASSUME IInv, NEW f \in Frontend, NEW S \in SUBSET Session, Close(f, S)
  PROVE  /\ work' \in [Frontend -> [Session -> Entry \cup {Nil}]]
         /\ conn' \in [Conn -> Connection]
         /\ \A g \in Frontend \ {f} : work'[g] = work[g]
         /\ \A s \in Session : work'[f][s] = IF s \in S THEN Nil ELSE work[f][s]
         /\ \A k \in Conn : Untouched(k) /\ NothingSent(k)
<1> DEFINE gone == {s \in S : work[f][s] # Nil}
<1>1. work \in [Frontend -> [Session -> Entry \cup {Nil}]]
  BY DEF IInv, WebType
<1>2. work' = [work EXCEPT ![f] = [s \in Session |-> IF s \in gone THEN Nil ELSE work[f][s]]]
  BY DEF Close
<1>3. conn' = [k \in Conn |-> IF \E s \in gone : work[f][s].k = k
                              THEN [conn[k] EXCEPT !.fe = "closed"] ELSE conn[k]]
  BY DEF Close
<1>4. \A s \in Session : work'[f][s] = IF s \in S THEN Nil ELSE work[f][s]
  BY <1>1, <1>2
<1>5. work' \in [Frontend -> [Session -> Entry \cup {Nil}]]
  BY <1>1, <1>2
<1>6. \A g \in Frontend \ {f} : work'[g] = work[g]  BY <1>1, <1>2
<1> HIDE DEF gone
<1>7. ASSUME NEW k \in Conn
      PROVE  conn'[k] \in Connection /\ Untouched(k) /\ NothingSent(k)
  <2>1. conn[k] \in Connection  BY DEF IInv, WebType
  <2>2. CASE conn'[k] = conn[k]  BY <2>1, <2>2 DEF Untouched, NothingSent
  <2>3. CASE conn'[k] = [conn[k] EXCEPT !.fe = "closed"]
    BY <2>1, <2>3 DEF Untouched, NothingSent, Connection
  <2> QED  BY <1>3, <2>2, <2>3
<1>8. DOMAIN conn' = Conn /\ conn' = [k \in Conn |-> conn'[k]]  BY <1>3
<1> QED  BY <1>4, <1>5, <1>6, <1>7, <1>8

\* Entries that are kept, or lose their connection, share none.
LEMMA UnsharedKept ==
  ASSUME IInv,
         \A g \in Frontend, s \in Session : work'[g][s] # Nil /\ work'[g][s].k # Nil =>
            work[g][s] # Nil /\ work[g][s].k = work'[g][s].k
  PROVE  Unshared'
BY DEF IInv, Unshared

\* A client that is not given a response is not given another's.
LEMMA AnswersOwn ==
  ASSUME IInv, NEW f \in Frontend, fe[f].at # "idle",
         NEW page \in Page, NEW of \in Query \cup {Nil},
         Answers(f, page, of), page = "response" => of = fe[f].q
  PROVE  /\ OwnAnswer'
         /\ answer' \in [Query -> Reply \cup {Nil}]
         /\ fe' \in [Frontend -> Place]
         /\ fe'[f].at = "idle" /\ fe'[f].q = Nil
         /\ \A g \in Frontend \ {f} : fe'[g] = fe[g]
<1>1. /\ WebType /\ OwnAnswer /\ fe[f].q \in Query
      /\ answer' = [answer EXCEPT ![fe[f].q] = [page |-> page, of |-> of]]
      /\ fe' = [fe EXCEPT ![f] = Idle]
  BY DEF IInv, Answers, FrontOK
<1>2. OwnAnswer'
  <2> SUFFICES ASSUME NEW q \in Query, answer'[q] # Nil, answer'[q].page = "response"
               PROVE  answer'[q].of = q
    BY DEF OwnAnswer
  <2>1. CASE q = fe[f].q
    <3>1. answer'[q] = [page |-> page, of |-> of]  BY <1>1, <2>1 DEF WebType
    <3> QED  BY <2>1, <3>1
  <2>2. CASE q # fe[f].q
    <3>1. answer'[q] = answer[q]  BY <1>1, <2>2 DEF WebType
    <3> QED  BY <1>1, <3>1 DEF OwnAnswer
  <2> QED  BY <2>1, <2>2
<1> QED  BY <1>1, <1>2 DEF WebType, Idle, Reply, Place

\* A frontend that answers its client keeps entries that are ready for the next query.
LEMMA GoesIdle ==
  ASSUME IInv, NEW f \in Frontend, fe[f].at # "idle",
         NEW page \in Page, NEW of \in Query \cup {Nil},
         Answers(f, page, of), page = "response" => of = fe[f].q,
         UNCHANGED <<worker, query, ran, file>>,
         path' \in [Session -> Pid \cup {Nil}],
         \A s \in Session : path'[s] \in {Nil, path[s]},
         work' \in [Frontend -> [Session -> Entry \cup {Nil}]],
         conn' \in [Conn -> Connection],
         \A g \in Frontend \ {f} : work'[g] = work[g],
         \A s \in Session : work'[f][s] # Nil =>
            /\ work'[f][s] = work[f][s] /\ work[f][s].k # Nil
            /\ LET k == work[f][s].k IN
               /\ conn'[k].in = Nil /\ conn'[k].out = Nil
               /\ conn'[k].p = conn[k].p /\ conn'[k].fe # "none",
         \A k \in Conn : conn[k].fe # "none" =>
            Untouched(k) \/ \E s \in Session : work[f][s] # Nil /\ work[f][s].k = k,
         \A k \in Conn : NothingSent(k)
  PROVE  IInv'
<1>1. /\ OwnAnswer'
      /\ answer' \in [Query -> Reply \cup {Nil}]
      /\ fe' \in [Frontend -> Place]
      /\ fe'[f].at = "idle" /\ fe'[f].q = Nil
      /\ \A g \in Frontend \ {f} : fe'[g] = fe[g]
  BY AnswersOwn
<1>2. WebType'  BY <1>1 DEF IInv, WebType
<1>3. WorkersNamed' /\ WorkersKept  BY DEF IInv, WorkersNamed, WorkersKept
<1>4. FrontOK(f)'  BY <1>1 DEF FrontOK
<1>5. ASSUME NEW s \in Session PROVE EntryOK(f, s)'
  <2>1. ~Waits(f, s)'  BY <1>1 DEF Waits
  <2>2. CASE work'[f][s] = Nil  BY <2>2 DEF EntryOK
  <2>3. CASE work'[f][s] # Nil
    <3> PICK k : k = work[f][s].k  OBVIOUS
    <3>1. EntryOK(f, s)  BY DEF IInv
    <3>2. /\ work'[f][s] = work[f][s] /\ k # Nil
          /\ conn'[k].in = Nil /\ conn'[k].out = Nil
          /\ conn'[k].p = conn[k].p /\ conn'[k].fe # "none"
      BY <2>3
    <3>3. conn[k].p \in Pid /\ worker[conn[k].p].sess = s  BY <2>3, <3>1, <3>2 DEF EntryOK
    <3>4. worker' = worker  OBVIOUS
    <3> HIDE <3>1
    <3> QED  BY <2>1, <3>2, <3>3, <3>4 DEF EntryOK
  <2> QED  BY <2>2, <2>3
<1>6. Unshared'
  <2>1. \A g \in Frontend, s \in Session : work'[g][s] # Nil /\ work'[g][s].k # Nil =>
          work[g][s] # Nil /\ work[g][s].k = work'[g][s].k
    OBVIOUS
  <2> QED  BY <2>1, UnsharedKept
<1>7. fe'[f].at \notin Unsent  BY <1>1 DEF Unsent
<1> QED  BY <1>1, <1>2, <1>3, <1>4, <1>5, <1>6, <1>7, FrontendStep

\* The entries of a frontend that has not sent its query are ready for it, those of
\* other sessions always are.
LEMMA EntryReady ==
  ASSUME IInv, NEW f \in Frontend, NEW s \in Session, work[f][s] # Nil,
         s # fe[f].sess \/ fe[f].at \notin {"connect", "respawn", "resp", "body"}
  PROVE  /\ work[f][s].k \in Conn /\ work[f][s].k # Nil
         /\ LET c == conn[work[f][s].k] IN
            /\ c.fe # "none" /\ c.in = Nil /\ c.out = Nil
            /\ c.p \in Pid /\ worker[c.p].sess = s
<1>1. WebType /\ EntryOK(f, s)  BY DEF IInv
<1>2. work[f][s].k \in Conn \cup {Nil}  BY <1>1 DEF WebType, Entry
<1> QED  BY <1>1, <1>2 DEF EntryOK, Waits

\* A query fails: the client is told, and the entry closed.
LEMMA FailsInv ==
  ASSUME IInv, NEW f \in Frontend, fe[f].at # "idle", Fails(f), fe[f].sess \in Session,
         UNCHANGED <<worker, query, ran, file, path>>
  PROVE  IInv'
<1>1. Close(f, {fe[f].sess}) /\ Answers(f, "error", Nil)  BY DEF Fails
<1>2. /\ work' \in [Frontend -> [Session -> Entry \cup {Nil}]]
      /\ conn' \in [Conn -> Connection]
      /\ \A g \in Frontend \ {f} : work'[g] = work[g]
      /\ \A s \in Session : work'[f][s] = IF s = fe[f].sess THEN Nil ELSE work[f][s]
      /\ \A k \in Conn : Untouched(k) /\ NothingSent(k)
  <2>1. PICK S : S = {fe[f].sess}  OBVIOUS
  <2>2. S \in SUBSET Session /\ Close(f, S)  BY <1>1, <2>1 DEF Close
  <2> QED  BY <2>1, <2>2, CloseFacts
<1>3. ASSUME NEW s \in Session, work'[f][s] # Nil
      PROVE  /\ work'[f][s] = work[f][s] /\ work[f][s].k # Nil
             /\ LET k == work[f][s].k IN
                /\ conn'[k].in = Nil /\ conn'[k].out = Nil
                /\ conn'[k].p = conn[k].p /\ conn'[k].fe # "none"
  <2>1. s # fe[f].sess /\ work'[f][s] = work[f][s] /\ work[f][s] # Nil  BY <1>2, <1>3
  <2>2. EntryOK(f, s)  BY DEF IInv
  <2> QED  BY <1>2, <2>1, EntryReady DEF Untouched
<1>4. path \in [Session -> Pid \cup {Nil}]  BY DEF IInv, WebType
<1>5. "error" \in Page /\ Nil \in Query \cup {Nil}  BY DEF Page
<1> QED  BY <1>1, <1>2, <1>3, <1>4, <1>5, GoesIdle

\* A worker process is forked.
LEMMA CreateWorkerInv ==
  ASSUME IInv, NEW f \in Frontend, CreateWorker(f)
  PROVE  IInv'
<1>0. WebType /\ WorkersNamed /\ FrontOK(f) /\ Nil \notin Session /\ Nil \notin Pid
  BY SessionAssumption, NilAssumption DEF IInv
<1> DEFINE p == Min({x \in Pid : worker[x].st = "none"})
<1>1. p \in Pid /\ worker[p].st = "none"
  <2> DEFINE S == {x \in Pid : worker[x].st = "none"}
  <2>1. S \in SUBSET Nat /\ S # {}  BY BoundAssumption DEF CreateWorker, Pid
  <2> HIDE DEF S
  <2>2. Min(S) \in S  BY <2>1, LeastIsOne
  <2> QED  BY <2>2 DEF S
<1>2. /\ fe[f].at = "spawn"
      /\ worker' = [worker EXCEPT ![p] =
           [NoWorker EXCEPT !.st = "start", !.by = f, !.sess = fe[f].sess]]
      /\ fe' = [fe EXCEPT ![f].at = "wait", ![f].pid = p]
      /\ UNCHANGED <<file, path, conn, work, query, answer, ran>>
  BY DEF CreateWorker, At, diskvars, clientvars
<1> HIDE DEF p
<1>3. worker'[p] = [st |-> "start", sess |-> fe[f].sess, by |-> f, told |-> FALSE]
      /\ \A x \in Pid \ {p} : worker'[x] = worker[x]
  BY <1>0, <1>1, <1>2 DEF WebType, NoWorker
<1>4. /\ fe'[f].at = "wait" /\ fe'[f].pid = p /\ fe'[f].q = fe[f].q /\ fe'[f].sess = fe[f].sess
      /\ fe'[f] \in Place
      /\ \A g \in Frontend \ {f} : fe'[g] = fe[g]
  BY <1>0, <1>1, <1>2, ZenonT(30) DEF WebType, Place
<1>5. fe[f].sess \in Session \cup {Nil}  BY <1>0 DEF WebType, Place
<1>6. worker' \in [Pid -> Process] /\ fe' \in [Frontend -> Place]
  <2>1. worker'[p] \in Process  BY <1>3, <1>5 DEF Process
  <2>2. \A x \in Pid : worker'[x] \in Process  BY <1>0, <1>3, <2>1 DEF WebType
  <2>3. \A g \in Frontend : fe'[g] \in Place  BY <1>0, <1>4 DEF WebType
  <2> QED  BY <1>0, <1>2, <2>2, <2>3 DEF WebType
<1>7. WebType'  BY <1>0, <1>2, <1>6 DEF WebType
<1>8. WorkersKept  BY <1>0, <1>1, <1>3 DEF WorkersKept, WorkersNamed
<1>9. WorkersNamed'
  <2>1. ASSUME NEW s \in Session  PROVE path[s] # p
    <3>1. worker[p].sess = Nil  BY <1>0, <1>1 DEF WorkersNamed
    <3>2. path[s] # Nil => worker[path[s]].sess = s  BY <1>0 DEF WorkersNamed
    <3> QED  BY <1>0, <1>1, <3>1, <3>2
  <2> QED  BY <1>0, <1>2, <1>3, <2>1 DEF WorkersNamed, WebType
<1>10. FrontOK(f)'
  BY <1>0, <1>1, <1>2, <1>3, <1>4 DEF FrontOK
<1>11. ASSUME NEW s \in Session PROVE EntryOK(f, s)'
  <2>1. EntryOK(f, s) /\ (work[f][s] # Nil => work[f][s].k \in Conn \cup {Nil})
    BY <1>0 DEF IInv, WebType, Entry
  <2> QED  BY <1>0, <1>2, <1>4, <1>8, <2>1 DEF EntryOK, Waits, WorkersKept
<1>12. Unshared' /\ OwnAnswer'  BY <1>2 DEF IInv, Unshared, OwnAnswer
<1>13. \A k \in Conn : Untouched(k) /\ NothingSent(k)
  BY <1>0, <1>2 DEF Untouched, NothingSent
<1>14. fe[f].at \in Unsent /\ fe[f].at # "idle"  BY <1>2 DEF Unsent
<1> QED
  BY <1>2, <1>4, <1>7, <1>8, <1>9, <1>10, <1>11, <1>12, <1>13, <1>14, FrontendStep

\* A frontend that changes nothing but its place keeps its connections.
LEMMA ConnectionsSame ==
  ASSUME conn' = conn
  PROVE  \A k \in Conn : Untouched(k) /\ NothingSent(k)
BY DEF Untouched, NothingSent

\* A frontend that gives up before it has an entry for its query.
LEMMA GivesUpInv ==
  ASSUME IInv, NEW f \in Frontend, fe[f].at \in {"spawn", "wait"}, Answers(f, "error", Nil),
         UNCHANGED <<worker, query, ran, file, path, work, conn>>
  PROVE  IInv'
<1>1. WebType  BY DEF IInv
<1>2. \A s \in Session : work'[f][s] # Nil =>
        /\ work'[f][s] = work[f][s] /\ work[f][s].k # Nil
        /\ LET k == work[f][s].k IN
           /\ conn'[k].in = Nil /\ conn'[k].out = Nil
           /\ conn'[k].p = conn[k].p /\ conn'[k].fe # "none"
  BY EntryReady
<1>3. "error" \in Page /\ Nil \in Query \cup {Nil}  BY DEF Page
<1>4. \A k \in Conn : Untouched(k) /\ NothingSent(k)  BY ConnectionsSame
<1> QED  BY <1>1, <1>2, <1>3, <1>4, GoesIdle DEF WebType

\* The worker that was forked listens, or has ended.
LEMMA WorkerStartedInv ==
  ASSUME IInv, NEW f \in Frontend, WorkerStarted(f)
  PROVE  IInv'
<1>0. WebType /\ FrontOK(f) /\ Nil \notin Session /\ Nil \notin Entry
  BY SessionAssumption, NilAssumption DEF IInv
<1> DEFINE w == worker[fe[f].pid]
<1>1. fe[f].at = "wait" /\ UNCHANGED <<worker, query, ran, file, path, conn>>
  BY DEF WorkerStarted, At, diskvars, procvars
<1>2. CASE ~(w.told /\ w.sess \in file)
  BY <1>1, <1>2, GivesUpInv DEF WorkerStarted
<1>3. CASE w.told /\ w.sess \in file
  <2>1. /\ work' = [work EXCEPT ![f][w.sess] = [k |-> Nil, pid |-> fe[f].pid]]
        /\ fe' = [fe EXCEPT ![f].at = "connect", ![f].sess = w.sess]
        /\ answer' = answer
    BY <1>3 DEF WorkerStarted
  <2>2. /\ fe[f].pid \in Pid /\ w.sess \in Session
        /\ fe[f].sess # Nil => w.sess = fe[f].sess
    BY <1>0, <1>1, <1>3 DEF FrontOK, WebType
  <2> DEFINE e == [k |-> Nil, pid |-> fe[f].pid]
  <2>3. e \in Entry /\ e # Nil /\ e.k = Nil  BY <1>0, <2>2 DEF Entry
  <2>4. /\ work'[f][w.sess] = e
        /\ \A s \in Session \ {w.sess} : work'[f][s] = work[f][s]
        /\ \A g \in Frontend \ {f} : work'[g] = work[g]
        /\ work' \in [Frontend -> [Session -> Entry \cup {Nil}]]
    BY <1>0, <2>1, <2>2, <2>3 DEF WebType
  <2>5. /\ fe'[f].at = "connect" /\ fe'[f].q = fe[f].q /\ fe'[f].sess = w.sess
        /\ \A g \in Frontend \ {f} : fe'[g] = fe[g]
        /\ fe' \in [Frontend -> Place]
    <3>1. /\ fe'[f] = [fe[f] EXCEPT !.at = "connect", !.sess = w.sess]
          /\ \A g \in Frontend \ {f} : fe'[g] = fe[g]
      BY <1>0, <2>1 DEF WebType
    <3>2. fe[f] \in Place  BY <1>0 DEF WebType
    <3> HIDE DEF w
    <3>3. fe'[f] \in Place /\ fe'[f].at = "connect" /\ fe'[f].q = fe[f].q /\ fe'[f].sess = w.sess
      BY <2>2, <3>1, <3>2 DEF Place
    <3> QED  BY <1>0, <2>1, <3>1, <3>3 DEF WebType
  <2> HIDE DEF e, w
  <2>6. WebType'  BY <1>0, <1>1, <2>1, <2>4, <2>5 DEF WebType
  <2>7. WorkersNamed' /\ WorkersKept  BY <1>1 DEF IInv, WorkersNamed, WorkersKept
  <2>8. FrontOK(f)'
    <3>1. query[fe[f].q].sess # Nil => w.sess = query[fe[f].q].sess
      BY <1>0, <1>1, <2>2 DEF FrontOK
    <3> QED  BY <1>0, <1>1, <2>2, <2>3, <2>4, <2>5, <3>1 DEF FrontOK
  <2>9. ASSUME NEW s \in Session PROVE EntryOK(f, s)'
    <3>1. CASE s = w.sess  BY <2>3, <2>4, <2>5, <3>1 DEF EntryOK
    <3>2. CASE s # w.sess
      <4>1. EntryOK(f, s)  BY DEF IInv
      <4> QED  BY <1>1, <2>4, <2>5, <3>2, <4>1 DEF EntryOK, Waits
    <3> QED  BY <3>1, <3>2
  <2>10. Unshared'
    <3>1. \A g \in Frontend, s \in Session : work'[g][s] # Nil /\ work'[g][s].k # Nil =>
            work[g][s] # Nil /\ work[g][s].k = work'[g][s].k
      BY <2>3, <2>4
    <3> QED  BY <3>1, UnsharedKept
  <2>11. OwnAnswer'  BY <2>1 DEF IInv, OwnAnswer
  <2>12. \A k \in Conn : Untouched(k) /\ NothingSent(k)  BY <1>1, ConnectionsSame
  <2>13. fe[f].at \in Unsent /\ fe[f].at # "idle"  BY <1>1 DEF Unsent
  <2> QED
    BY <1>1, <2>4, <2>5, <2>6, <2>7, <2>8, <2>9, <2>10, <2>11, <2>12, <2>13, FrontendStep
<1> QED  BY <1>2, <1>3
\* A frontend goes on to another place.
LEMMA GoToFacts ==
  ASSUME WebType, NEW f \in Frontend, NEW at \in {"spawn", "respawn", "pid", "save", "resp", "body"},
         GoTo(f, at)
  PROVE  /\ fe'[f].at = at /\ fe'[f].q = fe[f].q /\ fe'[f].sess = fe[f].sess
         /\ \A g \in Frontend \ {f} : fe'[g] = fe[g]
         /\ fe' \in [Frontend -> Place]
<1>1. fe'[f] = [fe[f] EXCEPT !.at = at] /\ \A g \in Frontend \ {f} : fe'[g] = fe[g]
  BY DEF WebType, GoTo
<1>2. fe[f] \in Place  BY DEF WebType
<1>3. /\ fe'[f] \in Place /\ fe'[f].at = at /\ fe'[f].q = fe[f].q
      /\ fe'[f].sess = fe[f].sess
  BY <1>1, <1>2 DEF Place
<1> QED  BY <1>1, <1>3 DEF WebType, GoTo

\* The frontend connects to the process that listens for its session, if one does.
LEMMA ConnectInv ==
  ASSUME IInv, NEW f \in Frontend, Connect(f)
  PROVE  IInv'
<1>0. /\ WebType /\ WorkersNamed /\ FrontOK(f) /\ Unshared /\ SentOnce
      /\ \A s \in Session : EntryOK(f, s)
      /\ Nil \notin Session /\ Nil \notin Entry /\ Nil \notin Conn /\ Nil \notin Pid
  BY SessionAssumption, NilAssumption DEF IInv
<1> DEFINE k == Min({x \in Conn : conn[x].fe = "none"})
           s == fe[f].sess
<1>1. k \in Conn /\ conn[k].fe = "none"
  <2> DEFINE S == {x \in Conn : conn[x].fe = "none"}
  <2>1. S \in SUBSET Nat /\ S # {}  BY BoundAssumption DEF Connect, Conn
  <2> HIDE DEF S
  <2>2. Min(S) \in S  BY <2>1, LeastIsOne
  <2> QED  BY <2>2 DEF S
<1>2. /\ fe[f].at = "connect" /\ UNCHANGED <<worker, query, answer, ran, file, path>>
      /\ s \in Session /\ work[f][s] # Nil /\ work[f][s] \in Entry
  BY <1>0 DEF Connect, At, diskvars, clientvars, FrontOK, WebType
<1>3. WorkersNamed' /\ WorkersKept /\ OwnAnswer'
  BY <1>2 DEF IInv, WorkersNamed, WorkersKept, OwnAnswer
<1>4. fe[f].at \in Unsent /\ fe[f].at # "idle"  BY <1>2 DEF Unsent
<1>6. CASE ~Listens(s)
  <2>1. GoTo(f, "respawn") /\ conn' = conn /\ work' = work  BY <1>6 DEF Connect
  <2>2. /\ fe'[f].at = "respawn" /\ fe'[f].q = fe[f].q /\ fe'[f].sess = s
        /\ \A g \in Frontend \ {f} : fe'[g] = fe[g]
        /\ fe' \in [Frontend -> Place]
    BY <1>0, <2>1, GoToFacts
  <2>3. WebType'  BY <1>0, <1>2, <2>1, <2>2 DEF WebType
  <2>4. FrontOK(f)'  BY <1>0, <1>2, <2>2 DEF FrontOK
  <2>5. \A t \in Session : EntryOK(f, t)'
    BY <1>0, <1>2, <2>1, <2>2 DEF EntryOK, Waits
  <2>6. Unshared'  BY <1>0, <2>1 DEF Unshared
  <2>7. \A j \in Conn : Untouched(j) /\ NothingSent(j)  BY <2>1, ConnectionsSame
  <2> QED
    BY <1>2, <1>3, <1>4, <2>1, <2>2, <2>3, <2>4, <2>5, <2>6, <2>7, FrontendStep
<1>7. CASE Listens(s)
  <2> DEFINE c == [NoConn EXCEPT !.f = f, !.p = path[s], !.fe = "open", !.wk = "pending"]
  <2>1. /\ conn' = [conn EXCEPT ![k] = c]
        /\ work' = [work EXCEPT ![f][s].k = k]
        /\ GoTo(f, "pid")
    BY <1>7 DEF Connect
  <2>2. path[s] \in Pid /\ worker[path[s]].sess = s
    BY <1>0, <1>2, <1>7 DEF Listens, WorkersNamed, WebType
  <2>3. /\ c \in Connection /\ c.p = path[s] /\ c.fe = "open" /\ c.wk = "pending"
        /\ c.in = Nil /\ c.out = Nil
    BY <2>2 DEF NoConn, Connection
  <2> HIDE DEF c, k
  <2>4. /\ conn'[k] = c /\ \A j \in Conn \ {k} : conn'[j] = conn[j]
        /\ conn' \in [Conn -> Connection]
    BY <1>0, <1>1, <2>1, <2>3 DEF WebType
  <2> DEFINE e == [work[f][s] EXCEPT !.k = k]
  <2>5. e \in Entry /\ e # Nil /\ e.k = k  BY <1>0, <1>1, <1>2 DEF Entry
  <2>6. work' = [work EXCEPT ![f] = [work[f] EXCEPT ![s] = e]]  BY <2>1
  <2> HIDE DEF e, s
  <2>7. /\ work'[f][s] = e
        /\ \A t \in Session \ {s} : work'[f][t] = work[f][t]
        /\ \A g \in Frontend \ {f} : work'[g] = work[g]
        /\ work' \in [Frontend -> [Session -> Entry \cup {Nil}]]
    BY <1>0, <1>2, <2>5, <2>6 DEF WebType
  <2>8. /\ fe'[f].at = "pid" /\ fe'[f].q = fe[f].q /\ fe'[f].sess = s
        /\ \A g \in Frontend \ {f} : fe'[g] = fe[g]
        /\ fe' \in [Frontend -> Place]
    BY <1>0, <2>1, GoToFacts DEF s
  <2>9. WebType'  BY <1>0, <1>2, <2>4, <2>7, <2>8 DEF WebType
  <2>10. FrontOK(f)'
    <3>1. query[fe[f].q].sess # Nil => s = query[fe[f].q].sess
      BY <1>0, <1>2 DEF FrontOK, s
    <3> QED  BY <1>0, <1>2, <2>5, <2>7, <2>8, <3>1 DEF FrontOK
  <2>11. ASSUME NEW g \in Frontend, NEW t \in Session, work[g][t] # Nil, work[g][t].k # Nil
         PROVE  work[g][t].k \in Conn \ {k}
    BY <1>1, <2>11 DEF IInv, WebType, Entry, EntryOK
  <2>12. ASSUME NEW t \in Session PROVE EntryOK(f, t)'
    <3>1. CASE t = s
      BY <1>0, <1>1, <1>2, <2>2, <2>3, <2>4, <2>5, <2>7, <2>8, <3>1 DEF EntryOK, Waits
    <3>2. CASE t # s
      <4>1. EntryOK(f, t) /\ t # fe[f].sess  BY <1>0, <3>2 DEF s
      <4>2. work[f][t] # Nil => conn'[work[f][t].k] = conn[work[f][t].k]
        BY <2>4, <2>11, <4>1 DEF EntryOK
      <4> QED  BY <1>2, <2>7, <2>8, <3>2, <4>1, <4>2 DEF EntryOK, Waits
    <3> QED  BY <3>1, <3>2
  <2>13. Unshared'
    <3>1. ASSUME NEW g \in Frontend, NEW t \in Session, work'[g][t] # Nil, work'[g][t].k # Nil
          PROVE  \/ g = f /\ t = s /\ work'[g][t].k = k
                 \/ /\ ~(g = f /\ t = s) /\ work'[g][t] = work[g][t]
                    /\ work'[g][t].k # k
      BY <2>5, <2>7, <2>11, <3>1
    <3> QED  BY <1>0, <3>1 DEF Unshared
  <2>14. \A j \in Conn : conn[j].fe # "none" => Untouched(j)
    BY <1>1, <2>4 DEF Untouched
  <2>15. \A j \in Conn : NothingSent(j)
    BY <2>3, <2>4 DEF NothingSent
  <2> QED
    BY <1>2, <1>3, <1>4, <2>7, <2>8, <2>9, <2>10, <2>12, <2>13, <2>14, <2>15, FrontendStep
<1> QED  BY <1>6, <1>7
\* The socket is removed, and a worker forked for the query, but only once.
LEMMA RespawnInv ==
  ASSUME IInv, NEW f \in Frontend, Respawn(f)
  PROVE  IInv'
<1>0. WebType /\ WorkersNamed /\ FrontOK(f) /\ Nil \notin Session
  BY SessionAssumption DEF IInv
<1> DEFINE s == fe[f].sess
<1>1. /\ fe[f].at = "respawn" /\ UNCHANGED <<worker, query, ran, file>>
      /\ s \in Session /\ Close(f, {s}) /\ path' = [path EXCEPT ![s] = Nil]
  BY <1>0 DEF Respawn, At, FrontOK
<1>2. /\ work' \in [Frontend -> [Session -> Entry \cup {Nil}]]
      /\ conn' \in [Conn -> Connection]
      /\ \A g \in Frontend \ {f} : work'[g] = work[g]
      /\ \A t \in Session : work'[f][t] = IF t = s THEN Nil ELSE work[f][t]
      /\ \A k \in Conn : Untouched(k) /\ NothingSent(k)
  <2>1. PICK S : S = {s}  OBVIOUS
  <2>2. S \in SUBSET Session /\ Close(f, S)  BY <1>1, <2>1 DEF Close
  <2> QED  BY <2>1, <2>2, CloseFacts
<1>3. path' \in [Session -> Pid \cup {Nil}] /\ \A t \in Session : path'[t] \in {Nil, path[t]}
  BY <1>0, <1>1 DEF WebType
<1>4. ASSUME NEW t \in Session, work'[f][t] # Nil
      PROVE  /\ work'[f][t] = work[f][t] /\ work[f][t].k # Nil
             /\ LET k == work[f][t].k IN
                /\ conn'[k].in = Nil /\ conn'[k].out = Nil
                /\ conn'[k].p = conn[k].p /\ conn'[k].fe # "none"
                /\ conn'[k].p \in Pid /\ worker[conn'[k].p].sess = t
  <2>1. t # s /\ work'[f][t] = work[f][t] /\ work[f][t] # Nil  BY <1>2, <1>4
  <2> QED  BY <1>2, <2>1, EntryReady DEF Untouched
<1>5. CASE fe[f].tries > 0 \/ fe[f].sess \notin file
  <2>1. Answers(f, "error", Nil)  BY <1>5 DEF Respawn
  <2>2. "error" \in Page /\ Nil \in Query \cup {Nil}  BY DEF Page
  <2> HIDE DEF s
  <2> QED  BY <1>1, <1>2, <1>3, <1>4, <2>1, <2>2, GoesIdle
<1>6. CASE ~(fe[f].tries > 0 \/ fe[f].sess \notin file)
  <2>1. fe' = [fe EXCEPT ![f].tries = 1, ![f].at = "spawn"] /\ answer' = answer
    BY <1>6 DEF Respawn
  <2>2. /\ fe'[f].at = "spawn" /\ fe'[f].q = fe[f].q /\ fe'[f].sess = s
        /\ \A g \in Frontend \ {f} : fe'[g] = fe[g]
        /\ fe' \in [Frontend -> Place]
    <3>1. /\ fe'[f] = [fe[f] EXCEPT !.tries = 1, !.at = "spawn"]
          /\ \A g \in Frontend \ {f} : fe'[g] = fe[g]
      BY <1>0, <2>1 DEF WebType
    <3>2. fe[f] \in Place  BY <1>0 DEF WebType
    <3>3. fe'[f] \in Place /\ fe'[f].at = "spawn" /\ fe'[f].q = fe[f].q /\ fe'[f].sess = s
      BY <3>1, <3>2 DEF Place
    <3> QED  BY <1>0, <2>1, <3>1, <3>3 DEF WebType
  <2>3. WebType'  BY <1>0, <1>1, <1>2, <1>3, <2>1, <2>2 DEF WebType
  <2>4. WorkersNamed' /\ WorkersKept
    BY <1>0, <1>1, <1>3 DEF WorkersNamed, WorkersKept
  <2>5. FrontOK(f)'  BY <1>0, <1>1, <2>2 DEF FrontOK
  <2>6. ASSUME NEW t \in Session PROVE EntryOK(f, t)'
    BY <1>1, <1>4, <2>2 DEF EntryOK, Waits
  <2>7. Unshared'
    <3>1. \A g \in Frontend, t \in Session : work'[g][t] # Nil /\ work'[g][t].k # Nil =>
            work[g][t] # Nil /\ work[g][t].k = work'[g][t].k
      BY <1>2
    <3> QED  BY <3>1, UnsharedKept
  <2>8. OwnAnswer'  BY <2>1 DEF IInv, OwnAnswer
  <2>9. fe[f].at \in Unsent /\ fe[f].at # "idle"  BY <1>1 DEF Unsent
  <2> QED
    BY <1>1, <1>2, <2>2, <2>3, <2>4, <2>5, <2>6, <2>7, <2>8, <2>9, FrontendStep
<1> QED  BY <1>5, <1>6

\* The worker has accepted the connection, or refused it.
LEMMA ReadPidInv ==
  ASSUME IInv, NEW f \in Frontend, ReadPid(f)
  PROVE  IInv'
<1>0. /\ WebType /\ WorkersNamed /\ FrontOK(f) /\ Unshared /\ \A s \in Session : EntryOK(f, s)
      /\ Nil \notin Session /\ Nil \notin Entry
  BY SessionAssumption, NilAssumption DEF IInv
<1> DEFINE s == fe[f].sess
<1>1. /\ fe[f].at = "pid" /\ UNCHANGED <<worker, query, ran, file, path>>
      /\ s \in Session /\ work[f][s] # Nil /\ work[f][s] \in Entry
  BY <1>0 DEF ReadPid, At, FrontOK, WebType, diskvars
<1>2. CASE Fd(f).wk = "refused"
  BY <1>1, <1>2, FailsInv DEF ReadPid
<1>3. CASE Fd(f).wk # "refused"
  <2> DEFINE e == [work[f][s] EXCEPT !.pid = Fd(f).p]
  <2>1. /\ work' = [work EXCEPT ![f] = [work[f] EXCEPT ![s] = e]]
        /\ GoTo(f, "save") /\ conn' = conn /\ answer' = answer
    BY <1>3 DEF ReadPid
  <2>2. work[f][s].k \in Conn /\ Fd(f).p \in Pid
    BY <1>1, EntryReady DEF Fd, Sock
  <2>3. e \in Entry /\ e # Nil /\ e.k = work[f][s].k
    BY <1>0, <1>1, <2>2 DEF Entry
  <2> HIDE DEF e, s
  <2>4. /\ work'[f][s] = e
        /\ \A t \in Session \ {s} : work'[f][t] = work[f][t]
        /\ \A g \in Frontend \ {f} : work'[g] = work[g]
        /\ work' \in [Frontend -> [Session -> Entry \cup {Nil}]]
    BY <1>0, <1>1, <2>1, <2>3 DEF WebType
  <2>5. /\ fe'[f].at = "save" /\ fe'[f].q = fe[f].q /\ fe'[f].sess = fe[f].sess
        /\ \A g \in Frontend \ {f} : fe'[g] = fe[g]
        /\ fe' \in [Frontend -> Place]
    BY <1>0, <2>1, GoToFacts
  <2>6. WebType'  BY <1>0, <1>1, <2>1, <2>4, <2>5 DEF WebType
  <2>7. WorkersNamed' /\ WorkersKept /\ OwnAnswer'
    BY <1>1, <2>1 DEF IInv, WorkersNamed, WorkersKept, OwnAnswer
  <2>8. FrontOK(f)'  BY <1>0, <1>1, <2>3, <2>4, <2>5 DEF FrontOK, s
  <2>9. ASSUME NEW t \in Session PROVE EntryOK(f, t)'
    <3>1. EntryOK(f, t)  BY <1>0
    <3> QED  BY <1>1, <2>1, <2>3, <2>4, <2>5, <3>1 DEF EntryOK, Waits
  <2>10. Unshared'
    <3>1. \A g \in Frontend, t \in Session : work'[g][t] # Nil /\ work'[g][t].k # Nil =>
            work[g][t] # Nil /\ work[g][t].k = work'[g][t].k
      BY <1>1, <2>3, <2>4
    <3> QED  BY <3>1, UnsharedKept
  <2>11. \A k \in Conn : Untouched(k) /\ NothingSent(k)  BY <2>1, ConnectionsSame
  <2>12. fe[f].at \in Unsent /\ fe[f].at # "idle"  BY <1>1 DEF Unsent
  <2> QED
    BY <1>1, <2>4, <2>5, <2>6, <2>7, <2>8, <2>9, <2>10, <2>11, <2>12, FrontendStep
<1> QED  BY <1>2, <1>3

\* The frontend has the header of the response to its query, and goes on to the body.
LEMMA HeaderInv ==
  ASSUME IInv, NEW f \in Frontend, fe[f].at = "resp", GoTo(f, "body"),
         conn[work[f][fe[f].sess].k].out # Nil,
         UNCHANGED <<conn, work, answer, worker, query, ran, file, path>>
  PROVE  IInv'
<1>0. WebType /\ WorkersNamed /\ FrontOK(f) /\ Unshared /\ OwnAnswer
      /\ \A s \in Session : EntryOK(f, s)
  BY DEF IInv
<1>1. /\ fe'[f].at = "body" /\ fe'[f].q = fe[f].q /\ fe'[f].sess = fe[f].sess
      /\ \A g \in Frontend \ {f} : fe'[g] = fe[g]
      /\ fe' \in [Frontend -> Place]
  BY <1>0, GoToFacts
<1>2. WorkersNamed' /\ WorkersKept  BY <1>0 DEF WorkersNamed, WorkersKept
<1>3. WebType'  BY <1>0, <1>1 DEF WebType
<1>4. FrontOK(f)'  BY <1>0, <1>1 DEF FrontOK
<1>5. ASSUME NEW t \in Session PROVE EntryOK(f, t)'
  <2>1. EntryOK(f, t)  BY <1>0
  <2>2. CASE t = fe[f].sess  BY <1>1, <2>1, <2>2 DEF EntryOK, Waits
  <2>3. CASE t # fe[f].sess  BY <1>1, <2>1, <2>3 DEF EntryOK, Waits
  <2> QED  BY <2>2, <2>3
<1>6. Unshared' /\ OwnAnswer'  BY <1>0 DEF Unshared, OwnAnswer
<1>7. \A j \in Conn : Untouched(j) /\ NothingSent(j)  BY ConnectionsSame
<1>8. fe'[f].at \notin Unsent /\ fe[f].at # "idle"  BY <1>1 DEF Unsent
<1> QED  BY <1>1, <1>2, <1>3, <1>4, <1>5, <1>6, <1>7, <1>8, FrontendStep

\* The frontend reads the response to its query, or gives up.
LEMMA ResponseInv ==
  ASSUME IInv, NEW f \in Frontend, Response(f) \/ ResponseBody(f) \/ ResponseTimeout(f)
  PROVE  IInv'
<1>0. WebType /\ FrontOK(f) /\ Unshared /\ Nil \notin Session /\ Nil \notin Query
  BY SessionAssumption, NilAssumption DEF IInv
<1> DEFINE s == fe[f].sess
           k == work[f][s].k
<1>1. /\ fe[f].at \in {"resp", "body"} /\ UNCHANGED <<worker, query, ran, file, path>>
      /\ s \in Session /\ work[f][s] # Nil
  BY <1>0 DEF Response, ResponseBody, ResponseTimeout, At, FrontOK, diskvars
<1>2. CASE Fails(f)  BY <1>1, <1>2, FailsInv
<1>4. CASE /\ fe[f].at = "resp" /\ conn[k].out # Nil /\ GoTo(f, "body")
           /\ UNCHANGED <<conn, work, answer>>
  BY <1>1, <1>4, HeaderInv
<1>3. CASE /\ fe[f].at = "body" /\ Answers(f, "response", conn[k].out)
           /\ conn' = [conn EXCEPT ![k].out = Nil] /\ work' = work
  <2>1. /\ Answers(f, "response", conn[k].out)
        /\ conn' = [conn EXCEPT ![k].out = Nil] /\ work' = work
    BY <1>3
  <2>2. EntryOK(f, s) /\ work[f][s] \in Entry  BY <1>0, <1>1 DEF IInv, WebType
  <2>3. /\ k \in Conn /\ k # Nil /\ conn[k].fe # "none"
        /\ conn[k].out = fe[f].q /\ conn[k].in = Nil /\ fe[f].q \in Query
    BY <1>0, <1>1, <1>3, <2>2 DEF EntryOK, Waits, Entry, FrontOK
  <2>4. /\ conn'[k] = [conn[k] EXCEPT !.out = Nil]
        /\ \A j \in Conn \ {k} : conn'[j] = conn[j]
    BY <1>0, <2>1, <2>3 DEF WebType
  <2> HIDE DEF k
  <2>5. /\ conn'[k].in = Nil /\ conn'[k].out = Nil /\ conn'[k].p = conn[k].p
        /\ conn'[k].fe # "none" /\ conn'[k] \in Connection
    <3>1. conn[k] \in Connection  BY <1>0, <2>3 DEF WebType
    <3>2. conn'[k] \in Connection /\ conn'[k].out = Nil  BY <2>4, <3>1 DEF Connection
    <3> QED  BY <2>3, <2>4, <3>1, <3>2 DEF Connection
  <2>6. conn' \in [Conn -> Connection]  BY <1>0, <2>1, <2>4, <2>5 DEF WebType
  <2>7. ASSUME NEW t \in Session, work'[f][t] # Nil
        PROVE  /\ work'[f][t] = work[f][t] /\ work[f][t].k # Nil
               /\ LET j == work[f][t].k IN
                  /\ conn'[j].in = Nil /\ conn'[j].out = Nil
                  /\ conn'[j].p = conn[j].p /\ conn'[j].fe # "none"
    <3>1. CASE t = s  BY <2>1, <2>3, <2>5, <3>1 DEF k
    <3>2. CASE t # s
      <4>1. work[f][t].k \in Conn /\ work[f][t].k # Nil /\ conn[work[f][t].k].fe # "none"
            /\ conn[work[f][t].k].in = Nil /\ conn[work[f][t].k].out = Nil
        BY <2>1, <2>7, <3>2, EntryReady
      <4>2. work[f][t].k # k  BY <1>0, <1>1, <2>1, <2>7, <3>2, <4>1 DEF Unshared, k
      <4> QED  BY <2>1, <2>4, <4>1, <4>2
    <3> QED  BY <3>1, <3>2
  <2>8. \A j \in Conn : Untouched(j) \/ \E t \in Session : work[f][t] # Nil /\ work[f][t].k = j
    BY <1>1, <2>4 DEF Untouched, k
  <2>9. \A j \in Conn : NothingSent(j)  BY <2>4, <2>5 DEF NothingSent
  <2>10. "response" \in Page /\ conn[k].out \in Query \cup {Nil}  BY <2>3 DEF Page
  <2> PICK of : of = conn[k].out  OBVIOUS
  <2>11. /\ Answers(f, "response", of) /\ of \in Query \cup {Nil} /\ of = fe[f].q
    BY <2>1, <2>3, <2>10 DEF Answers
  <2>12. path' \in [Session -> Pid \cup {Nil}] /\ \A t \in Session : path'[t] \in {Nil, path[t]}
    BY <1>0, <1>1 DEF WebType
  <2>13. /\ work' \in [Frontend -> [Session -> Entry \cup {Nil}]]
         /\ \A g \in Frontend \ {f} : work'[g] = work[g]
    BY <1>0, <2>1 DEF WebType
  <2> HIDE DEF s
  <2> QED  BY <1>1, <2>6, <2>7, <2>8, <2>9, <2>10, <2>11, <2>12, <2>13, GoesIdle
<1>5. Fails(f) \/ (/\ fe[f].at = "resp" /\ conn[k].out # Nil /\ GoTo(f, "body")
                  /\ UNCHANGED <<conn, work, answer>>)
               \/ (/\ fe[f].at = "body" /\ Answers(f, "response", conn[k].out)
                  /\ conn' = [conn EXCEPT ![k].out = Nil] /\ work' = work)
  <2>1. CASE Response(f)  BY <2>1 DEF Response, At, Fd, Sock
  <2>2. CASE ResponseBody(f)  BY <2>2 DEF ResponseBody, At, Fd, Sock
  <2>3. CASE ResponseTimeout(f)  BY <2>3 DEF ResponseTimeout
  <2> QED  BY <2>1, <2>2, <2>3
<1> QED  BY <1>2, <1>3, <1>4, <1>5

\* A query is sent to the worker: it is then on its connection, and nowhere else.
LEMMA QuerySaveInv ==
  ASSUME IInv, NEW f \in Frontend, QuerySave(f)
  PROVE  IInv'
<1>0. /\ WebType /\ WorkersNamed /\ FrontOK(f) /\ Unshared /\ UnsentOnce /\ SentOnce /\ Numbered
      /\ AtMostOnce /\ RanInSession /\ OwnAnswer
      /\ \A g \in Frontend : FrontOK(g) /\ \A s \in Session : EntryOK(g, s)
      /\ Nil \notin Session /\ Nil \notin Entry /\ Nil \notin Query
  BY SessionAssumption, NilAssumption DEF IInv
<1> PICK s, q, k : s = fe[f].sess /\ q = fe[f].q /\ k = Sock(f).k  OBVIOUS
<1>1. /\ fe[f].at = "save" /\ UNCHANGED <<worker, query, ran, file, path>>
      /\ s \in Session /\ work[f][s] # Nil /\ work[f][s] \in Entry /\ q \in Query
      /\ query[q] # Nil /\ (query[q].sess # Nil => s = query[q].sess)
  BY <1>0 DEF QuerySave, At, FrontOK, WebType, diskvars
<1>2. /\ k = work[f][s].k /\ k \in Conn /\ k # Nil /\ Fd(f) = conn[k]
      /\ conn[k].fe # "none" /\ conn[k].in = Nil /\ conn[k].out = Nil
      /\ conn[k].p \in Pid /\ worker[conn[k].p].sess = s
  BY <1>1, EntryReady DEF Sock, Fd
<1>3. WorkersNamed' /\ WorkersKept
  BY <1>0, <1>1 DEF WorkersNamed, WorkersKept
<1>4. fe[f].at \in Unsent /\ fe[f].at # "idle"  BY <1>1 DEF Unsent
<1>5. CASE conn[k].wk # "open"
  <2>1. GoTo(f, "respawn") /\ UNCHANGED <<conn, work, answer>>
    BY <1>2, <1>5 DEF QuerySave
  <2>2. /\ fe'[f].at = "respawn" /\ fe'[f].q = fe[f].q /\ fe'[f].sess = fe[f].sess
        /\ \A g \in Frontend \ {f} : fe'[g] = fe[g]
        /\ fe' \in [Frontend -> Place]
    BY <1>0, <2>1, GoToFacts
  <2>3. WebType'  BY <1>0, <1>1, <2>1, <2>2 DEF WebType
  <2>4. FrontOK(f)'  BY <1>0, <1>1, <2>2 DEF FrontOK
  <2>5. \A t \in Session : EntryOK(f, t)'
    BY <1>0, <1>1, <2>1, <2>2 DEF EntryOK, Waits
  <2>6. Unshared' /\ OwnAnswer'  BY <1>0, <2>1 DEF Unshared, OwnAnswer
  <2>7. \A j \in Conn : Untouched(j) /\ NothingSent(j)  BY <2>1, ConnectionsSame
  <2> QED
    BY <1>1, <1>3, <1>4, <2>1, <2>2, <2>3, <2>4, <2>5, <2>6, <2>7, FrontendStep
<1>6. CASE conn[k].wk = "open"
  <2>1. \/ /\ Answers(f, "bye", Nil)
           /\ work' = [work EXCEPT ![f] = [work[f] EXCEPT ![s] = Nil]]
           /\ conn' = [conn EXCEPT ![k] = [conn[k] EXCEPT !.in = q, !.fe = "closed"]]
        \/ /\ GoTo(f, "resp")
           /\ conn' = [conn EXCEPT ![k] = [conn[k] EXCEPT !.in = q]]
           /\ UNCHANGED <<work, answer>>
    BY <1>0, <1>2, <1>6, ZenonT(30) DEF QuerySave, WebType
  <2>2. /\ conn'[k] \in Connection /\ conn'[k].in = q /\ conn'[k].out = Nil
        /\ conn'[k].p = conn[k].p /\ conn'[k].wk = "open" /\ conn'[k].fe # "none"
        /\ \A j \in Conn \ {k} : conn'[j] = conn[j]
        /\ conn' \in [Conn -> Connection]
    <3>1. conn[k] \in Connection /\ q \in Query  BY <1>0, <1>1, <1>2 DEF WebType
    <3>2. PICK c \in {[conn[k] EXCEPT !.in = q, !.fe = "closed"], [conn[k] EXCEPT !.in = q]} :
            conn' = [conn EXCEPT ![k] = c]
      BY <2>1
    <3>3. /\ c \in Connection /\ c.in = q /\ c.out = Nil /\ c.p = conn[k].p
          /\ c.wk = "open" /\ c.fe # "none"
      BY <1>2, <1>6, <3>1 DEF Connection
    <3> QED  BY <1>0, <1>2, <3>2, <3>3 DEF WebType
  <2>3. /\ work' \in [Frontend -> [Session -> Entry \cup {Nil}]]
        /\ \A g \in Frontend \ {f} : work'[g] = work[g]
        /\ \A t \in Session : work'[f][t] \in {work[f][t], Nil}
    <3>1. work \in [Frontend -> [Session -> Entry \cup {Nil}]]  BY <1>0 DEF WebType
    <3> QED  BY <1>1, <2>1, <3>1
  <2>4. /\ fe' \in [Frontend -> Place]
        /\ \A g \in Frontend \ {f} : fe'[g] = fe[g]
        /\ answer' \in [Query -> Reply \cup {Nil}] /\ OwnAnswer'
        /\ \/ /\ fe'[f].at = "idle" /\ fe'[f].q = Nil /\ work'[f][s] = Nil
           \/ /\ fe'[f].at = "resp" /\ fe'[f].q = q /\ fe'[f].sess = s /\ work' = work
    <3>1. CASE Answers(f, "bye", Nil) /\ work'[f][s] = Nil
      <4>1. "bye" \in Page /\ Nil \in Query \cup {Nil}  BY DEF Page
      <4> QED  BY <1>1, <3>1, <4>1, AnswersOwn
    <3>2. CASE GoTo(f, "resp") /\ UNCHANGED <<work, answer>>
      BY <1>0, <3>2, GoToFacts DEF WebType, OwnAnswer
    <3>3. work' = [work EXCEPT ![f] = [work[f] EXCEPT ![s] = Nil]] => work'[f][s] = Nil
      BY <1>0, <1>1 DEF WebType
    <3> QED  BY <2>1, <3>1, <3>2, <3>3
  <2>5. WebType'  BY <1>0, <1>1, <2>2, <2>3, <2>4 DEF WebType
  <2>6. ASSUME NEW g \in Frontend, NEW t \in Session, work[g][t] # Nil, work[g][t].k # Nil,
               g # f \/ t # s
        PROVE  work[g][t].k \in Conn /\ conn'[work[g][t].k] = conn[work[g][t].k]
    <3>1. work[g][t] \in Entry  BY <1>0, <2>6 DEF WebType
    <3>2. work[f][s] # Nil /\ work[f][s].k = k  BY <1>1, <1>2
    <3>3. work[g][t].k # k  BY <1>0, <1>1, <2>6, <3>2 DEF Unshared
    <3>4. work[g][t].k \in Conn  BY <2>6, <3>1 DEF Entry
    <3> QED  BY <2>2, <3>3, <3>4
  <2>7. ASSUME NEW g \in Frontend \ {f}  PROVE FrontOK(g)' /\ \A t \in Session : EntryOK(g, t)'
    <3>1. \A t \in Session : work[g][t] # Nil /\ work[g][t].k # Nil => Untouched(work[g][t].k)
      BY <2>6 DEF Untouched
    <3> QED  BY <1>1, <1>3, <2>3, <2>4, <3>1, OthersKept
  <2>8. FrontOK(f)'
    BY <1>0, <1>1, <2>4 DEF FrontOK
  <2>9. ASSUME NEW t \in Session PROVE EntryOK(f, t)'
    <3>1. CASE t = s
      BY <1>1, <1>2, <2>2, <2>4, <3>1 DEF EntryOK, Waits
    <3>2. CASE t # s
      <4>1. work'[f][t] # Nil => work'[f][t] = work[f][t] /\ work[f][t] # Nil  BY <2>3
      <4>2. work[f][t] # Nil =>
              /\ work[f][t].k \in Conn /\ work[f][t].k # Nil
              /\ LET c == conn[work[f][t].k] IN
                 c.fe # "none" /\ c.in = Nil /\ c.out = Nil /\ c.p \in Pid /\ worker[c.p].sess = t
        BY <3>2, EntryReady
      <4> QED  BY <1>1, <2>4, <2>6, <3>2, <4>1, <4>2 DEF EntryOK, Waits
    <3> QED  BY <3>1, <3>2
  <2>10. Unshared'
    <3>1. \A g \in Frontend, t \in Session : work'[g][t] # Nil /\ work'[g][t].k # Nil =>
            work[g][t] # Nil /\ work[g][t].k = work'[g][t].k
      BY <2>3
    <3> QED  BY <3>1, UnsharedKept
  <2>11. ran[q] = << >> /\ \A j \in Conn : conn[j].in # q
    BY <1>0, <1>1, <1>4 DEF UnsentOnce
  <2>12. UnsentOnce'
    <3>1. ASSUME NEW g \in Frontend, fe'[g].at \in Unsent
          PROVE  ran'[fe'[g].q] = << >> /\ \A j \in Conn : conn'[j].in # fe'[g].q
      <4>1. g # f /\ fe'[g] = fe[g] /\ fe[g].q # q
        BY <1>0, <1>1, <2>4, <3>1 DEF Unsent, UnsentOnce
      <4> QED  BY <1>0, <1>1, <2>2, <3>1, <4>1 DEF UnsentOnce
    <3>2. ASSUME NEW g \in Frontend, NEW h \in Frontend, fe'[g].at # "idle", fe'[g].q = fe'[h].q
          PROVE  g = h
      <4>1. fe[g].at # "idle" /\ fe'[g].q = fe[g].q /\ fe[g].q \in Query
        BY <1>0, <1>1, <2>4, <3>2 DEF FrontOK
      <4>2. fe'[h].q = fe[h].q  BY <1>0, <2>4, <3>2, <4>1
      <4> QED  BY <1>0, <3>2, <4>1, <4>2 DEF UnsentOnce
    <3> QED  BY <3>1, <3>2 DEF UnsentOnce
  <2>13. SentOnce'
    <3>1. ASSUME NEW j \in Conn, conn'[j].in # Nil, j # k
          PROVE  /\ conn'[j] = conn[j] /\ conn[j].in # q
                 /\ query[conn[j].in] # Nil /\ conn[j].wk # "pending" /\ conn[j].p \in Pid
                 /\ query[conn[j].in].sess # Nil => worker[conn[j].p].sess = query[conn[j].in].sess
                 /\ conn[j].wk = "open" =>
                      /\ ran[conn[j].in] = << >>
                      /\ \A i \in Conn : conn[i].in = conn[j].in /\ conn[i].wk = "open" => i = j
      BY <1>0, <2>2, <2>11, <3>1 DEF SentOnce
    <3>2. \A j \in Conn : conn'[j].in = q => j = k  BY <2>2, <2>11
    <3>3. ASSUME NEW j \in Conn, conn'[j].in # Nil
          PROVE  /\ query'[conn'[j].in] # Nil /\ conn'[j].wk # "pending" /\ conn'[j].p \in Pid
                 /\ query'[conn'[j].in].sess # Nil => worker'[conn'[j].p].sess = query'[conn'[j].in].sess
                 /\ conn'[j].wk = "open" => ran'[conn'[j].in] = << >>
                 /\ \A i \in Conn : conn'[j].wk = "open" /\ conn'[i].in = conn'[j].in /\ conn'[i].wk = "open" => i = j
      <4>1. CASE j = k  BY <1>1, <1>2, <2>2, <2>11, <3>2, <4>1
      <4>2. CASE j # k
        <5>1. conn'[k].in # conn'[j].in  BY <2>2, <3>1, <3>3, <4>2
        <5> QED  BY <1>1, <2>2, <3>1, <3>3, <4>2, <5>1
      <4> QED  BY <4>1, <4>2
    <3> QED  BY <3>3 DEF SentOnce
  <2>14. Numbered' /\ AtMostOnce' /\ RanInSession'
    BY <1>0, <1>1 DEF Numbered, AtMostOnce, RanInSession
  <2> QED
    BY <1>3, <2>4, <2>5, <2>7, <2>8, <2>9, <2>10, <2>12, <2>13, <2>14 DEF IInv
<1> QED  BY <1>5, <1>6

\* A frontend ends and is started again.
LEMMA FrontendExitsInv ==
  ASSUME IInv, NEW f \in Frontend, FrontendExits(f)
  PROVE  IInv'
<1>1. /\ fe[f].at # "idle" /\ Answers(f, "eof", Nil) /\ Close(f, Session)
      /\ UNCHANGED <<worker, query, ran, file, path>>
  BY DEF FrontendExits, At, diskvars
<1>2. Session \in SUBSET Session  OBVIOUS
<1>3. /\ work' \in [Frontend -> [Session -> Entry \cup {Nil}]]
      /\ conn' \in [Conn -> Connection]
      /\ \A g \in Frontend \ {f} : work'[g] = work[g]
      /\ \A s \in Session : work'[f][s] = Nil
      /\ \A k \in Conn : Untouched(k) /\ NothingSent(k)
  BY <1>1, <1>2, CloseFacts
<1>4. path \in [Session -> Pid \cup {Nil}]  BY DEF IInv, WebType
<1>5. "eof" \in Page /\ Nil \in Query \cup {Nil}  BY DEF Page
<1> QED  BY <1>1, <1>3, <1>4, <1>5, GoesIdle

\* A frontend that is idle closes its connections to a worker that died.
LEMMA HandleControlCmdInv ==
  ASSUME IInv, NEW f \in Frontend, NEW p \in Pid, HandleControlCmd(f, p)
  PROVE  IInv'
<1>1. PICK S \in SUBSET Session : Close(f, S)
  <2>1. PICK S : S = {s \in Session : work[f][s] # Nil /\ work[f][s].pid = p}  OBVIOUS
  <2>2. Close(f, S)  BY <2>1 DEF HandleControlCmd, Close
  <2> QED  BY <2>1, <2>2
<1>2. fe[f].at = "idle" /\ UNCHANGED <<worker, query, ran, file, path, fe, answer>>
  BY DEF HandleControlCmd, At, diskvars, clientvars
<1>3. /\ work' \in [Frontend -> [Session -> Entry \cup {Nil}]]
      /\ conn' \in [Conn -> Connection]
      /\ \A g \in Frontend \ {f} : work'[g] = work[g]
      /\ \A s \in Session : work'[f][s] \in {Nil, work[f][s]}
      /\ \A k \in Conn : Untouched(k) /\ NothingSent(k)
  BY <1>1, CloseFacts
<1>4. WebType'  BY <1>2, <1>3 DEF IInv, WebType
<1>5. WorkersNamed' /\ WorkersKept /\ OwnAnswer'
  BY <1>2 DEF IInv, WorkersNamed, WorkersKept, OwnAnswer
<1>6. FrontOK(f)'  BY <1>2 DEF IInv, FrontOK
<1>7. ASSUME NEW s \in Session PROVE EntryOK(f, s)'
  <2>1. CASE work'[f][s] = Nil  BY <2>1 DEF EntryOK
  <2>2. CASE work'[f][s] # Nil
    <3>1. work'[f][s] = work[f][s] /\ work[f][s] # Nil  BY <1>3, <2>2
    <3> QED  BY <1>2, <1>3, <3>1, EntryReady DEF EntryOK, Untouched, Waits
  <2> QED  BY <2>1, <2>2
<1>8. Unshared'
  <2>1. \A g \in Frontend, s \in Session : work'[g][s] # Nil /\ work'[g][s].k # Nil =>
          work[g][s] # Nil /\ work[g][s].k = work'[g][s].k
    BY <1>3
  <2> QED  BY <2>1, UnsharedKept
<1>9. fe'[f].at \notin Unsent  BY <1>2 DEF Unsent
<1> QED
  BY <1>2, <1>3, <1>4, <1>5, <1>6, <1>7, <1>8, <1>9, FrontendStep
-----------------------------------------------------------------------------
(* Queries *)

\* The next query is one that did not come yet, and those that came stay in order.
LEMMA NextQueryNew ==
  ASSUME IInv, NextQuery \in Query, NEW r \in Request,
         query' = [query EXCEPT ![NextQuery] = r]
  PROVE  /\ query[NextQuery] = Nil /\ query'[NextQuery] = r /\ r # Nil
         /\ \A q \in Query \ {NextQuery} : query'[q] = query[q]
         /\ query' \in [Query -> Request \cup {Nil}]
         /\ \E n \in 0 .. MaxQuery : {q \in Query : query'[q] # Nil} = 1 .. n
<1>0. query \in [Query -> Request \cup {Nil}] /\ Nil \notin Request /\ MaxQuery \in Nat
  BY NilAssumption, BoundAssumption DEF IInv, WebType
<1>1. PICK n \in 0 .. MaxQuery : {q \in Query : query[q] # Nil} = 1 .. n
  BY DEF IInv, Numbered
<1>2. NextQuery = n + 1
  <2>1. n \in Int /\ 1 \in Int  BY <1>0
  <2>2. Cardinality(1 .. n) = IF 1 > n THEN 0 ELSE n - 1 + 1  BY <2>1, FS_Interval
  <2>3. NextQuery = 1 + Cardinality(1 .. n)  BY <1>1 DEF NextQuery
  <2>4. n \in Nat  BY <1>0, <1>1
  <2> QED  BY <2>2, <2>3, <2>4
<1>3. n \in Nat /\ n + 1 \in Query /\ n + 1 \in 0 .. MaxQuery
  BY <1>0, <1>1, <1>2 DEF Query
<1>4. n + 1 \notin 1 .. n  BY <1>3
<1>5. query[n + 1] = Nil  BY <1>1, <1>3, <1>4
<1> HIDE DEF NextQuery
<1>6. /\ query'[n + 1] = r /\ r # Nil /\ \A q \in Query \ {n + 1} : query'[q] = query[q]
      /\ query' \in [Query -> Request \cup {Nil}]
  BY <1>0, <1>2, <1>3
<1>7. {q \in Query : query'[q] # Nil} = {q \in Query : query[q] # Nil} \cup {n + 1}
  BY <1>3, <1>6
<1>8. 1 .. (n + 1) = (1 .. n) \cup {n + 1}  BY <1>3
<1> QED  BY <1>1, <1>2, <1>3, <1>5, <1>6, <1>7, <1>8

\* A query that comes is nowhere else.
LEMMA ClientInv ==
  ASSUME IInv, NEW f \in Frontend, Client(f)
  PROVE  IInv'
<1>0. /\ WebType /\ WorkersNamed /\ Unshared /\ UnsentOnce /\ SentOnce /\ Numbered
      /\ AtMostOnce /\ RanInSession /\ OwnAnswer
      /\ \A g \in Frontend : FrontOK(g) /\ \A s \in Session : EntryOK(g, s)
      /\ Nil \notin Session /\ Nil \notin Entry /\ Nil \notin Query
  BY SessionAssumption, NilAssumption DEF IInv
<1> PICK q : q = NextQuery  OBVIOUS
<1>1. /\ fe[f].at = "idle" /\ q \in Query
      /\ UNCHANGED <<worker, ran, file, path, conn>>
  BY DEF Client, Receive, Login, Reads, At, diskvars, procvars
<1> DEFINE Comes(r) ==
      /\ query' = [query EXCEPT ![q] = r]
      /\ \/ /\ fe' = fe /\ work' = work
            /\ answer' = [answer EXCEPT ![q] = [page |-> "login", of |-> Nil]]
         \/ /\ r.sess = Nil /\ work' = work /\ answer' = answer
            /\ fe' = [fe EXCEPT ![f] = [Idle EXCEPT !.at = "spawn", !.q = q]]
         \/ /\ r.sess \in Session /\ work[f][r.sess] # Nil /\ work' = work /\ answer' = answer
            /\ fe' = [fe EXCEPT ![f] = [Idle EXCEPT !.at = "save", !.q = q, !.sess = r.sess]]
         \/ /\ r.sess \in Session /\ work[f][r.sess] = Nil /\ answer' = answer
            /\ work' = [work EXCEPT ![f] =
                          [work[f] EXCEPT ![r.sess] = [k |-> Nil, pid |-> Nil]]]
            /\ fe' = [fe EXCEPT ![f] = [Idle EXCEPT !.at = "connect", !.q = q, !.sess = r.sess]]
<1>2. PICK r \in Request : Comes(r)
  <2>1. CASE Login(f)
    <3>1. [sess |-> Nil, op |-> "login"] \in Request  BY DEF Request
    <3>2. Comes([sess |-> Nil, op |-> "login"])  BY <2>1 DEF Login
    <3> QED  BY <3>1, <3>2
  <2>2. ASSUME NEW s \in Session, NEW op \in Kinds, Receive(f, s, op)
        PROVE  \E r \in Request : Comes(r)
    <3>1. [sess |-> s, op |-> op] \in Request  BY <2>2 DEF Request
    <3>2. Comes([sess |-> s, op |-> op])
      <4>1. query' = [query EXCEPT ![q] = [sess |-> s, op |-> op]]  BY <2>2 DEF Receive
      <4>2. CASE s \notin file
        BY <2>2, <4>1, <4>2 DEF Receive
      <4>3. CASE s \in file /\ work[f][s] # Nil
        BY <2>2, <4>1, <4>3 DEF Receive
      <4>4. CASE s \in file /\ work[f][s] = Nil
        BY <2>2, <4>1, <4>4 DEF Receive
      <4> QED  BY <4>2, <4>3, <4>4
    <3> QED  BY <3>1, <3>2
  <2> QED  BY <2>1, <2>2 DEF Client
<1> HIDE DEF Comes
<1>3. /\ query[q] = Nil /\ query'[q] = r /\ r # Nil
      /\ \A x \in Query \ {q} : query'[x] = query[x]
      /\ query' \in [Query -> Request \cup {Nil}]
      /\ \E n \in 0 .. MaxQuery : {x \in Query : query'[x] # Nil} = 1 .. n
  <2>1. NextQuery \in Query /\ query' = [query EXCEPT ![NextQuery] = r]
    BY <1>1, <1>2 DEF Comes
  <2> HIDE DEF NextQuery
  <2> QED  BY <2>1, NextQueryNew
<1>4. \A x \in Query : query[x] # Nil => x # q /\ query'[x] = query[x]  BY <1>3
<1>5. /\ \A g \in Frontend : fe[g].q # q
      /\ \A k \in Conn : conn[k].in # q
      /\ ran[q] = << >>
  <2>1. \A g \in Frontend : fe[g].q # q
    BY <1>0, <1>1, <1>3 DEF FrontOK
  <2>2. \A k \in Conn : conn[k].in # q  BY <1>0, <1>1, <1>3 DEF SentOnce
  <2> QED  BY <1>0, <1>1, <1>3, <2>1, <2>2 DEF Numbered
<1>6. /\ fe' \in [Frontend -> Place] /\ \A g \in Frontend \ {f} : fe'[g] = fe[g]
      /\ \/ fe' = fe
         \/ /\ fe'[f].at \in {"spawn", "save", "connect"} /\ fe'[f].q = q /\ fe'[f].sess = r.sess
            /\ fe'[f].at # "spawn" => r.sess \in Session
  <2>1. CASE fe' = fe  BY <1>0, <2>1 DEF WebType
  <2>2. CASE fe' # fe
    <3>1. r.sess \in Session \cup {Nil}  BY DEF Request
    <3>2. PICK p \in {[Idle EXCEPT !.at = "spawn", !.q = q],
                      [Idle EXCEPT !.at = "save", !.q = q, !.sess = r.sess],
                      [Idle EXCEPT !.at = "connect", !.q = q, !.sess = r.sess]} :
            /\ fe' = [fe EXCEPT ![f] = p]
            /\ IF p.at = "spawn" THEN r.sess = Nil ELSE r.sess \in Session
      BY <1>2, <2>2 DEF Comes, Idle
    <3>3. /\ p \in Place /\ p.at \in {"spawn", "save", "connect"} /\ p.q = q /\ p.sess = r.sess
          /\ p.at # "spawn" => r.sess \in Session
      BY <1>1, <3>1, <3>2 DEF Idle, Place
    <3> QED  BY <1>0, <3>2, <3>3 DEF WebType
  <2> QED  BY <2>1, <2>2
<1>7. /\ work' \in [Frontend -> [Session -> Entry \cup {Nil}]]
      /\ \A g \in Frontend \ {f} : work'[g] = work[g]
      /\ \A s \in Session : work'[f][s] = work[f][s] \/ (work'[f][s] # Nil /\ work'[f][s].k = Nil
                               /\ fe'[f].at = "connect" /\ s = r.sess)
      /\ fe'[f].at \in {"save", "connect"} => work'[f][r.sess] # Nil
  <2> DEFINE e == [k |-> Nil, pid |-> Nil]
  <2>1. e \in Entry /\ e # Nil /\ e.k = Nil  BY <1>0 DEF Entry
  <2>2. CASE work' = work /\ (fe'[f].at \in {"save", "connect"} => work[f][r.sess] # Nil)
    BY <1>0, <2>2 DEF WebType
  <2>3. CASE /\ r.sess \in Session
             /\ work' = [work EXCEPT ![f] = [work[f] EXCEPT ![r.sess] = e]]
             /\ fe'[f].at = "connect"
    <3> HIDE DEF e
    <3> QED  BY <1>0, <2>1, <2>3 DEF WebType
  <2>4. \/ work' = work /\ (fe'[f].at \in {"save", "connect"} => work[f][r.sess] # Nil)
        \/ /\ r.sess \in Session
           /\ work' = [work EXCEPT ![f] = [work[f] EXCEPT ![r.sess] = e]]
           /\ fe'[f].at = "connect"
    <3>1. \A at : fe' = [fe EXCEPT ![f] = [Idle EXCEPT !.at = at, !.q = q]] => fe'[f].at = at
      BY <1>0 DEF WebType, Idle
    <3>2. \A at : fe' = [fe EXCEPT ![f] = [Idle EXCEPT !.at = at, !.q = q, !.sess = r.sess]] =>
            fe'[f].at = at
      BY <1>0 DEF WebType, Idle
    <3> QED  BY <1>1, <1>2, <3>1, <3>2 DEF Comes
  <2> QED  BY <2>2, <2>3, <2>4
<1>8. answer' \in [Query -> Reply \cup {Nil}] /\ OwnAnswer'
  <2>1. CASE answer' = answer  BY <1>0, <2>1 DEF WebType, OwnAnswer
  <2>2. CASE answer' = [answer EXCEPT ![q] = [page |-> "login", of |-> Nil]]
    <3>1. [page |-> "login", of |-> Nil] \in Reply  BY DEF Reply, Page
    <3>2. /\ answer'[q].page = "login" /\ \A x \in Query \ {q} : answer'[x] = answer[x]
          /\ answer' \in [Query -> Reply \cup {Nil}]
      BY <1>0, <1>1, <2>2, <3>1 DEF WebType
    <3> QED  BY <1>0, <3>2 DEF OwnAnswer
  <2> QED  BY <1>2, <2>1, <2>2 DEF Comes
<1>9. WebType'  BY <1>0, <1>1, <1>3, <1>6, <1>7, <1>8 DEF WebType
<1>10. WorkersNamed' /\ WorkersKept
  BY <1>0, <1>1 DEF WorkersNamed, WorkersKept
<1>11. \A k \in Conn : Untouched(k)  BY <1>1, ConnectionsSame
<1>12. ASSUME NEW g \in Frontend \ {f}
       PROVE  FrontOK(g)' /\ \A s \in Session : EntryOK(g, s)'
  <2>1. \A s \in Session : work[g][s] # Nil /\ work[g][s].k # Nil => Untouched(work[g][s].k)
    BY <1>0, <1>11 DEF WebType, Entry
  <2> QED  BY <1>4, <1>6, <1>7, <1>10, <2>1, OthersKept
<1>13. FrontOK(f)'
  <2>1. CASE fe' = fe  BY <1>1, <2>1, <1>0 DEF FrontOK
  <2>2. CASE fe' # fe  BY <1>1, <1>3, <1>6, <1>7, <2>2 DEF FrontOK
  <2> QED  BY <2>1, <2>2
<1>14. ASSUME NEW s \in Session PROVE EntryOK(f, s)'
  <2>1. CASE work'[f][s] = work[f][s]
    <3>1. work[f][s] # Nil => work[f][s].k \in Conn /\ work[f][s].k # Nil
            /\ LET c == conn[work[f][s].k] IN
               c.fe # "none" /\ c.in = Nil /\ c.out = Nil /\ c.p \in Pid /\ worker[c.p].sess = s
      BY <1>1, EntryReady
    <3>2. fe'[f].at \notin {"resp", "body"}  BY <1>1, <1>6
    <3> QED  BY <1>1, <2>1, <3>1, <3>2 DEF EntryOK, Waits
  <2>2. CASE work'[f][s] # work[f][s]
    BY <1>6, <1>7, <1>1, <2>2 DEF EntryOK
  <2> QED  BY <2>1, <2>2
<1>15. Unshared'
  <2>1. \A g \in Frontend, s \in Session : work'[g][s] # Nil /\ work'[g][s].k # Nil =>
          work[g][s] # Nil /\ work[g][s].k = work'[g][s].k
    BY <1>7
  <2> QED  BY <2>1, UnsharedKept
<1>16. UnsentOnce'
  <2>1. ASSUME NEW g \in Frontend, fe'[g].at \in Unsent
        PROVE  ran'[fe'[g].q] = << >> /\ \A k \in Conn : conn'[k].in # fe'[g].q
    BY <1>0, <1>1, <1>5, <1>6, <2>1 DEF UnsentOnce
  <2>2. ASSUME NEW g \in Frontend, NEW h \in Frontend, fe'[g].at # "idle", fe'[g].q = fe'[h].q
        PROVE  g = h
    BY <1>0, <1>1, <1>5, <1>6, <2>2 DEF UnsentOnce
  <2> QED  BY <2>1, <2>2 DEF UnsentOnce
<1>17. SentOnce'
  BY <1>0, <1>1, <1>4 DEF SentOnce, WebType, Connection
<1>18. Numbered' /\ AtMostOnce'
  BY <1>0, <1>1, <1>3, <1>4 DEF Numbered, AtMostOnce
<1>19. RanInSession'
  BY <1>0, <1>1, <1>3, <1>5 DEF RanInSession
<1> QED
  BY <1>8, <1>9, <1>10, <1>12, <1>13, <1>14, <1>15, <1>16, <1>17, <1>18, <1>19 DEF IInv
-----------------------------------------------------------------------------
(* Workers *)

\* A process that ends has no connection open, nor one that waits to be accepted.
LEMMA HangupFacts ==
  ASSUME IInv, NEW p \in Pid, conn' = Hangup(p)
  PROVE  /\ conn' \in [Conn -> Connection]
         /\ \A k \in Conn : Untouched(k) /\ NothingSent(k)
         /\ \A k \in Conn : conn[k].p = p => conn'[k].wk \notin {"pending", "open"}
<1>1. conn \in [Conn -> Connection]  BY DEF IInv, WebType
<1>2. ASSUME NEW k \in Conn
      PROVE  /\ conn'[k] \in Connection /\ Untouched(k) /\ NothingSent(k)
             /\ conn[k].p = p => conn'[k].wk \notin {"pending", "open"}
  <2>0. conn[k] \in Connection  BY <1>1
  <2>1. CASE conn[k].p # p
    <3>1. conn'[k] = conn[k]  BY <2>1 DEF Hangup
    <3> QED  BY <2>0, <2>1, <3>1 DEF Untouched, NothingSent
  <2>2. CASE conn[k].p = p
    <3> PICK wk : wk = IF conn[k].wk = "pending" THEN "refused"
                       ELSE IF conn[k].wk = "open" THEN "closed" ELSE conn[k].wk  OBVIOUS
    <3>1. conn'[k] = [conn[k] EXCEPT !.wk = wk]  BY <2>2 DEF Hangup
    <3>2. /\ wk \in {"none", "closed", "refused"}
          /\ wk \notin {"pending", "open"}
      BY <2>0 DEF Connection
    <3> QED  BY <2>0, <2>2, <3>1, <3>2 DEF Untouched, NothingSent, Connection
  <2> QED  BY <2>1, <2>2
<1>3. conn' = [k \in Conn |-> conn'[k]]  BY DEF Hangup
<1> QED  BY <1>2, <1>3

\* A worker goes on, or ends, and sockets may be removed.
LEMMA EndsFacts ==
  ASSUME IInv, NEW p \in Pid, NEW st \in {"bind", "closing", "gone"}, Ends(p, st),
         worker[p].st # "none", st # "gone" => worker[p].sess \in Session,
         path' \in [Session -> Pid \cup {Nil}],
         \A s \in Session : path'[s] \in {Nil, path[s]}
  PROVE  worker' \in [Pid -> Process] /\ WorkersNamed' /\ WorkersKept
<1>0. WebType /\ WorkersNamed /\ Nil \notin Session
  BY SessionAssumption DEF IInv
<1>1. worker' = [worker EXCEPT ![p].st = st]  BY DEF Ends
<1>2. /\ worker'[p] \in Process /\ worker'[p].st = st /\ worker'[p].sess = worker[p].sess
      /\ \A x \in Pid \ {p} : worker'[x] = worker[x]
  <2>1. worker[p] \in Process /\ worker'[p] = [worker[p] EXCEPT !.st = st]
    BY <1>0, <1>1 DEF WebType
  <2> QED  BY <1>0, <1>1, <2>1 DEF WebType, Process
<1>3. worker' \in [Pid -> Process]  BY <1>0, <1>1, <1>2 DEF WebType
<1>4. WorkersKept  BY <1>2 DEF WorkersKept
<1>5. \A x \in Pid : worker'[x].sess = worker[x].sess  BY <1>2
<1>6. \A x \in Pid : worker'[x].st = "none" => worker'[x].sess = Nil
  BY <1>0, <1>2 DEF WorkersNamed
<1>7. \A x \in Pid : worker'[x].st \in {"bind", "ready", "closing"} => worker'[x].sess \in Session
  BY <1>0, <1>2 DEF WorkersNamed
<1>8. \A s \in Session : path'[s] # Nil => worker'[path'[s]].sess = s
  BY <1>0, <1>5 DEF WorkersNamed, WebType
<1> QED  BY <1>3, <1>4, <1>6, <1>7, <1>8 DEF WorkersNamed

\* A worker that ends, whatever files and sockets it removes.
LEMMA EndsInv ==
  ASSUME IInv, NEW p \in Pid, NEW st \in {"bind", "closing", "gone"}, Ends(p, st),
         worker[p].st # "none", st # "gone" => worker[p].sess \in Session,
         path' \in [Session -> Pid \cup {Nil}],
         \A s \in Session : path'[s] \in {Nil, path[s]},
         file' \subseteq Session,
         conn' = conn \/ conn' = Hangup(p),
         UNCHANGED <<work, fe, query, answer, ran>>
  PROVE  IInv'
<1>1. worker' \in [Pid -> Process] /\ WorkersNamed' /\ WorkersKept  BY EndsFacts
<1>2. conn' \in [Conn -> Connection] /\ \A k \in Conn : Untouched(k) /\ NothingSent(k)
  <2>1. CASE conn' = conn  BY <2>1, ConnectionsSame DEF IInv, WebType
  <2>2. CASE conn' = Hangup(p)  BY <2>2, HangupFacts
  <2> QED  BY <2>1, <2>2
<1>3. WebType'  BY <1>1, <1>2 DEF IInv, WebType
<1> QED  BY <1>1, <1>2, <1>3, WorkerStep

\* A session is loaded, or made.
LEMMA LoadSessionInv ==
  ASSUME IInv, NEW p \in Pid, LoadSession(p)
  PROVE  IInv'
<1>0. WebType /\ WorkersNamed /\ Nil \notin Session /\ Nil \notin Pid
  BY SessionAssumption, NilAssumption DEF IInv
<1>1. worker[p].st = "start" /\ UNCHANGED <<path, conn, work, fe, query, answer, ran>>
  BY DEF LoadSession, frontvars, clientvars
<1>2. file \subseteq Session /\ path \in [Session -> Pid \cup {Nil}]  BY <1>0 DEF WebType
<1>3. CASE worker[p].sess \in file /\ Ends(p, "bind") /\ file' = file
  BY <1>1, <1>2, <1>3, EndsInv
<1>4. CASE Ends(p, "gone") /\ file' = file
  BY <1>1, <1>2, <1>4, EndsInv
<1>5. ASSUME worker[p].sess = Nil, NEW n \in Session,
             file' = file \cup {n},
             worker' = [worker EXCEPT ![p].st = "bind", ![p].sess = n]
      PROVE  IInv'
  <2>1. /\ worker'[p] \in Process /\ worker'[p].st = "bind" /\ worker'[p].sess = n
        /\ \A x \in Pid \ {p} : worker'[x] = worker[x]
        /\ worker' \in [Pid -> Process]
    BY <1>0, <1>5 DEF WebType, Process
  <2>2. WebType'  BY <1>0, <1>1, <1>5, <2>1 DEF WebType
  <2>3. WorkersKept  BY <1>1, <1>5, <2>1 DEF WorkersKept
  <2>4. WorkersNamed'
    <3>1. \A s \in Session : path[s] # p  BY <1>0, <1>5 DEF WorkersNamed, WebType
    <3>2. \A s \in Session : path[s] # Nil => worker'[path[s]] = worker[path[s]]
      BY <1>0, <2>1, <3>1 DEF WebType
    <3>3. \A s \in Session : path'[s] # Nil => worker'[path'[s]].sess = s
      BY <1>0, <1>1, <3>2 DEF WorkersNamed
    <3>4. \A x \in Pid : worker'[x].st = "none" => worker'[x].sess = Nil
      BY <1>0, <2>1 DEF WorkersNamed
    <3>5. \A x \in Pid : worker'[x].st \in {"bind", "ready", "closing"} => worker'[x].sess \in Session
      BY <1>0, <1>5, <2>1 DEF WorkersNamed
    <3> QED  BY <3>3, <3>4, <3>5 DEF WorkersNamed
  <2>5. \A k \in Conn : Untouched(k) /\ NothingSent(k)  BY <1>1, ConnectionsSame
  <2> QED  BY <1>1, <2>2, <2>3, <2>4, <2>5, WorkerStep
<1> QED  BY <1>3, <1>4, <1>5 DEF LoadSession

\* A socket is bound under the name of the session of the worker, if none is there.
LEMMA BindInv ==
  ASSUME IInv, NEW p \in Pid, Bind(p)
  PROVE  IInv'
<1>0. WebType /\ WorkersNamed /\ Nil \notin Session
  BY SessionAssumption DEF IInv
<1> PICK s : s = worker[p].sess  OBVIOUS
<1>1. /\ worker[p].st = "bind" /\ s \in Session
      /\ UNCHANGED <<conn, work, fe, query, answer, ran>>
  BY <1>0 DEF Bind, WorkersNamed, frontvars, clientvars
<1>2. CASE path[s] = Nil
  <2>1. /\ path' = [path EXCEPT ![s] = p] /\ file' = file
        /\ worker' = [worker EXCEPT ![p].st = "ready", ![p].told = TRUE]
    BY <1>2 DEF Bind
  <2>2. /\ worker'[p] \in Process /\ worker'[p].st = "ready" /\ worker'[p].sess = s
        /\ \A x \in Pid \ {p} : worker'[x] = worker[x]
        /\ worker' \in [Pid -> Process]
    <3>1. /\ worker[p] \in Process
          /\ worker'[p] = [worker[p] EXCEPT !.st = "ready", !.told = TRUE]
          /\ \A x \in Pid \ {p} : worker'[x] = worker[x]
      BY <1>0, <2>1 DEF WebType
    <3>2. worker'[p] \in Process /\ worker'[p].st = "ready" /\ worker'[p].sess = s
      BY <3>1 DEF Process
    <3> QED  BY <1>0, <2>1, <3>1, <3>2 DEF WebType
  <2>3. path' \in [Session -> Pid \cup {Nil}] /\ path'[s] = p
        /\ \A t \in Session \ {s} : path'[t] = path[t]
    BY <1>0, <1>1, <2>1 DEF WebType
  <2>4. WebType'  BY <1>0, <1>1, <2>1, <2>2, <2>3 DEF WebType
  <2>5. WorkersKept  BY <1>1, <2>2 DEF WorkersKept
  <2>6. WorkersNamed'
    <3>1. \A x \in Pid : worker'[x].sess = worker[x].sess  BY <2>2
    <3>2. \A t \in Session : path'[t] # Nil => worker'[path'[t]].sess = t
      BY <1>0, <2>3, <3>1 DEF WorkersNamed, WebType
    <3>3. \A x \in Pid : worker'[x].st = "none" => worker'[x].sess = Nil
      BY <1>0, <2>2 DEF WorkersNamed
    <3>4. \A x \in Pid : worker'[x].st \in {"bind", "ready", "closing"} => worker'[x].sess \in Session
      BY <1>0, <1>1, <2>2 DEF WorkersNamed
    <3> QED  BY <3>2, <3>3, <3>4 DEF WorkersNamed
  <2>7. \A k \in Conn : Untouched(k) /\ NothingSent(k)  BY <1>1, ConnectionsSame
  <2> QED  BY <1>1, <2>4, <2>5, <2>6, <2>7, WorkerStep
<1>3. CASE path[s] # Nil
  <2>1. path' = [path EXCEPT ![s] = Nil] /\ Ends(p, "gone") /\ file' \in {file, file \ {s}}
    BY <1>3 DEF Bind
  <2>2. /\ path' \in [Session -> Pid \cup {Nil}] /\ file' \subseteq Session
        /\ \A t \in Session : path'[t] \in {Nil, path[t]}
    BY <1>0, <2>1 DEF WebType
  <2> QED  BY <1>1, <2>1, <2>2, EndsInv
<1> QED  BY <1>2, <1>3
\* A worker accepts or refuses a connection, or sees that it was closed.
LEMMA ConnectionStep ==
  ASSUME IInv, NEW k \in Conn, NEW wk \in {"open", "closed", "refused"},
         conn[k].wk \in {"pending", "open"},
         conn' = [conn EXCEPT ![k].wk = wk],
         UNCHANGED <<file, path, worker, work, fe, query, answer, ran>>
  PROVE  IInv'
<1>0. WebType  BY DEF IInv
<1>1. conn[k] \in Connection /\ conn'[k] = [conn[k] EXCEPT !.wk = wk]
  BY <1>0 DEF WebType
<1>2. conn'[k] \in Connection /\ Untouched(k) /\ NothingSent(k)
  BY <1>1 DEF Connection, Untouched, NothingSent
<1>3. ASSUME NEW j \in Conn, j # k  PROVE Untouched(j) /\ NothingSent(j)
  <2>1. conn'[j] = conn[j]  BY <1>0, <1>3 DEF WebType
  <2> QED  BY <2>1 DEF Untouched, NothingSent
<1>4. conn' \in [Conn -> Connection]  BY <1>0, <1>2 DEF WebType
<1>5. WebType' /\ WorkersNamed' /\ WorkersKept
  BY <1>0, <1>4 DEF WebType, IInv, WorkersNamed, WorkersKept
<1> QED  BY <1>2, <1>3, <1>5, WorkerStep

LEMMA AcceptInv ==
  ASSUME IInv, NEW p \in Pid, NEW k \in Conn, Accept(p, k)
  PROVE  IInv'
<1>0. WebType /\ WorkersNamed  BY DEF IInv
<1>1. /\ worker[p].st = "ready" /\ conn[k].wk = "pending"
      /\ UNCHANGED <<work, fe, query, answer, ran>>
  BY DEF Accept, frontvars, clientvars
<1>2. CASE /\ UNCHANGED <<diskvars, worker>>
           /\ conn' = [conn EXCEPT ![k].wk = "open"] \/ conn' = [conn EXCEPT ![k].wk = "refused"]
  BY <1>1, <1>2, ConnectionStep DEF diskvars
<1>3. CASE /\ conn' = Hangup(p) /\ Ends(p, "gone")
           /\ path' = [path EXCEPT ![worker[p].sess] = Nil]
           /\ file' \in {file, file \ {worker[p].sess}}
  <2>1. /\ path' \in [Session -> Pid \cup {Nil}] /\ file' \subseteq Session
        /\ \A t \in Session : path'[t] \in {Nil, path[t]}
    BY <1>0, <1>3 DEF WebType
  <2> QED  BY <1>1, <1>3, <2>1, EndsInv
<1> QED  BY <1>2, <1>3 DEF Accept

\* The frontend's end is closed, and nothing is left to read.
LEMMA EofInv ==
  ASSUME IInv, NEW p \in Pid, NEW k \in Conn, Eof(p, k)
  PROVE  IInv'
BY ConnectionStep DEF Eof, diskvars, frontvars, clientvars

\* A worker ends because it was idle for long, when its name is removed after that,
\* or because it is killed.
LEMMA WorkerEndsInv ==
  ASSUME IInv, NEW p \in Pid, WorkerTimeout(p) \/ Unlink(p) \/ Killed(p)
  PROVE  IInv'
<1>0. WebType /\ WorkersNamed  BY DEF IInv
<1>1. file \subseteq Session /\ path \in [Session -> Pid \cup {Nil}]  BY <1>0 DEF WebType
<1>2. CASE WorkerTimeout(p)
  <2>1. worker[p].sess \in Session /\ worker[p].st # "none"
    BY <1>0, <1>2 DEF WorkersNamed, WorkerTimeout
  <2> QED  BY <1>1, <1>2, <2>1, EndsInv DEF WorkerTimeout, diskvars, frontvars, clientvars
<1>3. CASE Unlink(p)
  <2>1. /\ path' \in [Session -> Pid \cup {Nil}]
        /\ \A t \in Session : path'[t] \in {Nil, path[t]}
    BY <1>0, <1>3 DEF WebType, Unlink
  <2> QED  BY <1>1, <1>3, <2>1, EndsInv DEF Unlink, frontvars, clientvars
<1>4. CASE Killed(p)
  BY <1>1, <1>4, EndsInv DEF Killed, diskvars, frontvars, clientvars
<1> QED  BY <1>2, <1>3, <1>4

\* A query is executed: it was on the connection of the worker alone, and no process
\* was given it before.
LEMMA ExecuteInv ==
  ASSUME IInv, NEW p \in Pid, NEW k \in Conn, Execute(p, k)
  PROVE  IInv'
<1>0. /\ WebType /\ WorkersNamed /\ Unshared /\ UnsentOnce /\ SentOnce /\ Numbered
      /\ AtMostOnce /\ RanInSession /\ OwnAnswer
      /\ \A g \in Frontend : FrontOK(g) /\ \A s \in Session : EntryOK(g, s)
      /\ Nil \notin Session /\ Nil \notin Entry /\ Nil \notin Query /\ Nil \notin Conn
  BY SessionAssumption, NilAssumption DEF IInv
<1> PICK q : q = conn[k].in  OBVIOUS
<1> PICK s : s = worker[p].sess  OBVIOUS
<1>1. /\ worker[p].st = "ready" /\ conn[k].p = p /\ conn[k].wk = "open"
      /\ q \in Query /\ s \in Session
      /\ ran' = [ran EXCEPT ![q] = Append(@, s)]
      /\ UNCHANGED <<path, work, fe, query, answer>>
  BY <1>0 DEF Execute, WebType, Connection, WorkersNamed, frontvars, clientvars
<1>2. /\ query[q] # Nil /\ ran[q] = << >>
      /\ query[q].sess # Nil => s = query[q].sess
      /\ \A j \in Conn : conn[j].in = q /\ conn[j].wk = "open" => j = k
  BY <1>0, <1>1 DEF SentOnce
<1>3. /\ ran'[q] = <<s>> /\ \A x \in Query \ {q} : ran'[x] = ran[x]
      /\ ran' \in [Query -> Seq(Session)]
  <2> PICK e : e = <<s>>  OBVIOUS
  <2>1. Append(<< >>, s) = e /\ e \in Seq(Session)  BY <1>1
  <2>2. ran' = [ran EXCEPT ![q] = e]  BY <1>1, <1>2, <2>1
  <2>3. ran \in [Query -> Seq(Session)]  BY <1>0 DEF WebType
  <2>4. ran'[q] = e /\ \A x \in Query \ {q} : ran'[x] = ran[x]  BY <1>1, <2>2, <2>3
  <2>5. ran' \in [Query -> Seq(Session)]  BY <2>1, <2>2, <2>3
  <2> QED  BY <2>4, <2>5
<1> DEFINE Answered1 == /\ conn' = [conn EXCEPT ![k].in = Nil, ![k].out = q]
                        /\ file' = file /\ worker' = worker
           Ended(st) == /\ conn' = Hangup(p) /\ Ends(p, st)
                        /\ file' \subseteq file
<1>4. Answered1 \/ \E st \in {"gone", "closing"} : Ended(st)
  BY <1>1 DEF Execute
<1>5. /\ WebType' /\ WorkersNamed' /\ WorkersKept
      /\ \A j \in Conn : conn[j].fe # "none" => conn'[j].fe # "none"
      /\ \A j \in Conn : conn'[j].p = conn[j].p
      /\ \A j \in Conn \ {k} : conn'[j].in = conn[j].in /\ conn'[j].out = conn[j].out
      /\ \/ conn'[k].in = Nil /\ conn'[k].out = q
         \/ conn'[k].in = q /\ conn'[k].out = conn[k].out /\ conn'[k].wk # "open"
      /\ \A j \in Conn : /\ conn'[j].wk = "pending" => conn[j].wk = "pending"
                         /\ conn'[j].wk = "open" => conn[j].wk \in {"pending", "open"}
  <2>1. CASE Answered1
    <3>1. /\ conn[k] \in Connection
          /\ conn'[k] = [conn[k] EXCEPT !.in = Nil, !.out = q]
          /\ \A j \in Conn \ {k} : conn'[j] = conn[j]
      BY <1>0, <2>1 DEF WebType
    <3>2. conn'[k] \in Connection /\ conn'[k].in = Nil /\ conn'[k].out = q
          /\ conn'[k].p = conn[k].p /\ conn'[k].fe = conn[k].fe /\ conn'[k].wk = conn[k].wk
      BY <1>1, <3>1 DEF Connection
    <3>3. conn' \in [Conn -> Connection]  BY <1>0, <2>1, <3>1, <3>2 DEF WebType
    <3>4. WebType' /\ WorkersNamed' /\ WorkersKept
      BY <1>0, <1>1, <1>3, <2>1, <3>3 DEF WebType, WorkersNamed, WorkersKept
    <3> QED  BY <1>1, <3>1, <3>2, <3>4
  <2>2. ASSUME NEW st \in {"gone", "closing"}, Ended(st)
        PROVE  /\ WebType' /\ WorkersNamed' /\ WorkersKept
               /\ \A j \in Conn : Untouched(j) /\ NothingSent(j)
               /\ conn'[k].wk # "open"
    <3>1. /\ conn' \in [Conn -> Connection]
          /\ \A j \in Conn : Untouched(j) /\ NothingSent(j)
          /\ conn'[k].wk # "open"
      BY <1>1, <2>2, HangupFacts
    <3>2. worker' \in [Pid -> Process] /\ WorkersNamed' /\ WorkersKept
      <4>1. /\ path' \in [Session -> Pid \cup {Nil}]
            /\ \A t \in Session : path'[t] \in {Nil, path[t]}
        BY <1>0, <1>1 DEF WebType
      <4>2. worker[p].st # "none" /\ worker[p].sess \in Session  BY <1>1
      <4>3. st \in {"bind", "closing", "gone"} /\ Ends(p, st)  BY <2>2
      <4> QED  BY <4>1, <4>2, <4>3, EndsFacts
    <3>3. WebType'  BY <1>0, <1>1, <1>3, <2>2, <3>1, <3>2 DEF WebType
    <3> QED  BY <3>1, <3>2, <3>3
  <2>3. ASSUME NEW st \in {"gone", "closing"}, Ended(st), NEW j \in Conn
        PROVE  /\ conn'[j].wk = "pending" => conn[j].wk = "pending"
               /\ conn'[j].wk = "open" => conn[j].wk \in {"pending", "open"}
    BY <2>3 DEF Hangup
  <2> HIDE DEF Answered1, Ended
  <2>4. CASE \E st \in {"gone", "closing"} : Ended(st)
    BY <1>1, <2>2, <2>3, <2>4 DEF Untouched
  <2> QED  BY <1>4, <2>1, <2>4
<1> HIDE DEF Answered1, Ended
<1>6. \A x \in Query : query[x] = Nil => ran'[x] = << >>
  BY <1>0, <1>2, <1>3 DEF Numbered
<1>7. ASSUME NEW g \in Frontend PROVE FrontOK(g)' /\ \A t \in Session : EntryOK(g, t)'
  <2>1. FrontOK(g)'
    BY <1>0, <1>1, <1>5 DEF FrontOK, WorkersKept
  <2>2. ASSUME NEW t \in Session PROVE EntryOK(g, t)'
    <3>0. EntryOK(g, t) /\ (work[g][t] # Nil => work[g][t].k \in Conn \cup {Nil})
      BY <1>0 DEF WebType, Entry
    <3>1. CASE work[g][t] = Nil \/ work[g][t].k = Nil
      BY <1>0, <1>1, <3>0, <3>1 DEF EntryOK
    <3>2. CASE work[g][t] # Nil /\ work[g][t].k # Nil
      <4> DEFINE j == work[g][t].k
      <4>1. /\ j \in Conn /\ conn'[j].fe # "none" /\ conn'[j].p \in Pid
            /\ worker'[conn'[j].p].sess = t
        BY <1>0, <1>5, <3>0, <3>2, ZenonT(30) DEF EntryOK, WorkersKept
      <4>2. CASE j # k
        <5>1. IF Waits(g, t) THEN /\ conn[j].in \in {Nil, fe[g].q}
                                  /\ conn[j].out \in {Nil, fe[g].q}
                                  /\ conn[j].out # Nil => conn[j].in = Nil
                                  /\ fe[g].at = "body" => conn[j].out # Nil
                             ELSE conn[j].in = Nil /\ conn[j].out = Nil
          BY <3>0, <3>2 DEF EntryOK
        <5>2. conn'[j].in = conn[j].in /\ conn'[j].out = conn[j].out  BY <1>5, <4>1, <4>2
        <5>3. work' = work /\ fe' = fe  BY <1>1
        <5> QED  BY <3>2, <4>1, <5>1, <5>2, <5>3 DEF EntryOK, Waits
      <4>3. CASE j = k
        <5>1. Waits(g, t) /\ q = fe[g].q /\ conn[k].out = Nil /\ fe[g].at = "resp"
          BY <1>0, <1>1, <3>0, <3>2, <4>3 DEF EntryOK, Waits
        <5> QED  BY <1>1, <1>5, <3>2, <4>1, <4>3, <5>1 DEF EntryOK, Waits
      <4> QED  BY <4>2, <4>3
    <3> QED  BY <3>1, <3>2
  <2> QED  BY <2>1, <2>2
<1>8. Unshared' /\ OwnAnswer'  BY <1>0, <1>1 DEF Unshared, OwnAnswer
<1>9. UnsentOnce'
  <2>1. ASSUME NEW g \in Frontend, fe[g].at \in Unsent
        PROVE  ran'[fe[g].q] = << >> /\ \A j \in Conn : conn'[j].in # fe[g].q
    <3>1. fe[g].q \in Query /\ fe[g].q # q
      BY <1>0, <1>1, <2>1 DEF FrontOK, Unsent, UnsentOnce
    <3> QED  BY <1>0, <1>3, <1>5, <2>1, <3>1 DEF UnsentOnce
  <2> QED  BY <1>0, <1>1, <2>1 DEF UnsentOnce
<1>10. SentOnce'
  <2>1. ASSUME NEW j \in Conn, conn'[j].in # Nil
        PROVE  /\ query[conn'[j].in] # Nil /\ conn'[j].wk # "pending" /\ conn'[j].p \in Pid
               /\ query[conn'[j].in].sess # Nil =>
                    worker'[conn'[j].p].sess = query[conn'[j].in].sess
               /\ conn'[j].in = conn[j].in
    BY <1>0, <1>1, <1>2, <1>5, <2>1 DEF SentOnce, WorkersKept
  <2>2. ASSUME NEW j \in Conn, conn'[j].in # Nil, conn'[j].wk = "open"
        PROVE  conn[j].wk = "open" /\ conn[j].in # q /\ conn[j].in \in Query
    BY <1>0, <1>1, <1>2, <1>5, <2>1, <2>2 DEF SentOnce, WebType, Connection
  <2>3. ASSUME NEW j \in Conn, conn'[j].in # Nil, conn'[j].wk = "open"
        PROVE  /\ ran'[conn'[j].in] = << >>
               /\ \A i \in Conn : conn'[i].in = conn'[j].in /\ conn'[i].wk = "open" => i = j
    <3>1. ran'[conn'[j].in] = << >>
      BY <1>0, <1>3, <2>1, <2>2, <2>3 DEF SentOnce
    <3>2. ASSUME NEW i \in Conn, conn'[i].in = conn'[j].in, conn'[i].wk = "open"
          PROVE  i = j
      BY <1>0, <2>1, <2>2, <2>3, <3>2 DEF SentOnce
    <3> QED  BY <3>1, <3>2
  <2> QED  BY <1>1, <2>1, <2>3 DEF SentOnce
<1>11. Numbered' /\ AtMostOnce' /\ RanInSession'
  <2>1. Numbered'  BY <1>0, <1>1, <1>6 DEF Numbered
  <2>2. Len(<<s>>) = 1 /\ DOMAIN <<s>> = {1} /\ <<s>>[1] = s  OBVIOUS
  <2>3. AtMostOnce'
    <3> SUFFICES ASSUME NEW x \in Query PROVE Len(ran'[x]) <= 1  BY DEF AtMostOnce
    <3>1. CASE x = q
      <4>1. Len(ran'[x]) = 1  BY <1>3, <2>2, <3>1
      <4> QED  BY <4>1
    <3>2. CASE x # q  BY <1>0, <1>3, <3>2 DEF AtMostOnce
    <3> QED  BY <3>1, <3>2
  <2>4. RanInSession'  BY <1>0, <1>1, <1>2, <1>3, <2>2 DEF RanInSession
  <2> QED  BY <2>1, <2>3, <2>4
<1> QED  BY <1>5, <1>7, <1>8, <1>9, <1>10, <1>11 DEF IInv-----------------------------------------------------------------------------
(* All steps *)

LEMMA FrontendInv ==
  ASSUME IInv, NEW f \in Frontend, ProcessQuery(f)
  PROVE  IInv'
<1>0. FrontOK(f) /\ conn \in [Conn -> Connection]  BY DEF IInv, WebType
<1>1. CASE CreateWorkerFails(f)
  <2>1. fe[f].at \in {"spawn", "wait"} /\ UNCHANGED <<worker, query, ran, file, path, work, conn>>
    BY <1>1 DEF CreateWorkerFails, At, diskvars, procvars
  <2> QED  BY <1>1, <2>1, GivesUpInv DEF CreateWorkerFails
<1>2. CASE ConnectFails(f)
  <2>1. /\ fe[f].at = "connect" /\ fe[f].sess \in Session /\ Fails(f)
        /\ UNCHANGED <<worker, query, ran, file, path>>
    BY <1>0, <1>2 DEF ConnectFails, At, diskvars, FrontOK
  <2> QED  BY <2>1, FailsInv
<1>3. CASE CreateWorker(f)  BY <1>3, CreateWorkerInv
<1>4. CASE WorkerStarted(f)  BY <1>4, WorkerStartedInv
<1>5. CASE Connect(f)  BY <1>5, ConnectInv
<1>6. CASE Respawn(f)  BY <1>6, RespawnInv
<1>7. CASE ReadPid(f)  BY <1>7, ReadPidInv
<1>8. CASE QuerySave(f)  BY <1>8, QuerySaveInv
<1>9. CASE Response(f) \/ ResponseBody(f)  BY <1>9, ResponseInv
<1> QED
  BY <1>1, <1>2, <1>3, <1>4, <1>5, <1>6, <1>7, <1>8, <1>9 DEF ProcessQuery

\* The reports of dead processes change nothing by themselves.
LEMMA CheckSignalsInv ==
  ASSUME IInv, NEW f \in Frontend, NEW p \in Pid, CheckSignals(f, p)
  PROVE  IInv'
<1>1. UNCHANGED <<file, path, worker, conn, work, fe, query, answer, ran>>
  BY DEF CheckSignals, diskvars, clientvars
<1>2. WebType' /\ WorkersNamed' /\ WorkersKept
  BY <1>1 DEF IInv, WebType, WorkersNamed, WorkersKept
<1> QED  BY <1>1, <1>2, WorkerStep, ConnectionsSame

LEMMA InitInv == Init => IInv
<1> SUFFICES ASSUME Init  PROVE IInv
  OBVIOUS
<1>0. Nil \notin Session /\ Saved \subseteq Session /\ MaxQuery \in Nat
  BY SessionAssumption, BoundAssumption
<1>1. WebType
  <2>1. NoWorker \in Process /\ NoConn \in Connection /\ Idle \in Place
    BY DEF NoWorker, Process, NoConn, Connection, Idle, Place
  <2>2. << >> \in Seq(Session)  OBVIOUS
  <2>3. worker \in [Pid -> Process] /\ conn \in [Conn -> Connection] /\ fe \in [Frontend -> Place]
    BY <2>1 DEF Init
  <2>4. ran \in [Query -> Seq(Session)]  BY <2>2 DEF Init
  <2>5. /\ file \in SUBSET Session /\ path \in [Session -> Pid \cup {Nil}]
        /\ work \in [Frontend -> [Session -> Entry \cup {Nil}]]
        /\ query \in [Query -> Request \cup {Nil}] /\ answer \in [Query -> Reply \cup {Nil}]
    BY <1>0 DEF Init
  <2> QED  BY <2>3, <2>4, <2>5 DEF WebType
<1>2. WorkersNamed
  BY DEF Init, WorkersNamed, NoWorker
<1>3. Unshared /\ OwnAnswer  BY DEF Init, Unshared, OwnAnswer
<1>4. \A f \in Frontend : fe[f].at = "idle" /\ fe[f].q = Nil  BY DEF Init, Idle
<1>5. UnsentOnce  BY <1>4 DEF UnsentOnce, Unsent
<1>6. SentOnce  BY DEF Init, SentOnce, NoConn
<1>7. Numbered
  <2>1. 0 \in 0 .. MaxQuery /\ {q \in Query : query[q] # Nil} = 1 .. 0  BY <1>0 DEF Init
  <2> QED  BY <2>1 DEF Init, Numbered
<1>8. \A f \in Frontend : FrontOK(f) /\ \A s \in Session : EntryOK(f, s)
  BY <1>4 DEF Init, FrontOK, EntryOK
<1>9. AtMostOnce /\ RanInSession
  <2>1. \A q \in Query : ran[q] = << >>  BY DEF Init
  <2>2. Len(<< >>) = 0 /\ DOMAIN << >> = {}  OBVIOUS
  <2>3. \A q \in Query : Len(ran[q]) = 0 /\ DOMAIN ran[q] = {}  BY <2>1, <2>2
  <2> QED  BY <2>3 DEF AtMostOnce, RanInSession
<1> QED  BY <1>1, <1>2, <1>3, <1>5, <1>6, <1>7, <1>8, <1>9 DEF IInv

LEMMA NextInv == IInv /\ [Next]_vars => IInv'
<1> SUFFICES ASSUME IInv, [Next]_vars  PROVE IInv'
  OBVIOUS
<1>1. CASE UNCHANGED vars
  <2>1. UNCHANGED <<file, path, worker, conn, work, fe, query, answer, ran>>
    BY <1>1 DEF vars, diskvars, procvars, frontvars, clientvars
  <2>2. WebType' /\ WorkersNamed' /\ WorkersKept
    BY <2>1 DEF IInv, WebType, WorkersNamed, WorkersKept
  <2> QED  BY <2>1, <2>2, WorkerStep, ConnectionsSame
<1>2. ASSUME NEW f \in Frontend, ProcessQuery(f) \/ Client(f)  PROVE IInv'
  BY <1>2, FrontendInv, ClientInv
<1>3. ASSUME NEW p \in Pid, WorkerMain(p)  PROVE IInv'
  <2>1. CASE LoadSession(p)  BY <2>1, LoadSessionInv
  <2>2. CASE Bind(p)  BY <2>2, BindInv
  <2>3. CASE Unlink(p)  BY <2>3, WorkerEndsInv
  <2>4. ASSUME NEW k \in Conn, Accept(p, k) \/ Execute(p, k)  PROVE IInv'
    BY <2>4, AcceptInv, ExecuteInv
  <2> QED  BY <1>3, <2>1, <2>2, <2>3, <2>4 DEF WorkerMain
<1>4. CASE Environment
  <2>1. ASSUME NEW f \in Frontend, ResponseTimeout(f) \/ FrontendExits(f)  PROVE IInv'
    BY <2>1, ResponseInv, FrontendExitsInv
  <2>2. ASSUME NEW f \in Frontend, NEW p \in Pid, CheckSignals(f, p) \/ HandleControlCmd(f, p)
        PROVE  IInv'
    BY <2>2, CheckSignalsInv, HandleControlCmdInv
  <2>3. ASSUME NEW p \in Pid, WorkerTimeout(p) \/ Killed(p) \/ \E k \in Conn : Eof(p, k)
        PROVE  IInv'
    BY <2>3, WorkerEndsInv, EofInv
  <2> QED  BY <1>4, <2>1, <2>2, <2>3 DEF Environment
<1> QED  BY <1>1, <1>2, <1>3, <1>4 DEF Next, Processes

THEOREM Invariance == Spec => []IInv
BY InitInv, NextInv, PTL DEF Spec

\* No query is executed twice, although a frontend that finds the worker of a session
\* gone forks another and sends its query again (RESPAWN_WORKER), and although workers
\* and frontends are killed at any point: a query is sent again only while no worker
\* had it.
THEOREM ExecutedAtMostOnce == Spec => []AtMostOnce
BY Invariance, PTL DEF IInv

\* The response that a client gets is that to its own query: CloseWorkSocket, after a
\* timeout, leaves no connection on which the late response would be the next one.
THEOREM AnswersAreOwn == Spec => []OwnAnswer
BY Invariance, PTL DEF IInv

\* A query is executed in the session whose cookie it carries, whichever process has
\* come to listen under the name of the session since its last worker was gone.
THEOREM ExecutedInSession == Spec => []RanInSession
BY Invariance, PTL DEF IInv
=============================================================================
