----------------------------- MODULE WebServer ------------------------------
(***************************************************************************)
(* The web application server (core/web.c, core/web_auth.c).  A cluster of *)
(* frontend processes reads HTTP queries, one at a time each; a query with *)
(* a session is passed over a Unix socket to the worker process of that    *)
(* session, and the response back to the client.  A session is a file, its *)
(* worker a process that any frontend forks when it cannot connect to one. *)
(* Workers end when they are idle for long, at logout and when they crash. *)
(* Between any two system calls of a process the others take steps.        *)
(***************************************************************************)
EXTENDS Integers, Sequences, FiniteSets, FiniteSetsExt

CONSTANTS
  Frontend,    \* the frontends of the cluster
  First,       \* the one that the first query comes to: they are all alike
  Session,     \* session IDs
  Saved,       \* the sessions on disk when the cluster is started
  MaxPid,      \* bound: worker processes
  MaxConn,     \* bound: connections from frontends to workers
  MaxQuery,    \* bound: queries of clients
  MaxFault,    \* bound: processes that are killed, and responses that time out
  MaxSockets,  \* WEB_MAXWORKERSOCKETS
  Kinds,       \* what clients ask for in a session (see Request)
  Nil

ASSUME FrontendAssumption == First \in Frontend
ASSUME SessionAssumption == Saved \subseteq Session /\ Nil \notin Session
ASSUME BoundAssumption == {MaxPid, MaxConn, MaxQuery, MaxFault, MaxSockets} \subseteq Nat

Pid == 1 .. MaxPid
Conn == 1 .. MaxConn
Query == 1 .. MaxQuery

\* An entry of workSockets: its descriptor and workerPID; and a query as it was read: a
\* command whose response has a Content-Length, one whose response is compressed and sent
\* in chunks ("deflate"), one with the method HEAD ("head"), or a logout.
Entry == [k : Conn \cup {Nil}, pid : Pid \cup {Nil}]
Request == [sess : Session \cup {Nil}, op : Kinds \cup {"login"}]
ASSUME KindAssumption == Kinds \subseteq {"command", "deflate", "head", "logout"}

ASSUME NilAssumption == Nil \notin Pid \cup Conn \cup Query \cup Entry \cup Request

VARIABLES
  file,     \* the sessions that have a file in WEB_PATH_SESSIONS
  path,     \* the process that bound the socket in WEB_PATH_SOCKETS, per session
  worker,   \* per process: what it is at (st), its session, the frontend that forked
            \* it, and whether it has written its session ID to that
  conn,     \* per connection: its frontend and worker, the two ends (fe, wk), the
            \* query not yet read (in) and the response not yet read to its end (out)
  rest,     \* per connection: what is left to read of the response is all there
  work,     \* webApp->workSockets, per frontend and session: the connection
            \* (Nil: fd = -1) and workerPID, or Nil
  fe,       \* per frontend: where WEB_ProcessQuery is, with q, sessID,
            \* nRestoreAttempts and the process that it forked
  ctrl,     \* per frontend: the processes reported dead on its control socket
  reaped,   \* the processes that were waited for
  query,    \* per query: its session, and what it asks for
  answer,   \* per query: the page that the client got, and the query it is for
  ran,      \* per query: the sessions it was executed in
  faults

procvars == <<worker, conn, reaped>>
diskvars == <<file, path>>
frontvars == <<work, fe, ctrl>>
clientvars == <<query, answer>>
vars == <<diskvars, procvars, rest, frontvars, clientvars, ran, faults>>

Idle == [at |-> "idle", q |-> Nil, sess |-> Nil, tries |-> 0, pid |-> Nil]
NoWorker == [st |-> "none", sess |-> Nil, by |-> Nil, told |-> FALSE]
NoConn == [f |-> Nil, p |-> Nil, fe |-> "none", wk |-> "none", in |-> Nil, out |-> Nil]

Init ==
  /\ file = Saved /\ path = [s \in Session |-> Nil]
  /\ worker = [p \in Pid |-> NoWorker]
  /\ conn = [k \in Conn |-> NoConn] /\ rest = [k \in Conn |-> FALSE]
  /\ work = [f \in Frontend |-> [s \in Session |-> Nil]]
  /\ fe = [f \in Frontend |-> Idle]
  /\ ctrl = [f \in Frontend |-> {}] /\ reaped = {}
  /\ query = [q \in Query |-> Nil] /\ answer = [q \in Query |-> Nil]
  /\ ran = [q \in Query |-> << >>]
  /\ faults = 0

-----------------------------------------------------------------------------
(* Frontends: WEB_ProcessQuery *)

At(f, at) == fe[f].at = at
GoTo(f, at) == fe' = [fe EXCEPT ![f].at = at]
Answers(f, page, of) ==
  /\ answer' = [answer EXCEPT ![fe[f].q] = [page |-> page, of |-> of]]
  /\ fe' = [fe EXCEPT ![f] = Idle]

\* The entry of workSockets that the query uses, and its connection.
Sock(f) == work[f][fe[f].sess]
Fd(f) == conn[Sock(f).k]

\* CloseWorkSocket, for the entries of f that the sessions in S have.
Close(f, S) ==
  LET gone == {s \in S : work[f][s] # Nil} IN
  /\ work' = [work EXCEPT ![f] = [s \in Session |-> IF s \in gone THEN Nil ELSE work[f][s]]]
  /\ conn' = [k \in Conn |->
       IF \E s \in gone : work[f][s].k = k THEN [conn[k] EXCEPT !.fe = "closed"] ELSE conn[k]]

\* fail_auth, fail_data: the client gets an answer, and the connection is closed.
Fails(f) ==
  /\ Answers(f, "error", Nil)
  /\ Close(f, {fe[f].sess})

\* The sessions that are or were.
Known == Saved \cup ({worker[p].sess : p \in Pid} \ {Nil})

NextQuery == 1 + Cardinality({q \in Query : query[q] # Nil})

\* WEB_QueryLoop accepts a client and reads a query.
Reads(f) == At(f, "idle") /\ NextQuery \in Query /\ (NextQuery = 1 => f = First)

\* A query with the cookie of session s: one that has no file is expired, and the login
\* page is shown. A session without an entry gets one.
Receive(f, s, op) ==
  LET q == NextQuery IN
  /\ Reads(f) /\ s \in Known
  /\ query' = [query EXCEPT ![q] = [sess |-> s, op |-> op]]
  /\ IF s \in file
     THEN /\ fe' = [fe EXCEPT ![f] = [Idle EXCEPT
               !.at = IF work[f][s] = Nil THEN "connect" ELSE "save", !.q = q, !.sess = s]]
          /\ work' = IF work[f][s] = Nil THEN [work EXCEPT ![f][s] = [k |-> Nil, pid |-> Nil]] ELSE work
          /\ UNCHANGED answer
     ELSE answer' = [answer EXCEPT ![q] = [page |-> "login", of |-> Nil]] /\ UNCHANGED <<fe, work>>
  /\ UNCHANGED <<diskvars, procvars, ctrl, ran, rest, faults>>

\* A query with a user name and a password.
Login(f) ==
  LET q == NextQuery IN
  /\ Reads(f)
  /\ query' = [query EXCEPT ![q] = [sess |-> Nil, op |-> "login"]]
  /\ fe' = [fe EXCEPT ![f] = [Idle EXCEPT !.at = "spawn", !.q = q]]
  /\ UNCHANGED <<diskvars, procvars, work, ctrl, answer, ran, rest, faults>>

\* (Mutant: the worker is not told the session that it is to restore.)
CreateWorkerNew(f) ==
  LET p == Min({x \in Pid : worker[x].st = "none"}) IN
  /\ At(f, "spawn") /\ \E x \in Pid : worker[x].st = "none"
  /\ worker' = [worker EXCEPT ![p] = [NoWorker EXCEPT !.st = "start", !.by = f]]
  /\ fe' = [fe EXCEPT ![f].at = "wait", ![f].pid = p]
  /\ UNCHANGED <<diskvars, conn, reaped, work, ctrl, clientvars, ran, rest, faults>>
\* CreateWorker: fork
CreateWorker(f) ==
  LET p == Min({x \in Pid : worker[x].st = "none"}) IN
  /\ At(f, "spawn") /\ \E x \in Pid : worker[x].st = "none"
  /\ worker' = [worker EXCEPT ![p] = [NoWorker EXCEPT !.st = "start", !.by = f, !.sess = fe[f].sess]]
  /\ fe' = [fe EXCEPT ![f].at = "wait", ![f].pid = p]
  /\ UNCHANGED <<diskvars, conn, reaped, work, ctrl, clientvars, ran, rest, faults>>

\* It failed (here: when the bound is reached).
CreateWorkerFails(f) ==
  /\ At(f, "spawn") /\ \A x \in Pid : worker[x].st # "none"
  /\ Answers(f, "error", Nil)
  /\ UNCHANGED <<diskvars, procvars, work, ctrl, query, ran, rest, faults>>

\* (Mutant: the frontend keeps the end of the pipe that is written to.)
WorkerStartedTold(f) ==
  LET w == worker[fe[f].pid] IN
  /\ At(f, "wait") /\ w.told
  /\ IF w.sess \in file
     THEN /\ work' = [work EXCEPT ![f][w.sess] = [k |-> Nil, pid |-> fe[f].pid]]
          /\ fe' = [fe EXCEPT ![f].at = "connect", ![f].sess = w.sess]
          /\ UNCHANGED answer
     ELSE Answers(f, "error", Nil) /\ UNCHANGED work
  /\ UNCHANGED <<diskvars, procvars, ctrl, query, ran, rest, faults>>
\* The worker has written its session ID, or ended without.
WorkerStarted(f) ==
  LET w == worker[fe[f].pid] IN
  /\ At(f, "wait") /\ (w.told \/ w.st = "gone")
  /\ IF w.told /\ w.sess \in file
     THEN /\ work' = [work EXCEPT ![f][w.sess] = [k |-> Nil, pid |-> fe[f].pid]]
          /\ fe' = [fe EXCEPT ![f].at = "connect", ![f].sess = w.sess]
          /\ UNCHANGED answer
     ELSE Answers(f, "error", Nil) /\ UNCHANGED work
  /\ UNCHANGED <<diskvars, procvars, ctrl, query, ran, rest, faults>>

Listens(s) == path[s] # Nil /\ worker[path[s]].st = "ready"

Connect(f) ==
  LET k == Min({x \in Conn : conn[x].fe = "none"}) IN
  /\ At(f, "connect") /\ \E x \in Conn : conn[x].fe = "none"
  /\ IF Listens(fe[f].sess)
     THEN /\ conn' = [conn EXCEPT ![k] =
               [NoConn EXCEPT !.f = f, !.p = path[fe[f].sess], !.fe = "open", !.wk = "pending"]]
          /\ work' = [work EXCEPT ![f][fe[f].sess].k = k]
          /\ GoTo(f, "pid")
     ELSE GoTo(f, "respawn") /\ UNCHANGED <<conn, work>>
  /\ UNCHANGED <<diskvars, worker, reaped, ctrl, clientvars, ran, rest, faults>>

\* No descriptor is left (here: when the bound is reached).
ConnectFails(f) ==
  /\ At(f, "connect") /\ \A x \in Conn : conn[x].fe # "none"
  /\ Fails(f)
  /\ UNCHANGED <<diskvars, worker, reaped, ctrl, query, ran, rest, faults>>

\* RESPAWN_WORKER: the socket is removed, whoever has bound it, and a worker forked,
\* but only once.
Respawn(f) ==
  /\ At(f, "respawn")
  /\ Close(f, {fe[f].sess})
  /\ path' = [path EXCEPT ![fe[f].sess] = Nil]
  /\ IF fe[f].tries > 0 \/ fe[f].sess \notin file
     THEN Answers(f, "error", Nil)
     ELSE fe' = [fe EXCEPT ![f].tries = 1, ![f].at = "spawn"] /\ UNCHANGED answer
  /\ UNCHANGED <<file, worker, reaped, ctrl, query, ran, rest, faults>>

\* The worker writes its PID when it accepts.
ReadPid(f) ==
  /\ At(f, "pid") /\ Fd(f).wk # "pending"
  /\ IF Fd(f).wk = "refused"
     THEN Fails(f)
     ELSE /\ work' = [work EXCEPT ![f][fe[f].sess].pid = Fd(f).p]
          /\ GoTo(f, "save")
          /\ UNCHANGED <<conn, answer>>
  /\ UNCHANGED <<diskvars, worker, reaped, ctrl, query, ran, rest, faults>>

\* WEB_QuerySave: EPIPE if the worker has gone. A logout is not answered by it.
QuerySave(f) ==
  LET q == fe[f].q IN
  /\ At(f, "save")
  /\ CASE Fd(f).wk # "open" -> GoTo(f, "respawn") /\ UNCHANGED <<conn, work, answer>>
       [] Fd(f).wk = "open" /\ query[q].op = "logout" ->
            /\ Answers(f, "bye", Nil)
            /\ work' = [work EXCEPT ![f][fe[f].sess] = Nil]
            /\ conn' = [conn EXCEPT ![Sock(f).k].in = q, ![Sock(f).k].fe = "closed"]
       [] OTHER ->
            /\ GoTo(f, "resp")
            /\ conn' = [conn EXCEPT ![Sock(f).k].in = q]
            /\ UNCHANGED <<work, answer>>
  /\ UNCHANGED <<diskvars, worker, reaped, ctrl, query, ran, rest, faults>>

\* The header of the response is there, or the end of file. What was read with it of a
\* chunked response is passed to the client, and then waited for.
Response(f) ==
  /\ At(f, "resp") /\ (Fd(f).out # Nil \/ Fd(f).wk # "open")
  /\ IF Fd(f).out # Nil
     THEN /\ GoTo(f, "body")
          /\ \E over \in {FALSE, query[fe[f].q].op = "deflate"} :
               rest' = [rest EXCEPT ![Sock(f).k] = @ /\ ~over]
          /\ UNCHANGED <<conn, work, answer>>
     ELSE Fails(f) /\ UNCHANGED rest
  /\ UNCHANGED <<diskvars, worker, reaped, ctrl, query, ran, faults>>

\* Its body, as long as the header says, is read and passed to the client, however long
\* that takes.
ResponseBody(f) ==
  /\ At(f, "body") /\ (rest[Sock(f).k] \/ Fd(f).wk # "open")
  /\ IF rest[Sock(f).k]
     THEN /\ Answers(f, "response", Fd(f).out)
          /\ conn' = [conn EXCEPT ![Sock(f).k].out = Nil]
          /\ UNCHANGED work
     ELSE Fails(f)
  /\ UNCHANGED <<diskvars, worker, reaped, ctrl, query, ran, rest, faults>>

\* (Mutant: the worker is replaced, and the query sent again.)
ResponseTimeoutRetried(f) ==
  /\ At(f, "resp") /\ Fd(f).out = Nil /\ Fd(f).wk = "open" /\ faults < MaxFault
  /\ GoTo(f, "respawn")
  /\ faults' = faults + 1
  /\ UNCHANGED <<diskvars, procvars, work, ctrl, clientvars, ran, rest>>
\* (Mutant: the connection is kept.)
ResponseTimeoutKept(f) ==
  /\ At(f, "resp") /\ Fd(f).out = Nil /\ Fd(f).wk = "open" /\ faults < MaxFault
  /\ Answers(f, "error", Nil)
  /\ faults' = faults + 1
  /\ UNCHANGED <<diskvars, worker, conn, reaped, work, ctrl, query, ran, rest>>
\* WEB_WORKER_RESP_TIMEOUT
ResponseTimeout(f) ==
  /\ At(f, "resp") /\ Fd(f).out = Nil /\ Fd(f).wk = "open" /\ faults < MaxFault
  /\ Fails(f)
  /\ faults' = faults + 1
  /\ UNCHANGED <<diskvars, worker, reaped, ctrl, query, ran, rest>>

\* WEB_CheckSignals, in a frontend that waits: a worker it forked is dead, which the
\* other frontends are told. (Left out while none of them has an entry for it: the
\* report then changes nothing.)
CheckSignals(f, p) ==
  /\ fe[f].at \in {"idle", "wait", "pid", "resp", "body"}
  /\ worker[p].st = "gone" /\ worker[p].by = f /\ p \notin reaped
  /\ \E g \in Frontend \ {f}, s \in Session : work[g][s] # Nil /\ work[g][s].pid = p
  /\ reaped' = reaped \cup {p}
  /\ ctrl' = [g \in Frontend |-> IF g = f THEN ctrl[g] ELSE ctrl[g] \cup {p}]
  /\ UNCHANGED <<diskvars, worker, conn, work, fe, clientvars, ran, rest, faults>>

\* WEB_HandleControlCmd, WEB_CONTROL_WORKER_CHLD
HandleControlCmd(f, p) ==
  /\ At(f, "idle") /\ p \in ctrl[f]
  /\ ctrl' = [ctrl EXCEPT ![f] = @ \ {p}]
  /\ Close(f, {s \in Session : work[f][s] # Nil /\ work[f][s].pid = p})
  /\ UNCHANGED <<diskvars, worker, reaped, fe, clientvars, ran, rest, faults>>

\* WEB_Exit of a frontend, which is started again; its client is disconnected.
FrontendExits(f) ==
  /\ faults < MaxFault /\ faults' = faults + 1
  /\ ~At(f, "idle")
  /\ Answers(f, "eof", Nil)
  /\ Close(f, Session)
  /\ ctrl' = [ctrl EXCEPT ![f] = {}]
  /\ UNCHANGED <<diskvars, worker, reaped, query, ran, rest>>

-----------------------------------------------------------------------------
(* Workers: WEB_WorkerMain *)

\* The connections of p are closed: those that wait to be accepted too.
Hangup(p) ==
  [k \in Conn |-> IF conn[k].p # p THEN conn[k]
                  ELSE [conn[k] EXCEPT !.wk = IF @ = "pending" THEN "refused"
                                              ELSE IF @ = "open" THEN "closed" ELSE @]]

Ends(p, st) == worker' = [worker EXCEPT ![p].st = st]

\* The session is loaded, or one made; or that fails, or the user is not authenticated.
LoadSession(p) ==
  LET s == worker[p].sess IN
  /\ worker[p].st = "start"
  /\ \/ /\ s = Nil
        /\ \E n \in Session \ Known :
             /\ file' = file \cup {n}
             /\ worker' = [worker EXCEPT ![p].st = "bind", ![p].sess = n]
     \/ s \in file /\ Ends(p, "bind") /\ UNCHANGED file
     \/ Ends(p, "gone") /\ UNCHANGED file
  /\ UNCHANGED <<path, conn, reaped, frontvars, clientvars, ran, rest, faults>>

\* Its socket is bound, and the frontend told; if the name is taken, fail_close removes
\* it and the session's file. (That of a session that is restored is removed by a name
\* that was not set, which may be any.)
Bind(p) ==
  LET s == worker[p].sess IN
  /\ worker[p].st = "bind"
  /\ IF path[s] = Nil
     THEN /\ path' = [path EXCEPT ![s] = p]
          /\ worker' = [worker EXCEPT ![p].st = "ready", ![p].told = TRUE]
          /\ UNCHANGED file
     ELSE /\ path' = [path EXCEPT ![s] = Nil]
          /\ Ends(p, "gone")
          /\ file' \in {file, file \ {s}}
  /\ UNCHANGED <<conn, reaped, frontvars, clientvars, ran, rest, faults>>

\* A connection is accepted. One that its frontend has closed makes the worker fail,
\* unless another worker that the frontend forked holds it open.
Accept(p, k) ==
  LET s == worker[p].sess IN
  /\ worker[p].st = "ready" /\ conn[k].p = p /\ conn[k].wk = "pending"
  /\ \/ /\ Cardinality({x \in Conn : conn[x].p = p /\ conn[x].wk = "open"}) < MaxSockets
        /\ conn' = [conn EXCEPT ![k].wk = "open"]
        /\ UNCHANGED <<diskvars, worker>>
     \/ /\ Cardinality({x \in Conn : conn[x].p = p /\ conn[x].wk = "open"}) >= MaxSockets
        /\ conn' = [conn EXCEPT ![k].wk = "refused"]
        /\ UNCHANGED <<diskvars, worker>>
     \/ /\ conn[k].fe = "closed"
        /\ conn' = Hangup(p) /\ Ends(p, "gone")
        /\ path' = [path EXCEPT ![s] = Nil]
        /\ file' \in {file, file \ {s}}
  /\ UNCHANGED <<reaped, frontvars, clientvars, ran, rest, faults>>

\* WEB_ExecWorkerQuery. WEB_FlushQuery writes a header with the length of the page, and
\* the page, but for HEAD. The worker exits if the response cannot be written. A logout
\* removes the session's file and ends the worker.
Execute(p, k) ==
  LET q == conn[k].in  s == worker[p].sess IN
  /\ worker[p].st = "ready" /\ conn[k].p = p /\ conn[k].wk = "open" /\ q # Nil
  /\ ran' = [ran EXCEPT ![q] = Append(@, s)]
  /\ \/ /\ query[q].op # "logout"
        /\ conn' = [conn EXCEPT ![k].in = Nil, ![k].out = q]
        /\ rest' = [rest EXCEPT ![k] = query[q].op # "head"]
        /\ UNCHANGED <<file, worker>>
     \/ /\ query[q].op # "logout" /\ conn[k].fe = "closed"
        /\ conn' = Hangup(p) /\ Ends(p, "gone")
        /\ UNCHANGED <<file, rest>>
     \/ /\ query[q].op = "logout"
        /\ file' = file \ {s}
        /\ conn' = Hangup(p) /\ Ends(p, "closing")
        /\ UNCHANGED rest
  /\ UNCHANGED <<path, reaped, frontvars, clientvars, faults>>

\* The frontend has closed the connection.
Eof(p, k) ==
  /\ worker[p].st = "ready" /\ conn[k].p = p /\ conn[k].wk = "open"
  /\ conn[k].fe = "closed" /\ conn[k].in = Nil
  /\ conn' = [conn EXCEPT ![k].wk = "closed"]
  /\ UNCHANGED <<diskvars, worker, reaped, frontvars, clientvars, ran, rest, faults>>

\* Sops->workerTimeout: the sockets are closed, then the name is removed.
WorkerTimeout(p) ==
  /\ worker[p].st = "ready" /\ worker[p].told
  /\ \A k \in Conn : conn[k].p = p => conn[k].wk # "pending" /\ (conn[k].wk = "open" => conn[k].in = Nil)
  /\ conn' = Hangup(p) /\ Ends(p, "closing")
  /\ UNCHANGED <<diskvars, reaped, frontvars, clientvars, ran, rest, faults>>
Unlink(p) ==
  /\ worker[p].st = "closing"
  /\ path' = [path EXCEPT ![worker[p].sess] = Nil]
  /\ Ends(p, "gone")
  /\ UNCHANGED <<file, conn, reaped, frontvars, clientvars, ran, rest, faults>>

\* The process is killed, and a response that it was writing may be cut short.
Killed(p) ==
  /\ faults < MaxFault /\ faults' = faults + 1
  /\ worker[p].st \notin {"none", "gone"}
  /\ conn' = Hangup(p) /\ Ends(p, "gone")
  /\ \E cut \in BOOLEAN : rest' = [k \in Conn |-> rest[k] /\ ~(cut /\ conn[k].p = p)]
  /\ UNCHANGED <<diskvars, reaped, frontvars, clientvars, ran>>

-----------------------------------------------------------------------------

ProcessQuery(f) ==
  \/ CreateWorker(f) \/ CreateWorkerFails(f) \/ WorkerStarted(f)
  \/ Connect(f) \/ ConnectFails(f) \/ Respawn(f) \/ ReadPid(f) \/ QuerySave(f)
  \/ Response(f) \/ ResponseBody(f)

WorkerMain(p) ==
  \/ LoadSession(p) \/ Bind(p) \/ Unlink(p)
  \/ \E k \in Conn : Accept(p, k) \/ Execute(p, k)

Processes == (\E f \in Frontend : ProcessQuery(f)) \/ (\E p \in Pid : WorkerMain(p))

Client(f) ==
  Login(f) \/ \E s \in Session : \E op \in Kinds : Receive(f, s, op)

\* (Bound: until the last query is answered.)
Environment ==
  /\ \E q \in Query : answer[q] = Nil
  /\ \/ \E f \in Frontend : ResponseTimeout(f) \/ FrontendExits(f)
     \/ \E f \in Frontend, p \in Pid : CheckSignals(f, p) \/ HandleControlCmd(f, p)
     \/ \E p \in Pid : WorkerTimeout(p) \/ Killed(p) \/ \E k \in Conn : Eof(p, k)

Next ==
  \/ Processes
  \/ \E f \in Frontend : Client(f)
  \/ Environment

\* Some process runs, while there is one that can.
Spec == Init /\ [][Next]_vars
FairSpec == Spec /\ WF_vars(Processes)

-----------------------------------------------------------------------------
(* Properties *)

\* WEB_ProcessQuery sends a query again to a worker that it respawns; yet no query is
\* executed twice, whichever of its workers die, hang or are replaced.
AtMostOnce == \A q \in Query : Len(ran[q]) <= 1

\* A client gets the response to its own query, or an error page: a response that
\* came too late is never taken for that of the next query on the connection.
OwnAnswer ==
  \A q \in Query : answer[q] # Nil /\ answer[q].page = "response" => answer[q].of = q

\* A query is executed in the session whose cookie it carries, by a worker that was
\* restored for it if need be.
RanInSession ==
  \A q \in Query : \A i \in DOMAIN ran[q] :
    query[q].sess # Nil => ran[q][i] = query[q].sess

\* Every query is answered, but for those with HEAD and those whose response comes in
\* chunks: its frontend waits for no process that is gone, and none is held up by another
\* frontend that waits for a body which does not come.
Answered ==
  \A q \in Query :
    query[q] # Nil /\ query[q].op \notin {"head", "deflate"} ~> answer[q] # Nil

\* A frontend waits for the body of a response, for which there is no time limit, only as
\* long as its worker has something to write (web.h: WEB_WORKER_RESP_TIMEOUT, the worker
\* response timeout): no worker waits for the next query of a frontend that waits for it.
\* (Not true of this code: see the README's Findings.)
BodyToCome ==
  \A f \in Frontend : At(f, "body") => rest[Sock(f).k] \/ Fd(f).wk # "open"
=============================================================================
