--------------------------- MODULE BackendProofs ----------------------------
(***************************************************************************)
(* Proofs about the backends of the agent.  AgentProxy forwards to them:   *)
(* for any hosts, backends and connections, start-up and the requests are  *)
(* sound in every state, while routes are replaced and the agent is told   *)
(* to stop.  BackendResolve finds them: for any ports, bindings, networks  *)
(* and labels of a container the priorities decide.                        *)
(***************************************************************************)
EXTENDS AgentProxy, BackendResolve, TLAPS, FiniteSetTheorems

-----------------------------------------------------------------------------
(* The proxy.                                                              *)

\* What an idle connection is.
LEMMA IdleFacts ==
  /\ IdleReq \in Request /\ IdleReq.pc = "idle" /\ IdleReq.backend = NoRoute
  /\ ~IdleReq.reached /\ IdleReq.status = "none" /\ ~IdleReq.late
BY DEF IdleReq, Request, Status

\* An idle connection is sound whatever the process does.
LEMMA IdleIsSound ==
  ASSUME NEW s \in Slots, req'[s] = IdleReq
  PROVE  StageSound(s)' /\ ForwardSound(s)'
<1>1. /\ req'[s].pc = "idle" /\ req'[s].backend = NoRoute
      /\ ~req'[s].reached /\ req'[s].status = "none" /\ ~req'[s].late
  BY IdleFacts
<1> QED
  BY <1>1 DEF StageSound, ForwardSound

\* A step of the process that starts or ends no request and leaves the routes
\* as they are.
LEMMA ProcessStep ==
  ASSUME ProxyInv, TypeOK', StartSound', routes' = routes,
         shuttingDown => shuttingDown',
         \A s \in Slots : req'[s] = req[s] \/ req'[s] = IdleReq
  PROVE  ProxyInv'
<1>1. ASSUME NEW s \in Slots
      PROVE  StageSound(s)' /\ ForwardSound(s)'
  <2>1. CASE req'[s] = req[s]
    BY <2>1 DEF ProxyInv, StageSound, ForwardSound
  <2>2. CASE req'[s] = IdleReq
    BY <2>2, IdleIsSound
  <2> QED
    BY <2>1, <2>2
<1> QED
  BY <1>1 DEF ProxyInv

\* A step of one request: the process stays as it is.
LEMMA RequestStep ==
  ASSUME ProxyInv, NEW s \in Slots, NEW r \in Request,
         req' = [req EXCEPT ![s] = r], Unchanged,
         StageSound(s)', ForwardSound(s)'
  PROVE  ProxyInv'
<1>1. TypeOK'
  BY DEF ProxyInv, TypeOK, Unchanged, process
<1>2. StartSound'
  BY DEF ProxyInv, StartSound, Unchanged, process
<1>3. ASSUME NEW t \in Slots, t # s
      PROVE  StageSound(t)' /\ ForwardSound(t)'
  <2>1. req'[t] = req[t] /\ routes' = routes /\ shuttingDown' = shuttingDown
    BY <1>3 DEF ProxyInv, TypeOK, Unchanged, process
  <2> QED
    BY <2>1 DEF ProxyInv, StageSound, ForwardSound
<1> QED
  BY <1>1, <1>2, <1>3 DEF ProxyInv

\* A request is answered: where it has been decides with what.
LEMMA AnswerStep ==
  ASSUME ProxyInv, NEW s \in Slots,
         NEW status \in Status \ {"none", "switching"},
         req[s].pc # "idle",
         status = "404" => NoRoute \in req[s].seen,
         status \in {"404", "503"} => req[s].backend = NoRoute,
         status = "400" => (req[s].reached <=> req[s].kind = "websocket"),
         status \in {"backend", "504"} => req[s].reached,
         req[s].late => status = "503",
         req' = Answer(s, status), Unchanged
  PROVE  ProxyInv'
<1> DEFINE r == [req[s] EXCEPT !.pc = "done", !.status = status]
<1> HIDE DEF r
<1>1. req[s] \in Request /\ req[s].host \in Hosts
  BY DEF ProxyInv, TypeOK, StageSound
<1>2. req' = [req EXCEPT ![s] = r] /\ req'[s] = r
  BY Zenon DEF Answer, ProxyInv, TypeOK, r
<1>3. /\ r \in Request /\ r.pc = "done" /\ r.status = status
      /\ r.backend = req[s].backend /\ r.host = req[s].host
      /\ r.kind = req[s].kind /\ r.reached = req[s].reached
      /\ r.late = req[s].late /\ r.seen = req[s].seen
  BY <1>1, Zenon DEF Request, r
<1>4. StageSound(s)'
  BY <1>1, <1>2, <1>3 DEF StageSound
<1>5. ForwardSound(s)
  BY DEF ProxyInv
<1>6. shuttingDown' = shuttingDown
  BY DEF Unchanged, process
<1>7. ForwardSound(s)'
  BY <1>2, <1>3, <1>5, <1>6 DEF ForwardSound
<1> QED
  BY <1>2, <1>3, <1>4, <1>7, RequestStep, Zenon

\* An agent that starts serves nothing yet.
LEMMA InitInv ==
  Init => ProxyInv
<1> SUFFICES ASSUME Init PROVE ProxyInv
  OBVIOUS
<1>1. TypeOK
  <2>1. 0 \in 0..MaxReplace /\ 0 \in 0..MaxFaults
    BY ConstantsAssumption
  <2> QED
    BY IdleFacts, <2>1, Zenon DEF Init, TypeOK, Flags
<1>2. StartSound
  BY DEF Init, StartSound
<1>3. \A s \in Slots : StageSound(s) /\ ForwardSound(s)
  BY IdleFacts DEF Init, StageSound, ForwardSound
<1> QED
  BY <1>1, <1>2, <1>3 DEF ProxyInv

\* The routes are replaced under the requests: those that have none yet may
\* find the new ones.
LEMMA ReconcileKeeps ==
  ASSUME ProxyInv, NEW m \in [Hosts -> Backends \union {NoRoute}], reconcile(m)
  PROVE  ProxyInv'
<1>1. /\ UNCHANGED <<main, proxyTask, signal, shuttingDown, faults>>
      /\ routes' = m /\ flags' = flags \union {"initial_reconcile"}
      /\ main = "loop" /\ replaced < MaxReplace /\ replaced' = replaced + 1
  BY DEF reconcile
<1>2. ASSUME NEW s \in Slots, req[s].pc \notin {"handle", "route"}
      PROVE  /\ req'[s] = req[s] /\ req'[s] \in Request
             /\ StageSound(s)' /\ ForwardSound(s)'
  <2>1. req'[s] = req[s] /\ req[s] \in Request
    BY <1>2 DEF reconcile, ProxyInv, TypeOK
  <2> QED
    BY <1>1, <1>2, <2>1 DEF ProxyInv, StageSound, ForwardSound
<1>3. ASSUME NEW s \in Slots, req[s].pc \in {"handle", "route"}
      PROVE  req'[s] \in Request /\ StageSound(s)' /\ ForwardSound(s)'
  <2> DEFINE r == [req[s] EXCEPT !.seen = @ \union {m[req[s].host]}]
  <2> HIDE DEF r
  <2>1. req[s] \in Request /\ req[s].host \in Hosts
    BY <1>3 DEF ProxyInv, TypeOK, StageSound
  <2>2. req'[s] = r
    BY <1>3, Zenon DEF reconcile, r
  <2>3. req[s].seen \union {m[req[s].host]} \in SUBSET (Backends \union {NoRoute})
    BY <2>1 DEF Request
  <2>4. /\ r \in Request /\ r.seen = req[s].seen \union {m[req[s].host]}
        /\ r.pc = req[s].pc /\ r.host = req[s].host /\ r.kind = req[s].kind
        /\ r.backend = req[s].backend /\ r.reached = req[s].reached
        /\ r.status = req[s].status /\ r.late = req[s].late
    BY <2>1, <2>3, Zenon DEF Request, r
  <2>5. StageSound(s) /\ ForwardSound(s)
    BY DEF ProxyInv
  <2>6. StageSound(s)'
    BY <1>1, <1>3, <2>1, <2>2, <2>4, <2>5 DEF StageSound
  <2>7. ForwardSound(s)'
    BY <1>1, <1>3, <2>2, <2>4, <2>5 DEF ForwardSound
  <2> QED
    BY <2>2, <2>4, <2>6, <2>7
<1>4. TypeOK'
  <2>1. req' \in [Slots -> Request]
    <3>1. \A s \in Slots : req'[s] \in Request
      BY <1>2, <1>3
    <3>2. req' = [s \in Slots |-> req'[s]]
      BY DEF reconcile
    <3> QED
      BY <3>1, <3>2, Zenon
  <2>2. replaced' \in 0..MaxReplace /\ flags' \subseteq Flags
    BY <1>1, ConstantsAssumption DEF ProxyInv, TypeOK, Flags
  <2> QED
    BY <1>1, <2>1, <2>2 DEF ProxyInv, TypeOK
<1>5. StartSound'
  BY <1>1 DEF ProxyInv, StartSound
<1> QED
  BY <1>2, <1>3, <1>4, <1>5 DEF ProxyInv

\* The steps of main, of the proxy task and of the signal handler.
LEMMA ProcessKeeps ==
  ASSUME ProxyInv,
         \/ proxy_bind
         \/ proxy_accept_error
         \/ check_proxy
         \/ agent_new
         \/ install_handlers
         \/ Signal
         \/ shutdown_signal
  PROVE  ProxyInv'
<1>1. TypeOK /\ StartSound /\ {MaxReplace, MaxFaults} \subseteq Nat
  BY ConstantsAssumption DEF ProxyInv
<1>2. IdleReq \in Request
  BY IdleFacts
<1>3. ASSUME Fault
      PROVE  faults' \in 0..MaxFaults
  BY <1>1, <1>3 DEF Fault, TypeOK
<1>4. ASSUME Exit
      PROVE  req' \in [Slots -> Request]
  BY <1>2, <1>4 DEF Exit
<1>5. CASE proxy_bind
  <2>1. TypeOK'
    BY <1>1, <1>3, <1>5 DEF proxy_bind, TypeOK
  <2>2. StartSound'
    BY <1>1, <1>5 DEF proxy_bind, StartSound, Alive
  <2> QED
    BY <1>5, <2>1, <2>2, ProcessStep DEF proxy_bind
<1>6. CASE proxy_accept_error
  <2>1. TypeOK'
    BY <1>1, <1>3, <1>6 DEF proxy_accept_error, TypeOK
  <2>2. StartSound'
    BY <1>1, <1>6 DEF proxy_accept_error, StartSound
  <2> QED
    BY <1>6, <2>1, <2>2, ProcessStep DEF proxy_accept_error
<1>7. CASE check_proxy
  <2>1. TypeOK'
    BY <1>1, <1>4, <1>7, Zenon DEF check_proxy, TypeOK, Exit, Flags
  <2>2. StartSound'
    BY <1>1, <1>7 DEF check_proxy, StartSound, Exit
  <2> QED
    BY <1>7, <2>1, <2>2, ProcessStep DEF check_proxy, Exit
<1>8. CASE agent_new
  <2>1. TypeOK'
    BY <1>1, <1>3, <1>4, <1>8, Zenon DEF agent_new, TypeOK, Exit, Flags
  <2>2. StartSound'
    BY <1>1, <1>8 DEF agent_new, StartSound, Exit, Flags
  <2> QED
    BY <1>8, <2>1, <2>2, ProcessStep DEF agent_new, Exit
<1>9. CASE install_handlers
  <2>1. TypeOK'
    BY <1>1, <1>9 DEF install_handlers, TypeOK
  <2>2. StartSound'
    BY <1>1, <1>9 DEF install_handlers, StartSound
  <2> QED
    BY <1>9, <2>1, <2>2, ProcessStep DEF install_handlers
<1>10. CASE Signal
  <2>1. TypeOK'
    BY <1>1, <1>4, <1>10 DEF Signal, TypeOK, Exit
  <2>2. StartSound'
    BY <1>1, <1>10 DEF Signal, StartSound, Exit, Alive
  <2> QED
    BY <1>10, <2>1, <2>2, ProcessStep DEF Signal, Exit
<1>11. CASE shutdown_signal
  <2>1. TypeOK'
    BY <1>1, <1>11 DEF shutdown_signal, TypeOK
  <2>2. StartSound'
    BY <1>1, <1>11 DEF shutdown_signal, StartSound
  <2> QED
    BY <1>11, <2>1, <2>2, ProcessStep DEF shutdown_signal
<1> QED
  BY <1>5, <1>6, <1>7, <1>8, <1>9, <1>10, <1>11

\* A request comes: history notes the flag and the route of its host.
LEMMA ArriveKeeps ==
  ASSUME ProxyInv, NEW s \in Slots, NEW h \in Hosts, NEW k \in Kinds,
         arrive(s, h, k)
  PROVE  ProxyInv'
<1> DEFINE r == [IdleReq EXCEPT !.pc = "handle", !.host = h, !.kind = k,
                                !.late = shuttingDown, !.seen = {routes[h]}]
<1> HIDE DEF r
<1>1. req' = [req EXCEPT ![s] = r] /\ Unchanged
  BY DEF arrive, r
<1>2. /\ k \in {"http", "websocket"} /\ shuttingDown \in BOOLEAN
      /\ {routes[h]} \in SUBSET (Backends \union {NoRoute})
  BY ConstantsAssumption DEF ProxyInv, TypeOK
<1>3. /\ r \in Request /\ r.pc = "handle" /\ r.host = h
      /\ r.backend = IdleReq.backend /\ r.reached = IdleReq.reached
      /\ r.status = IdleReq.status /\ r.late = shuttingDown
      /\ r.seen = {routes[h]}
  BY <1>2, IdleFacts, Zenon DEF Request, r
<1>4. req'[s] = r /\ routes' = routes /\ shuttingDown' = shuttingDown
  BY <1>1 DEF ProxyInv, TypeOK, Unchanged, process
<1>5. StageSound(s)'
  BY <1>3, <1>4, IdleFacts DEF StageSound
<1>6. ForwardSound(s)'
  BY <1>3, <1>4, IdleFacts DEF ForwardSound
<1> QED
  BY <1>1, <1>3, <1>5, <1>6, RequestStep, Zenon

\* A client that goes away frees its connection.
LEMMA GoneKeeps ==
  ASSUME ProxyInv, NEW s \in Slots, client_gone(s)
  PROVE  ProxyInv'
<1>1. req' = [req EXCEPT ![s] = IdleReq] /\ Unchanged
  BY DEF client_gone
<1>2. req'[s] = IdleReq
  BY <1>1 DEF ProxyInv, TypeOK
<1> QED
  BY <1>1, <1>2, IdleFacts, IdleIsSound, RequestStep, Zenon

\* What a request has in hand while it is under way.
LEMMA UnderWay ==
  ASSUME ProxyInv, NEW s \in Slots, req[s].pc \notin {"idle", "done"}
  PROVE  /\ req[s] \in Request /\ req[s].host \in Hosts
         /\ StageSound(s) /\ ForwardSound(s)
         /\ req[s].pc # "handle" => ~req[s].late
BY DEF ProxyInv, TypeOK, StageSound, ForwardSound

\* A request goes on to its next stage, from a look at the flag to a tunnel.
LEMMA StageStep ==
  ASSUME ProxyInv, NEW s \in Slots, req[s].pc \notin {"idle", "done"},
         ~req[s].late, NEW b \in Backends \union {NoRoute},
         NEW reached \in BOOLEAN, NEW status \in Status,
         NEW pc \in {"route", "request", "resolve", "connect", "upgrade",
                     "tunnel"},
         req' = [req EXCEPT ![s] = [req[s] EXCEPT !.pc = pc, !.backend = b,
                                       !.reached = reached, !.status = status]],
         pc = "route" =>
           b = NoRoute /\ ~reached /\ routes[req[s].host] \in req[s].seen,
         pc = "request" =>
           req[s].kind = "http" /\ reached /\ b \in Backends \ Malformed,
         pc \notin {"route", "request"} =>
           /\ req[s].kind = "websocket" /\ b \in Backends
           /\ reached <=> pc # "resolve",
         b # NoRoute => b \in req[s].seen,
         status = IF pc = "tunnel" THEN "switching" ELSE "none",
         Unchanged
  PROVE  ProxyInv'
<1> DEFINE r == [req[s] EXCEPT !.pc = pc, !.backend = b,
                               !.reached = reached, !.status = status]
<1> HIDE DEF r
<1>1. req[s] \in Request /\ req[s].host \in Hosts
  BY UnderWay
<1>2. req' = [req EXCEPT ![s] = r] /\ req'[s] = r
  BY Zenon DEF ProxyInv, TypeOK, r
<1>3. /\ r \in Request /\ r.pc = pc /\ r.backend = b /\ r.reached = reached
      /\ r.status = status /\ r.host = req[s].host /\ r.kind = req[s].kind
      /\ r.late = req[s].late /\ r.seen = req[s].seen
  BY <1>1, Zenon DEF Request, r
<1>4. routes' = routes /\ shuttingDown' = shuttingDown
  BY DEF Unchanged, process
<1>5. StageSound(s)'
  BY <1>1, <1>2, <1>3, <1>4 DEF StageSound
<1>6. ForwardSound(s)'
  BY <1>2, <1>3, <1>4 DEF ForwardSound
<1> QED
  BY <1>2, <1>3, <1>5, <1>6, RequestStep, Zenon

\* Only the stage changes.
LEMMA StepIs ==
  ASSUME ProxyInv, NEW s \in Slots, NEW pc, req' = Step(s, pc)
  PROVE  req' = [req EXCEPT ![s] = [req[s] EXCEPT !.pc = pc,
                               !.backend = req[s].backend,
                               !.reached = req[s].reached,
                               !.status = req[s].status]]
<1>1. req[s] \in Request
  BY DEF ProxyInv, TypeOK
<1>2. [req[s] EXCEPT !.pc = pc] =
        [req[s] EXCEPT !.pc = pc, !.backend = req[s].backend,
                       !.reached = req[s].reached, !.status = req[s].status]
  BY <1>1 DEF Request
<1>3. req' = [req EXCEPT ![s] = [req[s] EXCEPT !.pc = pc]]
  BY Zenon DEF Step, ProxyInv, TypeOK
<1> QED
  BY <1>2, <1>3, Zenon

\* The look at the flag: a request that came after it was set goes no further.
LEMMA HandleKeeps ==
  ASSUME ProxyInv, NEW s \in Slots, handle(s)
  PROVE  ProxyInv'
<1>1. req[s].pc = "handle" /\ Unchanged
  BY DEF handle
<1>2. /\ req[s].backend = NoRoute /\ ~req[s].reached /\ req[s].status = "none"
      /\ routes[req[s].host] \in req[s].seen
      /\ req[s].late => shuttingDown
  BY <1>1, UnderWay DEF StageSound, ForwardSound
<1>3. CASE shuttingDown /\ req' = Answer(s, "503")
  <2>1. "503" \in Status \ {"none", "switching"}
    BY DEF Status
  <2> QED
    BY <1>1, <1>2, <1>3, <2>1, AnswerStep
<1>4. CASE ~shuttingDown /\ req' = Step(s, "route")
  <2>1. "none" \in Status
    BY DEF Status
  <2>2. req' = [req EXCEPT ![s] = [req[s] EXCEPT !.pc = "route",
                               !.backend = req[s].backend,
                               !.reached = req[s].reached,
                               !.status = req[s].status]]
    BY <1>4, StepIs
  <2>3. req[s].reached = FALSE
    BY <1>1, <1>2, UnderWay DEF Request
  <2>4. req' = [req EXCEPT ![s] = [req[s] EXCEPT !.pc = "route",
                               !.backend = NoRoute, !.reached = FALSE,
                               !.status = "none"]]
    BY <1>2, <2>2, <2>3, Zenon
  <2>5. ~req[s].late /\ req[s].pc \notin {"idle", "done"}
    BY <1>1, <1>2, <1>4
  <2> QED
    BY <1>1, <1>2, <2>1, <2>4, <2>5, StageStep
<1> QED
  BY <1>3, <1>4 DEF handle

\* The route is read once; the backend a request goes on with is the one its
\* host has then.
LEMMA RouteKeeps ==
  ASSUME ProxyInv, NEW s \in Slots, route(s)
  PROVE  ProxyInv'
<1> DEFINE b == resolve(s)
<1> HIDE DEF b
<1>1. req[s].pc = "route" /\ Unchanged
  BY DEF route
<1>2. /\ req[s] \in Request /\ req[s].host \in Hosts /\ ~req[s].late
      /\ req[s].backend = NoRoute /\ ~req[s].reached /\ req[s].status = "none"
      /\ b \in req[s].seen
  BY <1>1, UnderWay DEF StageSound, resolve, b
<1>3. b \in Backends \union {NoRoute}
  BY <1>2 DEF resolve, b, ProxyInv, TypeOK
<1>4. CASE b = NoRoute /\ req' = Answer(s, "404")
  <2>1. "404" \in Status \ {"none", "switching"}
    BY DEF Status
  <2> QED
    BY <1>1, <1>2, <1>4, <2>1, AnswerStep
<1>5. ASSUME NEW pc \in {"request", "resolve"}, NEW reached \in BOOLEAN,
             b # NoRoute,
             pc = "request" => /\ req[s].kind = "http" /\ b \notin Malformed
                               /\ reached,
             pc = "resolve" => req[s].kind = "websocket" /\ ~reached,
             req' = [req EXCEPT ![s] = [req[s] EXCEPT !.pc = pc, !.backend = b,
                                  !.reached = reached, !.status = "none"]]
      PROVE  ProxyInv'
  <2>1. "none" \in Status
    BY DEF Status
  <2> QED
    BY <1>1, <1>2, <1>3, <1>5, <2>1, StageStep
<1>6. CASE /\ b # NoRoute /\ req[s].kind = "websocket"
           /\ req' = [req EXCEPT ![s] = [[req[s] EXCEPT !.backend = b]
                                           EXCEPT !.pc = "resolve"]]
  <2>1. [[req[s] EXCEPT !.backend = b] EXCEPT !.pc = "resolve"] =
          [req[s] EXCEPT !.pc = "resolve", !.backend = b, !.reached = FALSE,
                         !.status = "none"]
    BY <1>2 DEF Request
  <2> QED
    BY <1>5, <1>6, <2>1
<1>7. CASE /\ b \in Backends \ Malformed /\ req[s].kind = "http"
           /\ req' = [req EXCEPT ![s] = [[req[s] EXCEPT !.backend = b]
                                    EXCEPT !.pc = "request", !.reached = TRUE]]
  <2>1. [[req[s] EXCEPT !.backend = b] EXCEPT !.pc = "request", !.reached = TRUE]
          = [req[s] EXCEPT !.pc = "request", !.backend = b, !.reached = TRUE,
                           !.status = "none"]
    BY <1>2 DEF Request
  <2>2. b # NoRoute
    BY <1>7, ConstantsAssumption
  <2> QED
    BY <1>5, <1>7, <2>1, <2>2
<1>8. CASE /\ b \in Malformed /\ req[s].kind = "http"
           /\ req' = [req EXCEPT ![s] = [[req[s] EXCEPT !.backend = b]
                                    EXCEPT !.pc = "done", !.status = "400"]]
  <2> DEFINE r == [[req[s] EXCEPT !.backend = b]
                     EXCEPT !.pc = "done", !.status = "400"]
  <2> HIDE DEF r
  <2>1. req' = [req EXCEPT ![s] = r] /\ req'[s] = r
    BY <1>8, Zenon DEF ProxyInv, TypeOK, r
  <2>2. "400" \in Status
    BY DEF Status
  <2>3. /\ r \in Request /\ r.pc = "done" /\ r.status = "400" /\ r.backend = b
        /\ r.host = req[s].host /\ r.kind = req[s].kind
        /\ r.reached = req[s].reached /\ r.late = req[s].late
        /\ r.seen = req[s].seen
    BY <1>2, <1>3, <2>2, Zenon DEF Request, r
  <2>4. StageSound(s)'
    BY <1>2, <2>1, <2>3 DEF StageSound
  <2>5. ForwardSound(s)'
    BY <1>2, <1>8, <2>1, <2>3 DEF ForwardSound
  <2> QED
    BY <1>1, <2>1, <2>3, <2>4, <2>5, RequestStep, Zenon
<1> QED
  BY <1>4, <1>6, <1>7, <1>8 DEF route, b

\* A request that is on its way to a backend goes on.
LEMMA BackendKeeps ==
  ASSUME ProxyInv, NEW s \in Slots,
         \/ proxy_http(s)
         \/ ws_resolve(s)
         \/ ws_connect(s)
         \/ ws_upgrade(s)
         \/ timeout_fires(s)
  PROVE  ProxyInv'
<1>1. Unchanged
  BY DEF proxy_http, ws_resolve, ws_connect, ws_upgrade, timeout_fires
<1>2. req[s].pc \in {"request", "resolve", "connect", "upgrade"}
  BY DEF proxy_http, ws_resolve, ws_connect, ws_upgrade, timeout_fires
<1>3. /\ req[s] \in Request /\ ~req[s].late
      /\ req[s].backend \in Backends /\ req[s].backend # NoRoute
      /\ req[s].backend \in req[s].seen /\ req[s].status = "none"
      /\ req[s].pc # "request" => req[s].kind = "websocket"
      /\ req[s].reached <=> req[s].pc # "resolve"
      /\ req[s].reached \in BOOLEAN
  BY <1>2, UnderWay, ConstantsAssumption DEF StageSound, ForwardSound, Request
<1>4. ASSUME NEW status \in {"400", "backend", "502", "504"},
             req' = Answer(s, status),
             status = "400" => req[s].pc = "connect",
             status \in {"backend", "504"} => req[s].pc # "resolve"
      PROVE  ProxyInv'
  <2>1. status \in Status \ {"none", "switching"}
    BY <1>4 DEF Status
  <2> QED
    BY <1>1, <1>2, <1>3, <1>4, <2>1, AnswerStep
<1>5. ASSUME NEW pc \in {"connect", "upgrade", "tunnel"},
             NEW status \in Status, req[s].pc # "request",
             status = IF pc = "tunnel" THEN "switching" ELSE "none",
             req' = [req EXCEPT ![s] = [req[s] EXCEPT !.pc = pc,
                        !.backend = req[s].backend, !.reached = TRUE,
                        !.status = status]]
      PROVE  ProxyInv'
  BY <1>1, <1>2, <1>3, <1>5, StageStep
<1>6. CASE proxy_http(s)
  BY <1>4, <1>6 DEF proxy_http
<1>7. CASE timeout_fires(s)
  BY <1>4, <1>7 DEF timeout_fires
<1>8. "none" \in Status /\ "switching" \in Status
  BY DEF Status
<1>9. CASE ws_resolve(s)
  <2>1. CASE req' = [req EXCEPT ![s].pc = "connect", ![s].reached = TRUE]
    <3>1. [req[s] EXCEPT !.pc = "connect", !.reached = TRUE] =
            [req[s] EXCEPT !.pc = "connect", !.backend = req[s].backend,
                           !.reached = TRUE, !.status = "none"]
      BY <1>3 DEF Request
    <3>2. req' = [req EXCEPT ![s] = [req[s] EXCEPT !.pc = "connect",
                                                   !.reached = TRUE]]
      BY <2>1, Zenon DEF ProxyInv, TypeOK
    <3>3. req[s].pc # "request"
      BY <1>9 DEF ws_resolve
    <3> QED
      BY <1>5, <1>8, <3>1, <3>2, <3>3
  <2> QED
    BY <1>4, <1>9, <2>1 DEF ws_resolve
<1>10. CASE ws_connect(s)
  <2>1. CASE req' = Step(s, "upgrade")
    <3>1. req' = [req EXCEPT ![s] = [req[s] EXCEPT !.pc = "upgrade",
                                 !.backend = req[s].backend,
                                 !.reached = req[s].reached,
                                 !.status = req[s].status]]
      BY <2>1, StepIs
    <3>2. req[s].reached = TRUE /\ req[s].pc # "request"
      BY <1>3, <1>10 DEF ws_connect
    <3> QED
      BY <1>3, <1>5, <1>8, <3>1, <3>2
  <2> QED
    BY <1>4, <1>10, <2>1 DEF ws_connect
<1>11. CASE ws_upgrade(s)
  <2>1. CASE req' = [req EXCEPT ![s].pc = "tunnel", ![s].status = "switching"]
    <3>1. req[s].reached = TRUE /\ req[s].pc # "request"
      BY <1>3, <1>11 DEF ws_upgrade
    <3>2. [req[s] EXCEPT !.pc = "tunnel", !.status = "switching"] =
            [req[s] EXCEPT !.pc = "tunnel", !.backend = req[s].backend,
                           !.reached = TRUE, !.status = "switching"]
      BY <1>3, <3>1 DEF Request
    <3>3. req' = [req EXCEPT ![s] = [req[s] EXCEPT !.pc = "tunnel",
                                                   !.status = "switching"]]
      BY <2>1, Zenon DEF ProxyInv, TypeOK
    <3> QED
      BY <1>5, <1>8, <3>1, <3>2, <3>3
  <2> QED
    BY <1>4, <1>11, <2>1 DEF ws_upgrade
<1> QED
  BY <1>6, <1>7, <1>9, <1>10, <1>11

\* Every step of the agent and of its connections keeps ProxyInv.
LEMMA StepInv ==
  ProxyInv /\ [Next]_vars => ProxyInv'
<1> SUFFICES ASSUME ProxyInv, [Next]_vars PROVE ProxyInv'
  OBVIOUS
<1>1. CASE UNCHANGED vars
  <2>1. /\ TypeOK' /\ StartSound' /\ req' = req /\ routes' = routes
        /\ shuttingDown' = shuttingDown
    BY <1>1 DEF vars, process, ProxyInv, TypeOK, StartSound
  <2> QED
    BY <2>1, ProcessStep
<1>2. ASSUME NEW s \in Slots, NEW h \in Hosts, NEW k \in Kinds, arrive(s, h, k)
      PROVE  ProxyInv'
  BY <1>2, ArriveKeeps
<1> QED
  BY <1>1, <1>2, ProcessKeeps, ReconcileKeeps, GoneKeeps, HandleKeeps, RouteKeeps,
     BackendKeeps DEF Next

\* Whatever happens to the routes, the flag and the process while requests are
\* under way, and for any number of them, a request goes only to a backend its
\* host had meanwhile, an error that says it went to none is true, and one that
\* came after the flag was set is told 503 (proxy.rs, main.rs).
THEOREM ProxyIsSound == Spec => []ProxyInv
BY InitInv, StepInv, PTL DEF Spec

-----------------------------------------------------------------------------
(* The backend of a container.                                             *)

\* The least of a set of numbers, if it has one.
LEMMA MinIs ==
  ASSUME NEW S, S \subseteq Int, NEW m \in S, \A k \in S : m <= k
  PROVE  Min(S) = m
<1>1. \A x \in S : (\A k \in S : x =< k) => x = m
  OBVIOUS
<1> QED
  BY <1>1, Zenon DEF Min

\* A finite set has one element, none or more than one.
LEMMA CountFacts ==
  ASSUME NEW S, IsFiniteSet(S)
  PROVE  /\ Cardinality(S) = 1 <=> \E x : S = {x}
         /\ Cardinality(S) > 1 <=> S # {} /\ ~ \E x : S = {x}
         /\ Cardinality(S) <= 1 <=> S = {} \/ \E x : S = {x}
<1>1. Cardinality(S) \in Nat
  BY FS_CardinalityType
<1>2. Cardinality(S) = 0 <=> S = {}
  BY FS_EmptySet
<1>3. Cardinality(S) = 1 <=> \E x : S = {x}
  BY FS_Singleton
<1>4. Cardinality(S) > 1 <=> Cardinality(S) # 0 /\ Cardinality(S) # 1
  BY <1>1
<1>5. Cardinality(S) <= 1 <=> Cardinality(S) = 0 \/ Cardinality(S) = 1
  BY <1>1
<1> QED
  BY <1>2, <1>3, <1>4, <1>5

\* The one element of a set that has no other.
LEMMA TheOne == \A x : (CHOOSE y \in {x} : TRUE) = x
OBVIOUS

\* There are finitely many bindings.
LEMMA BindingsFinite == IsFiniteSet(Bindings)
<1> DEFINE Ips == {"any", "local", "lan"}
           Tuples == ((Ports \X Protocols) \X Ips) \X HostPorts
           f == [x \in Tuples |-> [port |-> x[1][1][1], protocol |-> x[1][1][2],
                                   ip |-> x[1][2], hostPort |-> x[2]]]
<1>1. IsFiniteSet(Ports) /\ IsFiniteSet(HostPorts) /\ IsFiniteSet(Protocols)
  <2>1. IsFiniteSet({"tcp"}) /\ IsFiniteSet({"tcp"} \union {"udp"})
    BY FS_Singleton, FS_AddElement
  <2>2. Protocols \in SUBSET ({"tcp"} \union {"udp"})
    BY ShapeAssumption
  <2> QED
    BY <2>1, <2>2, FS_Subset, ShapeAssumption, Zenon
<1>2. IsFiniteSet(Ips)
  <2>1. IsFiniteSet({"any"} \union {"local"} \union {"lan"})
    BY FS_Singleton, FS_AddElement, Zenon
  <2>2. Ips = {"any"} \union {"local"} \union {"lan"}
    OBVIOUS
  <2> QED
    BY <2>1, <2>2
<1>3. IsFiniteSet(Tuples)
  <2> HIDE DEF Ips
  <2>1. IsFiniteSet(Ports \X Protocols)
    BY <1>1, FS_Product
  <2>2. IsFiniteSet((Ports \X Protocols) \X Ips)
    BY <1>2, <2>1, FS_Product
  <2> QED
    BY <1>1, <2>2, FS_Product
<1>4. f \in Surjection(Tuples, Bindings)
  <2>1. f \in [Tuples -> Bindings]
    BY DEF Bindings
  <2>2. ASSUME NEW b \in Bindings
        PROVE  \E x \in Tuples : f[x] = b
    <3> DEFINE x == <<<<<<b.port, b.protocol>>, b.ip>>, b.hostPort>>
    <3>1. x \in Tuples
      BY DEF Bindings
    <3>2. f[x] = b
      BY <3>1 DEF Bindings
    <3> QED
      BY <3>1, <3>2
  <2> HIDE DEF f, Tuples
  <2> QED
    BY <2>1, <2>2 DEF Surjection
<1> HIDE DEF Tuples, f
<1> QED
  BY <1>3, <1>4, FS_Surjection

\* What Docker reports of a container.
LEMMA ShapeFacts ==
  ASSUME NEW c \in Reportable
  PROVE  /\ c.published \subseteq Bindings /\ IsFiniteSet(c.published)
         /\ c.exposed \subseteq Ports \X Protocols /\ IsFiniteSet(c.exposed)
         /\ c.networks \subseteq Networks /\ IsFiniteSet(c.networks)
         /\ c.labels \in Labels /\ c.mode \in {"host", "bridge"}
         /\ c.running \in BOOLEAN /\ c.skipImage \in BOOLEAN
<1>1. /\ c.published \in UpTo(Bindings, MaxBindings)
      /\ c.exposed \in UpTo(Ports \X Protocols, MaxBindings)
      /\ c.networks \in SUBSET Networks
      /\ c.labels \in Labels /\ c.mode \in {"host", "bridge"}
      /\ c.running \in BOOLEAN /\ c.skipImage \in BOOLEAN
  BY DEF Reportable
<1>2. ASSUME NEW S, NEW T \in UpTo(S, MaxBindings)
      PROVE  T \in SUBSET S
  BY DEF UpTo, kSubset
<1>3. c.published \in SUBSET Bindings /\ c.exposed \in SUBSET (Ports \X Protocols)
  BY <1>1, <1>2
<1>4. IsFiniteSet(Ports \X Protocols)
  <2>1. IsFiniteSet({"tcp"} \union {"udp"})
    BY FS_Singleton, FS_AddElement, Zenon
  <2>2. Protocols \in SUBSET ({"tcp"} \union {"udp"})
    BY ShapeAssumption
  <2>3. IsFiniteSet(Protocols)
    BY <2>1, <2>2, FS_Subset, Zenon
  <2> QED
    BY <2>3, FS_Product, ShapeAssumption
<1>5. IsFiniteSet(c.published)
  BY <1>3, BindingsFinite, FS_Subset
<1>6. IsFiniteSet(c.exposed)
  BY <1>3, <1>4, FS_Subset
<1>7. IsFiniteSet(c.networks)
  BY <1>1, FS_Subset, ShapeAssumption
<1> QED
  BY <1>1, <1>3, <1>5, <1>6, <1>7

\* A container whose labels count.
IsEnabled(c) == c.running /\ c.labels.enable /\ c.labels.hosts = "valid"

\* What the agent keeps of a container.
LEMMA ServiceFacts ==
  ASSUME NEW c \in Reportable
  PROVE  LET s == inspect_service(c)
         IN  /\ ~ IsEnabled(c) => s = NoService
             /\ IsEnabled(c) =>
                  /\ s # NoService
                  /\ s.labels.port = IF c.labels.port \in Ports THEN {c.labels.port} ELSE {}
                  /\ s.labels.backend <=> c.labels.backend = "valid"
                  /\ s.labels.network = {c.labels.network} \ {"absent"}
                  /\ s.mode = c.mode /\ s.published = c.published
                  /\ s.exposed = c.exposed /\ s.networks = c.networks
<1> DEFINE l == labels_from_map(c.labels)
           kept == [port |-> IF c.labels.port \in Ports THEN {c.labels.port} ELSE {},
                    backend |-> c.labels.backend = "valid",
                    network |-> {c.labels.network} \ {"absent"}]
           s == [labels |-> kept, mode |-> c.mode, published |-> c.published,
                 exposed |-> c.exposed, networks |-> c.networks]
<1>1. kept # NoService /\ s # NoService
  <2>1. "port" \in DOMAIN kept /\ "mode" \in DOMAIN s
    OBVIOUS
  <2>2. "port" \notin DOMAIN NoService /\ "mode" \notin DOMAIN NoService
    BY DEF NoService
  <2> QED
    BY <2>1, <2>2
<1>2. CASE ~ IsEnabled(c)
  BY <1>2, Zenon DEF IsEnabled, inspect_service, labels_from_map
<1>3. CASE IsEnabled(c)
  <2>1. l = kept
    BY <1>3 DEF IsEnabled, labels_from_map
  <2> HIDE DEF kept
  <2>2. inspect_service(c) = s
    BY <1>1, <1>3, <2>1 DEF IsEnabled, inspect_service
  <2>3. /\ s.labels = kept /\ s.mode = c.mode /\ s.published = c.published
        /\ s.exposed = c.exposed /\ s.networks = c.networks
    OBVIOUS
  <2>4. /\ kept.port = IF c.labels.port \in Ports THEN {c.labels.port} ELSE {}
        /\ kept.backend <=> c.labels.backend = "valid"
        /\ kept.network = {c.labels.network} \ {"absent"}
    BY Zenon DEF kept
  <2> QED
    BY <1>1, <1>3, <2>2, <2>3, <2>4
<1> QED
  BY <1>2, <1>3

\* The port of a service, for any labels: none, or one of Docker's.
LEMMA ChosenPortFacts ==
  ASSUME NEW c \in Reportable, IsEnabled(c)
  PROVE  \/ ChosenPort(inspect_service(c)) = {}
         \/ \E p \in Ports : ChosenPort(inspect_service(c)) = {p}
<1> DEFINE s == inspect_service(c)
<1>1. /\ s.labels.port = IF c.labels.port \in Ports THEN {c.labels.port} ELSE {}
      /\ s.published = c.published /\ s.exposed = c.exposed
  BY ServiceFacts, Zenon
<1> HIDE DEF s
<1>2. /\ c.published \subseteq Bindings /\ IsFiniteSet(c.published)
      /\ c.exposed \subseteq Ports \X Protocols /\ IsFiniteSet(c.exposed)
  BY ShapeFacts
<1>3. \/ single_exposed_port(s) = {} \/ \E p \in Ports : single_exposed_port(s) = {p}
  <2>1. CASE Cardinality(c.exposed) = 1
    <3>1. PICK e : c.exposed = {e}
      BY <1>2, <2>1, CountFacts, Zenon
    <3>2. single_exposed_port(s) = {e[1]} /\ e[1] \in Ports
      BY <1>1, <1>2, <2>1, <3>1 DEF single_exposed_port
    <3> QED
      BY <3>2
  <2> QED
    BY <1>1, <2>1 DEF single_exposed_port
<1>4. \/ single_published_container_port(s) = {}
      \/ \E p \in Ports : single_published_container_port(s) = {p}
  <2> DEFINE ports == {p.port : p \in c.published}
  <2>1. CASE Cardinality(ports) = 1
    <3>1. IsFiniteSet(ports) /\ ports \subseteq Ports
      <4> DEFINE f == [b \in c.published |-> b.port]
      <4>1. f \in Surjection(c.published, ports)
        BY DEF Surjection
      <4> QED
        BY <1>2, <4>1, FS_Surjection DEF Bindings
    <3>2. PICK p : ports = {p}
      <4> HIDE DEF ports
      <4> QED
        BY <2>1, <3>1, CountFacts, Zenon
    <3>3. p \in Ports
      BY <3>1, <3>2
    <3> QED
      BY <1>1, <2>1, <3>2, <3>3 DEF single_published_container_port
  <2> QED
    BY <1>1, <2>1, Zenon DEF single_published_container_port
<1> QED
  BY <1>1, <1>3, <1>4 DEF ChosenPort, s

\* The bindings of a port, as the code selects them.
LEMMA SelectFacts ==
  ASSUME NEW c \in Reportable, IsEnabled(c), NEW port
  PROVE  LET pubs == select_published_port(inspect_service(c), port)
         IN  /\ pubs \subseteq {b \in c.published : b.port = port}
             /\ IsFiniteSet(pubs)
<1> DEFINE s == inspect_service(c)
           pubs == select_published_port(s, port)
<1>1. s.published = c.published
  BY ServiceFacts, Zenon
<1> HIDE DEF s
<1>2. pubs \subseteq {b \in c.published : b.port = port}
  BY <1>1 DEF select_published_port
<1> HIDE DEF pubs
<1>3. pubs \in SUBSET c.published
  BY <1>2
<1>4. IsFiniteSet(pubs)
  BY <1>3, ShapeFacts, FS_Subset
<1> QED
  BY <1>2, <1>4 DEF pubs, s

\* The address of a container, as the code selects it: at most one.
LEMMA ContainerIpFacts ==
  ASSUME NEW c \in Reportable, IsEnabled(c)
  PROVE  LET ips == select_container_ip(inspect_service(c))
         IN  /\ ips \subseteq Networks
             /\ ips = IF c.labels.network # "absent"
                      THEN {c.labels.network} \intersect c.networks
                      ELSE IF Cardinality(c.networks) = 1 THEN c.networks ELSE {}
<1> DEFINE s == inspect_service(c)
<1>1. s.labels.network = {c.labels.network} \ {"absent"} /\ s.networks = c.networks
  BY ServiceFacts, Zenon
<1> HIDE DEF s
<1>2. s.labels.network # {} <=> c.labels.network # "absent"
  BY <1>1
<1>3. select_container_ip(s) = IF c.labels.network # "absent"
                      THEN {c.labels.network} \intersect c.networks
                      ELSE IF Cardinality(c.networks) = 1 THEN c.networks ELSE {}
  <2>1. CASE c.labels.network # "absent"
    <3>1. s.labels.network = {c.labels.network}
      BY <1>1, <2>1
    <3> QED
      BY <1>1, <1>2, <2>1, <3>1 DEF select_container_ip
  <2>2. CASE c.labels.network = "absent"
    BY <1>1, <1>2, <2>2 DEF select_container_ip
  <2> QED
    BY <2>1, <2>2
<1>4. c.networks \subseteq Networks
  BY ShapeFacts
<1> QED
  BY <1>3, <1>4 DEF s

\* An address of Docker's is one that the results may have.
LEMMA AddressFacts ==
  /\ \A b \in Bindings : Backend(LocalHost(b), b.hostPort) \in Addresses
  /\ \A n \in Networks \union {"local"}, p \in Ports : Backend(n, p) \in Addresses
BY DEF Addresses, Bindings, LocalHost

\* Labels lead to a refusal or an address, for any ports and protocols.
LEMMA ResolveTyped ==
  ASSUME NEW c \in Reportable, IsEnabled(c)
  PROVE  resolve_backend(inspect_service(c)) \in {Rejected, Explicit} \union Addresses
<1> DEFINE s == inspect_service(c)
           port == CHOOSE p \in ChosenPort(s) : TRUE
           pubs == select_published_port(s, port)
           pub == CHOOSE p \in pubs : TRUE
           ips == select_container_ip(s)
           ip == CHOOSE n \in ips : TRUE
<1>1. ChosenPort(s) # {} => port \in Ports
  BY ChosenPortFacts
<1>2. pubs \subseteq Bindings /\ (pubs # {} => pub \in Bindings)
  <2>1. pubs \subseteq c.published
    BY SelectFacts
  <2>2. pubs \subseteq Bindings
    BY <2>1, ShapeFacts
  <2> HIDE DEF pubs
  <2> QED
    BY <2>2
<1>3. ips # {} => ip \in Networks
  <2>1. ips \subseteq Networks
    BY ContainerIpFacts
  <2> HIDE DEF ips
  <2> QED
    BY <2>1
<1>4. resolve_backend(s) =
        IF s.labels.backend THEN Explicit
        ELSE IF ChosenPort(s) = {} THEN Rejected
        ELSE IF Cardinality(pubs) > 1 THEN Rejected
        ELSE IF pubs # {} THEN Backend(LocalHost(pub), pub.hostPort)
        ELSE IF s.mode = "host" THEN Backend("local", port)
        ELSE IF ips = {} THEN Rejected
        ELSE Backend(ip, port)
  BY DEF resolve_backend
<1> HIDE DEF s, port, pubs, pub, ips, ip
<1>5. resolve_backend(s) \in {Rejected, Explicit} \union Addresses
  BY <1>1, <1>2, <1>3, <1>4, AddressFacts
<1> QED
  BY <1>5 DEF s

\* So does discovery.
LEMMA SuggestTyped ==
  ASSUME NEW c \in Reportable
  PROVE  inspect_candidate(c) \in {Rejected, Unreported} \union Addresses
<1> DEFINE port == CHOOSE p \in ExposedPorts(c) : TRUE
           pub == CHOOSE p \in c.published : TRUE
           ip == CHOOSE n \in c.networks : TRUE
<1>1. /\ c.published # {} => pub \in Bindings
      /\ c.networks # {} => ip \in Networks
  BY ShapeFacts
<1>2. ExposedPorts(c) # {} => port \in Ports
  <2>1. ExposedPorts(c) \subseteq Ports
    BY ShapeFacts DEF ExposedPorts
  <2> QED
    BY <2>1
<1>3. Cardinality({}) # 1
  BY FS_EmptySet
<1>4. suggest_backend(c) =
        IF Cardinality(c.published) = 1 THEN Backend(LocalHost(pub), pub.hostPort)
        ELSE IF Cardinality(ExposedPorts(c)) # 1 THEN Rejected
        ELSE IF c.mode = "host" THEN Backend("local", port)
        ELSE IF Cardinality(c.networks) # 1 THEN Rejected
        ELSE Backend(ip, port)
  BY DEF suggest_backend
<1> HIDE DEF port, pub, ip
<1>5. suggest_backend(c) \in {Rejected} \union Addresses
  BY <1>1, <1>2, <1>3, <1>4, AddressFacts, Zenon
<1> QED
  BY <1>5 DEF inspect_candidate

\* Without UDP an exposed entry is its port.
LEMMA ExposedFacts ==
  ASSUME NEW c \in Reportable, TcpOnly(c)
  PROVE  LET ports == {e[1] : e \in c.exposed}
         IN  /\ IsFiniteSet(ports)
             /\ Cardinality(ports) = 1 <=> Cardinality(c.exposed) = 1
             /\ \A p : ports = {p} => c.exposed = {<<p, "tcp">>}
<1> DEFINE ports == {e[1] : e \in c.exposed}
           f == [e \in c.exposed |-> e[1]]
<1>1. c.exposed \subseteq Ports \X Protocols /\ IsFiniteSet(c.exposed)
  BY ShapeFacts
<1>2. IsFiniteSet(ports)
  <2>1. f \in Surjection(c.exposed, ports)
    BY DEF Surjection
  <2> QED
    BY <1>1, <2>1, FS_Surjection
<1>3. \A e \in c.exposed : e = <<e[1], "tcp">>
  BY <1>1 DEF TcpOnly
<1>4. ASSUME NEW p, ports = {p}
      PROVE  c.exposed = {<<p, "tcp">>}
  <2>1. c.exposed # {} /\ \A e \in c.exposed : e[1] = p
    BY <1>4
  <2> QED
    BY <1>3, <2>1
<1>5. ASSUME NEW e, c.exposed = {e}
      PROVE  ports = {e[1]}
  BY <1>5
<1>6. (\E p : ports = {p}) <=> (\E e : c.exposed = {e})
  BY <1>4, <1>5, Zenon
<1> HIDE DEF ports
<1>7. Cardinality(ports) = 1 <=> Cardinality(c.exposed) = 1
  BY <1>1, <1>2, <1>6, CountFacts, Zenon
<1> QED
  BY <1>2, <1>4, <1>7 DEF ports

\* The first of three choices.
LEMMA FirstOfThree ==
  ASSUME NEW good, good \subseteq 1..3
  PROVE  /\ 1 \in good => Min(good) = 1
         /\ 1 \notin good /\ 2 \in good => Min(good) = 2
         /\ 1 \notin good /\ 2 \notin good /\ 3 \in good => Min(good) = 3
         /\ good = {} <=> 1 \notin good /\ 2 \notin good /\ 3 \notin good
<1>1. \A k \in good : k = 1 \/ k = 2 \/ k = 3
  OBVIOUS
<1>2. good \subseteq Int
  OBVIOUS
<1>3. ASSUME 1 \in good PROVE Min(good) = 1
  <2>1. \A k \in good : 1 <= k
    BY <1>1
  <2> QED
    BY <1>2, <1>3, <2>1, MinIs, Zenon
<1>4. ASSUME 1 \notin good, 2 \in good PROVE Min(good) = 2
  <2>1. \A k \in good : 2 <= k
    BY <1>1, <1>4
  <2> QED
    BY <1>2, <1>4, <2>1, MinIs, Zenon
<1>5. ASSUME 1 \notin good, 2 \notin good, 3 \in good PROVE Min(good) = 3
  <2>1. \A k \in good : 3 <= k
    BY <1>1, <1>5
  <2> QED
    BY <1>2, <1>5, <2>1, MinIs, Zenon
<1> QED
  BY <1>1, <1>3, <1>4, <1>5

\* The port the code chooses is the one the priorities determine.
LEMMA PortIsWanted ==
  ASSUME container \in Reportable, IsEnabled(container), TcpOnly(container)
  PROVE  ChosenPort(inspect_service(container)) = WantedPort
<1> DEFINE s == inspect_service(container)
           label == IF container.labels.port \in Ports THEN {container.labels.port} ELSE {}
           shown == {e[1] : e \in container.exposed}
           bound == {b.port : b \in container.published}
           choices == <<label, TcpExposed, {b.port : b \in TcpPublished}>>
           good == {i \in 1..3 : Cardinality(choices[i]) = 1}
<1> HIDE DEF s, label, shown, bound, choices, good
<1>1. /\ s.labels.port = label
      /\ s.published = container.published /\ s.exposed = container.exposed
  BY ServiceFacts, Zenon DEF s, label
<1>2. TcpExposed = shown
  BY DEF TcpExposed, TcpOnly, shown
<1>3. TcpPublished = container.published
  BY DEF TcpPublished, TcpOnly
<1>4. choices[1] = label /\ choices[2] = shown /\ choices[3] = bound
  BY <1>2, <1>3 DEF choices, bound
<1>5. WantedPort = IF good = {} THEN {} ELSE choices[Min(good)]
  BY DEF WantedPort, good, choices, label
<1>6. /\ 1 \in good <=> Cardinality(label) = 1
      /\ 2 \in good <=> Cardinality(shown) = 1
      /\ 3 \in good <=> Cardinality(bound) = 1
  <2>1. \A i \in 1..3 : i \in good <=> Cardinality(choices[i]) = 1
    BY DEF good
  <2>2. 1 \in 1..3 /\ 2 \in 1..3 /\ 3 \in 1..3
    OBVIOUS
  <2> QED
    BY <1>4, <2>1, <2>2
<1>7. Cardinality(label) = 1 <=> label # {}
  BY FS_Singleton, FS_EmptySet, Zenon DEF label
<1>8. Cardinality(shown) = 1 <=> Cardinality(container.exposed) = 1
  BY ExposedFacts, Zenon DEF shown
<1>9. ChosenPort(s) = IF label # {} THEN label
                      ELSE IF single_exposed_port(s) # {} THEN single_exposed_port(s)
                      ELSE single_published_container_port(s)
  BY <1>1 DEF ChosenPort
<1>10. single_exposed_port(s) = IF Cardinality(shown) = 1 THEN shown ELSE {}
  BY <1>1, <1>8 DEF single_exposed_port, shown
<1>11. single_published_container_port(s) =
         IF Cardinality(bound) = 1 THEN bound ELSE {}
  BY <1>1 DEF single_published_container_port, bound
<1>12. good \subseteq 1..3 /\ Cardinality({}) # 1
  BY FS_EmptySet DEF good
<1>13. /\ 1 \in good => Min(good) = 1
       /\ 1 \notin good /\ 2 \in good => Min(good) = 2
       /\ 1 \notin good /\ 2 \notin good /\ 3 \in good => Min(good) = 3
       /\ good = {} <=> 1 \notin good /\ 2 \notin good /\ 3 \notin good
  BY <1>12, FirstOfThree, Zenon
<1>14. ChosenPort(s) = WantedPort
  BY <1>4, <1>5, <1>6, <1>7, <1>9, <1>10, <1>11, <1>12, <1>13
<1> QED
  BY <1>14 DEF s

\* So is the backend: the ways to reach the port in the order of the
\* priorities, and several ways are no way.
LEMMA BackendIsWanted ==
  ASSUME container \in Reportable, IsEnabled(container), TcpOnly(container)
  PROVE  resolve_backend(inspect_service(container)) = WantedBackend
<1> DEFINE s == inspect_service(container)
           port == CHOOSE p \in ChosenPort(s) : TRUE
           pubs == select_published_port(s, port)
           pub == CHOOSE p \in pubs : TRUE
           ips == select_container_ip(s)
           ip == CHOOSE n \in ips : TRUE
           open == {i \in 1..3 : Ways[i] # {}}
           level == Min(open)
           way == CHOOSE w \in Ways[level] : TRUE
           wanted == CHOOSE p \in WantedPort : TRUE
<1> SUFFICES resolve_backend(s) = WantedBackend
  OBVIOUS
<1> HIDE DEF s, port, pubs, pub, ips, ip, open, level, way, wanted
<1>1. resolve_backend(s) =
        IF s.labels.backend THEN Explicit
        ELSE IF ChosenPort(s) = {} THEN Rejected
        ELSE IF Cardinality(pubs) > 1 THEN Rejected
        ELSE IF pubs # {} THEN Backend(LocalHost(pub), pub.hostPort)
        ELSE IF s.mode = "host" THEN Backend("local", port)
        ELSE IF ips = {} THEN Rejected
        ELSE Backend(ip, port)
  BY DEF resolve_backend, port, pubs, pub, ips, ip
<1>2. WantedBackend =
        IF container.labels.backend = "valid" THEN Explicit
        ELSE IF WantedPort = {} \/ open = {} THEN Rejected
        ELSE IF Cardinality(Ways[level]) > 1 THEN Rejected
        ELSE IF level = 1
          THEN Backend(IF way.ip = "lan" THEN "lan" ELSE "local", way.hostPort)
        ELSE Backend(way, wanted)
  BY DEF WantedBackend, open, level, way, wanted
<1>3. /\ s.labels.backend <=> container.labels.backend = "valid"
      /\ s.mode = container.mode
      /\ s.published = container.published
  BY ServiceFacts, Zenon DEF s
<1>4. ChosenPort(s) = WantedPort
  BY PortIsWanted DEF s
<1>5. CASE container.labels.backend = "valid" \/ WantedPort = {}
  BY <1>1, <1>2, <1>3, <1>4, <1>5
<1>6. CASE container.labels.backend # "valid" /\ WantedPort # {}
  <2>1. WantedPort = {port}
    BY <1>4, <1>6, ChosenPortFacts DEF s, port
  <2>2. Ways[1] = pubs
    <3> DEFINE matches == {p \in container.published : p.port = port}
               local == {p \in matches : p.ip \in {"any", "local"}}
    <3>1. {b \in TcpPublished : b.port \in WantedPort} = matches
      BY <2>1 DEF TcpPublished, TcpOnly
    <3>2. {b \in matches : b.ip # "lan"} = local
      <4>1. \A b \in container.published : b.ip \in {"any", "local", "lan"}
        BY ShapeFacts DEF Bindings
      <4> QED
        BY <4>1
    <3>3. pubs = IF Cardinality(matches) > 1 /\ Cardinality(local) = 1 THEN local
                 ELSE matches
      BY <1>3 DEF select_published_port, pubs
    <3> HIDE DEF matches, local
    <3> QED
      BY <3>1, <3>2, <3>3, Zenon DEF Ways
  <2>3. Ways[2] = IF container.mode = "host" THEN {"local"} ELSE {}
    BY DEF Ways
  <2>4. Ways[3] = IF container.labels.network = "absent" THEN container.networks
                  ELSE container.networks \intersect {container.labels.network}
    BY DEF Ways
  <2>5. /\ 1 \in open <=> Ways[1] # {}
        /\ 2 \in open <=> Ways[2] # {}
        /\ 3 \in open <=> Ways[3] # {}
        /\ open \subseteq 1..3
    BY DEF open
  <2>6. /\ 1 \in open => level = 1
        /\ 1 \notin open /\ 2 \in open => level = 2
        /\ 1 \notin open /\ 2 \notin open /\ 3 \in open => level = 3
        /\ open = {} <=> 1 \notin open /\ 2 \notin open /\ 3 \notin open
    BY <2>5, FirstOfThree, Zenon DEF level
  <2>7. resolve_backend(s) =
          IF Cardinality(pubs) > 1 THEN Rejected
          ELSE IF pubs # {} THEN Backend(LocalHost(pub), pub.hostPort)
          ELSE IF container.mode = "host" THEN Backend("local", port)
          ELSE IF ips = {} THEN Rejected
          ELSE Backend(ip, port)
    BY <1>1, <1>3, <1>4, <1>6
  <2>8. WantedBackend =
          IF open = {} THEN Rejected
          ELSE IF Cardinality(Ways[level]) > 1 THEN Rejected
          ELSE IF level = 1
            THEN Backend(IF way.ip = "lan" THEN "lan" ELSE "local", way.hostPort)
          ELSE Backend(way, wanted)
    BY <1>2, <1>6
  <2>9. CASE pubs # {}
    <3>1. level = 1 /\ way = pub /\ open # {} /\ Ways[level] = pubs
      BY <2>2, <2>5, <2>6, <2>9 DEF way, pub
    <3>2. pub.ip \in {"any", "local", "lan"}
      <4>1. pubs \subseteq container.published
        BY <1>3, SelectFacts DEF pubs, s
      <4>2. pub \in pubs
        BY <2>9 DEF pub
      <4> QED
        BY <4>1, <4>2, ShapeFacts DEF Bindings
    <3> QED
      BY <2>7, <2>8, <2>9, <3>1, <3>2 DEF LocalHost
  <2>10. CASE pubs = {} /\ container.mode = "host"
    <3>1. level = 2 /\ open # {} /\ Ways[level] = {"local"}
      BY <2>2, <2>3, <2>5, <2>6, <2>10
    <3>2. way = "local" /\ ~(Cardinality({"local"}) > 1) /\ ~(Cardinality({}) > 1)
      <4>1. Cardinality({"local"}) = 1 /\ Cardinality({}) = 0
        BY FS_Singleton, FS_EmptySet, Zenon
      <4>2. ~(Cardinality({"local"}) > 1) /\ ~(Cardinality({}) > 1)
        BY <4>1
      <4>3. way = "local"
        BY <3>1 DEF way
      <4> QED
        BY <4>2, <4>3
    <3>3. wanted = port
      BY <2>1 DEF wanted
    <3> QED
      BY <2>7, <2>8, <2>10, <3>1, <3>2, <3>3
  <2>11. CASE pubs = {} /\ container.mode # "host"
    <3>1. 1 \notin open /\ 2 \notin open
      BY <2>2, <2>3, <2>5, <2>11
    <3>2. Ways[3] # {} => level = 3
      BY <2>5, <2>6, <3>1
    <3>3. ips = IF container.labels.network # "absent"
                THEN {container.labels.network} \intersect container.networks
                ELSE IF Cardinality(container.networks) = 1 THEN container.networks
                ELSE {}
      BY ContainerIpFacts DEF ips, s
    <3>4. IsFiniteSet(Ways[3])
      <4>1. Ways[3] \in SUBSET container.networks
        BY <2>4
      <4> QED
        BY <4>1, ShapeFacts, FS_Subset
    <3>5. ips = IF Cardinality(Ways[3]) > 1 THEN {} ELSE Ways[3]
      <4>1. CASE container.labels.network # "absent"
        <5>1. Ways[3] = ips
          BY <2>4, <3>3, <4>1
        <5>2. Ways[3] = {} \/ Ways[3] = {container.labels.network}
          BY <2>4, <4>1
        <5> QED
          BY <3>4, <5>1, <5>2, CountFacts
      <4>2. CASE container.labels.network = "absent"
        <5>1. /\ Ways[3] = container.networks
              /\ ips = IF Cardinality(Ways[3]) = 1 THEN Ways[3] ELSE {}
          BY <2>4, <3>3, <4>2
        <5> QED
          BY <3>4, <5>1, CountFacts
      <4> QED
        BY <4>1, <4>2
    <3>6. wanted = port
      BY <2>1 DEF wanted
    <3>7. ~(Cardinality({}) > 1)
      BY FS_EmptySet
    <3>8. CASE Ways[3] = {}
      <4>1. open = {} /\ ips = {}
        BY <2>5, <2>6, <3>1, <3>5, <3>8
      <4> QED
        BY <2>7, <2>8, <2>11, <3>7, <4>1
    <3>9. CASE Ways[3] # {} /\ Cardinality(Ways[3]) > 1
      <4>1. level = 3 /\ open # {} /\ ips = {}
        BY <2>5, <2>6, <3>2, <3>5, <3>9
      <4> QED
        BY <2>7, <2>8, <2>11, <3>7, <3>9, <4>1
    <3>10. CASE Ways[3] # {} /\ ~(Cardinality(Ways[3]) > 1)
      <4>1. level = 3 /\ open # {} /\ ips = Ways[3]
        BY <2>5, <2>6, <3>2, <3>5, <3>10
      <4>2. way = ip
        BY <4>1 DEF way, ip
      <4> QED
        BY <2>7, <2>8, <2>11, <3>6, <3>7, <3>10, <4>1, <4>2
    <3> QED
      BY <3>8, <3>9, <3>10
  <2> QED
    BY <2>9, <2>10, <2>11
<1> QED
  BY <1>5, <1>6

\* A container with no label but those that enable it.
LEMMA PlainFacts ==
  ASSUME NEW c \in Reportable, c.running
  PROVE  LET d == Plain(c)
             s == inspect_service(d)
         IN  /\ d \in Reportable /\ IsEnabled(d)
             /\ d.labels.network = "absent" /\ d.networks = c.networks
             /\ s.labels.port = {} /\ ~ s.labels.backend
             /\ s.mode = c.mode /\ s.published = c.published /\ s.exposed = c.exposed
<1> DEFINE d == Plain(c)
           s == inspect_service(d)
           bare == [enable |-> TRUE, hosts |-> "valid", port |-> "absent",
                    backend |-> "absent", network |-> "absent"]
<1>1. bare \in Labels
  BY DEF Labels
<1>2. /\ d.labels = bare /\ d.running = c.running /\ d.mode = c.mode
      /\ d.published = c.published /\ d.exposed = c.exposed /\ d.networks = c.networks
  BY Zenon DEF Plain, Reportable
<1>3. d \in Reportable
  BY <1>1, Zenon DEF Plain, Reportable, Possible
<1>4. IsEnabled(d) /\ d.labels.port = "absent" /\ d.labels.backend = "absent"
      /\ d.labels.network = "absent"
  BY <1>2 DEF IsEnabled
<1>5. "absent" \notin Ports
  BY ShapeAssumption
<1> HIDE DEF d
<1>6. /\ s.labels.port = {} /\ ~ s.labels.backend
      /\ s.mode = d.mode /\ s.published = d.published /\ s.exposed = d.exposed
  BY <1>3, <1>4, <1>5, ServiceFacts, Zenon
<1> QED
  BY <1>2, <1>3, <1>4, <1>6, Zenon DEF d

\* Discovery offers what the labels would lead to.
LEMMA SuggestionIsResolved ==
  ASSUME NEW c \in Reportable, c.running, TcpOnly(c), PublishesExposed(c),
         Cardinality(c.published) <= 1
  PROVE  suggest_backend(c) = resolve_backend(inspect_service(Plain(c)))
<1> DEFINE d == Plain(c)
           s == inspect_service(d)
           port == CHOOSE p \in ChosenPort(s) : TRUE
           pubs == select_published_port(s, port)
           pub == CHOOSE p \in pubs : TRUE
           ips == select_container_ip(s)
           ip == CHOOSE n \in ips : TRUE
           offered == CHOOSE p \in ExposedPorts(c) : TRUE
           binding == CHOOSE p \in c.published : TRUE
           network == CHOOSE n \in c.networks : TRUE
<1> SUFFICES suggest_backend(c) = resolve_backend(s)
  OBVIOUS
<1> HIDE DEF d, s, port, pubs, pub, ips, ip, offered, binding, network
<1>1. /\ d \in Reportable /\ IsEnabled(d)
      /\ d.labels.network = "absent" /\ d.networks = c.networks
      /\ s.labels.port = {} /\ ~ s.labels.backend
      /\ s.mode = c.mode /\ s.published = c.published /\ s.exposed = c.exposed
  BY PlainFacts DEF d, s
<1>2. resolve_backend(s) =
        IF s.labels.backend THEN Explicit
        ELSE IF ChosenPort(s) = {} THEN Rejected
        ELSE IF Cardinality(pubs) > 1 THEN Rejected
        ELSE IF pubs # {} THEN Backend(LocalHost(pub), pub.hostPort)
        ELSE IF s.mode = "host" THEN Backend("local", port)
        ELSE IF ips = {} THEN Rejected
        ELSE Backend(ip, port)
  BY DEF resolve_backend, port, pubs, pub, ips, ip
<1>3. suggest_backend(c) =
        IF Cardinality(c.published) = 1 THEN Backend(LocalHost(binding), binding.hostPort)
        ELSE IF Cardinality(ExposedPorts(c)) # 1 THEN Rejected
        ELSE IF c.mode = "host" THEN Backend("local", offered)
        ELSE IF Cardinality(c.networks) # 1 THEN Rejected
        ELSE Backend(network, offered)
  BY DEF suggest_backend, offered, binding, network
<1>4. ChosenPort(s) = IF single_exposed_port(s) # {} THEN single_exposed_port(s)
                      ELSE single_published_container_port(s)
  BY <1>1 DEF ChosenPort
<1>5. single_exposed_port(s) =
        IF Cardinality(c.exposed) = 1 THEN ExposedPorts(c) ELSE {}
  BY <1>1 DEF single_exposed_port, ExposedPorts
<1>6. Cardinality({}) = 0 /\ \A x : Cardinality({x}) = 1
  BY FS_EmptySet, FS_Singleton
<1>7. Cardinality(ExposedPorts(c)) = 1 <=> Cardinality(c.exposed) = 1
  BY ExposedFacts, Zenon DEF ExposedPorts
<1>8. IsFiniteSet(c.published) /\ IsFiniteSet(c.exposed) /\ IsFiniteSet(c.networks)
  BY ShapeFacts
<1>9. c.published = {} \/ \E b : c.published = {b}
  BY <1>8, CountFacts
<1>10. ASSUME NEW b, c.published = {b}
       PROVE  suggest_backend(c) = resolve_backend(s)
  <2>1. ChosenPort(s) = {b.port}
    <3>1. CASE Cardinality(c.exposed) = 1
      <4>1. PICK e : c.exposed = {e}
        BY <1>8, <3>1, CountFacts, Zenon
      <4>2. e = <<b.port, b.protocol>>
        BY <1>10, <4>1 DEF PublishesExposed
      <4>3. ExposedPorts(c) = {b.port}
        BY <4>1, <4>2 DEF ExposedPorts
      <4> QED
        BY <1>4, <1>5, <3>1, <4>3
    <3>2. CASE Cardinality(c.exposed) # 1
      <4>1. {p.port : p \in s.published} = {b.port}
        BY <1>1, <1>10
      <4>2. single_published_container_port(s) = {b.port}
        BY <1>6, <4>1, Zenon DEF single_published_container_port
      <4> QED
        BY <1>4, <1>5, <3>2, <4>2
    <3> QED
      BY <3>1, <3>2
  <2>2. port = b.port
    BY <2>1 DEF port
  <2>3. pubs = {b}
    <3>1. {p \in s.published : p.port = port} = {b}
      BY <1>1, <1>10, <2>2
    <3>2. ~(Cardinality({b}) > 1)
      <4>1. Cardinality({b}) = 1
        BY <1>6, Zenon
      <4> QED
        BY <4>1
    <3> DEFINE matches == {p \in s.published : p.port = port}
               local == {p \in matches : p.ip \in {"any", "local"}}
    <3>3. pubs = IF Cardinality(matches) > 1 /\ Cardinality(local) = 1 THEN local
                 ELSE matches
      BY DEF select_published_port, pubs
    <3>4. matches = {b}
      BY <3>1
    <3> HIDE DEF matches, local
    <3> QED
      BY <3>2, <3>3, <3>4
  <2>4. pub = b /\ binding = b
    BY <1>10, <2>3 DEF pub, binding
  <2>5. Cardinality(pubs) = 1 /\ Cardinality(c.published) = 1
    BY <1>6, <1>10, <2>3, Zenon
  <2>6. suggest_backend(c) = Backend(LocalHost(b), b.hostPort)
    BY <1>3, <2>4, <2>5
  <2>7. ~(Cardinality(pubs) > 1) /\ pubs # {} /\ ChosenPort(s) # {}
    BY <2>1, <2>3, <2>5
  <2>8. ~ s.labels.backend
    BY <1>1
  <2>9. resolve_backend(s) = Backend(LocalHost(b), b.hostPort)
    BY <1>2, <2>4, <2>7, <2>8
  <2> QED
    BY <2>6, <2>9
<1>11. CASE c.published = {}
  <2>1. Cardinality(c.published) # 1 /\ pubs = {}
    BY <1>1, <1>6, <1>11 DEF select_published_port, pubs
  <2>2. single_published_container_port(s) = {}
    <3>1. {p.port : p \in s.published} = {}
      BY <1>1, <1>11
    <3> QED
      BY <3>1 DEF single_published_container_port
  <2>3. ChosenPort(s) = IF Cardinality(c.exposed) = 1 THEN ExposedPorts(c) ELSE {}
    BY <1>4, <1>5, <2>2
  <2>4. CASE Cardinality(c.exposed) # 1
    <3>1. ChosenPort(s) = {}
      BY <2>3, <2>4
    <3>2. ~ s.labels.backend
      BY <1>1
    <3>3. resolve_backend(s) = Rejected
      BY <1>2, <3>1, <3>2
    <3>4. suggest_backend(c) = Rejected
      BY <1>3, <1>7, <2>1, <2>4
    <3> QED
      BY <3>3, <3>4
  <2>5. CASE Cardinality(c.exposed) = 1
    <3>1. ChosenPort(s) = ExposedPorts(c) /\ ChosenPort(s) # {}
      BY <1>6, <1>7, <2>3, <2>5
    <3>2. port = offered
      BY <3>1 DEF port, offered
    <3>3. ips = IF Cardinality(c.networks) = 1 THEN c.networks ELSE {}
      BY <1>1, ContainerIpFacts DEF ips, s
    <3>4. Cardinality(c.networks) = 1 => ips # {} /\ ip = network
      <4>1. Cardinality(c.networks) = 1 => c.networks # {}
        BY <1>6
      <4> QED
        BY <3>3, <4>1 DEF ip, network
    <3>5. ~(Cardinality(pubs) > 1)
      BY <1>6, <2>1
    <3>6. ~ s.labels.backend /\ s.mode = c.mode
      BY <1>1
    <3>7. resolve_backend(s) =
            IF c.mode = "host" THEN Backend("local", port)
            ELSE IF ips = {} THEN Rejected
            ELSE Backend(ip, port)
      BY <1>2, <2>1, <3>1, <3>5, <3>6
    <3>8. suggest_backend(c) =
            IF c.mode = "host" THEN Backend("local", port)
            ELSE IF Cardinality(c.networks) # 1 THEN Rejected
            ELSE Backend(network, port)
      BY <1>3, <1>7, <2>1, <2>5, <3>2
    <3> QED
      BY <3>3, <3>4, <3>7, <3>8
  <2> QED
    BY <2>4, <2>5
<1> QED
  BY <1>9, <1>10, <1>11

\* The inductive invariant: each result is computed from what Docker reported.
Computed ==
  /\ container \in Reportable
  /\ candidate = Pending \/ candidate = inspect_candidate(container)
  /\ svc = NoService \/ svc = inspect_service(container)
  /\ \/ backend = Pending
     \/ /\ inspect_service(container) = NoService
        /\ backend = Rejected
     \/ /\ inspect_service(container) # NoService
        /\ backend = resolve_backend(inspect_service(container))

LEMMA ComputedInit == ResolveInit => Computed
BY DEF ResolveInit, Computed

LEMMA ComputedStep == Computed /\ [ResolveNext]_resolveVars => Computed'
<1> SUFFICES ASSUME Computed, [ResolveNext]_resolveVars PROVE Computed'
  OBVIOUS
<1>1. CASE suggest
  BY <1>1 DEF suggest, Computed
<1>2. CASE inspect
  BY <1>2 DEF inspect, Computed
<1>3. CASE resolve_service
  BY <1>3 DEF resolve_service, Computed
<1>4. CASE UNCHANGED resolveVars
  BY <1>4 DEF resolveVars, Computed
<1> QED
  BY <1>1, <1>2, <1>3, <1>4 DEF ResolveNext

\* Every container leads to a refusal or an address one can connect to, and one
\* without UDP ports to the backend that the priorities determine, whatever its
\* labels, bindings and networks (backend_resolve.rs, resolve_backend).
THEOREM PrioritiesDecide == ResolveSpec => []ResolutionInv
<1>1. Computed => ResolutionInv
  <2> SUFFICES ASSUME Computed PROVE ResolutionInv
    OBVIOUS
  <2>1. /\ container \in Reportable
        /\ IsEnabled(container) <=> inspect_service(container) # NoService
    BY ServiceFacts, Zenon DEF Computed
  <2>2. backend \in {Pending, Rejected, Explicit} \union Addresses
    BY <2>1, ResolveTyped DEF Computed
  <2>3. candidate \in {Pending, Rejected, Unreported} \union Addresses
    BY <2>1, SuggestTyped DEF Computed
  <2>4. ASSUME backend # Pending, TcpOnly(container)
        PROVE  backend = IF IsEnabled(container) THEN WantedBackend ELSE Rejected
    BY <2>1, <2>4, BackendIsWanted DEF Computed
  <2> QED
    BY <2>2, <2>3, <2>4
       DEF ResolutionInv, ResultsTyped, ResolvesByPriority, DecidedByPriority, IsEnabled
<1> QED
  BY <1>1, ComputedInit, ComputedStep, PTL DEF ResolveSpec

\* What discovery offers for a container with at most one binding and no UDP
\* port is the backend that resolve_backend finds for it (candidate.rs,
\* suggest_backend).
THEOREM OffersWhatResolves == ResolveSpec => []SuggestionAgrees
<1>1. Computed => SuggestionAgrees
  <2> SUFFICES ASSUME Computed, candidate \notin {Pending, Unreported},
                      PublishesExposed(container), TcpOnly(container),
                      Cardinality(container.published) <= 1
               PROVE  candidate = resolve_backend(inspect_service(Plain(container)))
    BY DEF SuggestionAgrees
  <2>1. container \in Reportable /\ candidate = inspect_candidate(container)
    BY DEF Computed
  <2>2. container.running /\ candidate = suggest_backend(container)
    BY <2>1 DEF inspect_candidate
  <2> QED
    BY <2>1, <2>2, SuggestionIsResolved
<1> QED
  BY <1>1, ComputedInit, ComputedStep, PTL DEF ResolveSpec

=============================================================================
