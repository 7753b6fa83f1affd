----------------------------- MODULE AgentProxy -----------------------------
(***************************************************************************)
(* The agent process as its clients see it: start-up and readiness, the    *)
(* proxy task, the requests it forwards, and shutdown.  Backends are       *)
(* external: one answers, refuses the connection, refuses the upgrade, or  *)
(* accepts and never answers.  A timeout may fire at any time and, once    *)
(* set, does so in the end.                                                *)
(***************************************************************************)
EXTENDS Naturals

CONSTANTS
  Hosts,
  Backends,
  Malformed,     \* backends whose authority makes no URI
  NoRoute,
  Slots,         \* slots for client connections
  Kinds,         \* of requests: "http", "websocket"
  MaxReplace,    \* bound on replacements of the routes
  MaxFaults      \* bound on failures of bind, accept and enrolment

ASSUME ConstantsAssumption ==
  /\ Kinds \subseteq {"http", "websocket"}
  /\ Malformed \subseteq Backends
  /\ NoRoute \notin Backends \union Hosts
  /\ {MaxReplace, MaxFaults} \subseteq Nat

VARIABLES
  main,          \* main: spawned, new, loop, exited
  proxyTask,     \* the proxy task: binding, accepting, ended
  flags,         \* AgentReady: the flags that are set
  signal,        \* SIGTERM and SIGINT: default, handled, received
  shuttingDown,  \* the flag shared with the proxy
  routes,        \* SharedRouteStore
  req,           \* client connections, each with the request it is at
  replaced, faults \* for the bounds

process == <<main, proxyTask, flags, signal, shuttingDown>>
vars == <<process, routes, req, replaced, faults>>

Flags == {"tailscale", "docker", "proxy", "enrolled", "initial_reconcile"}

Status == {"none", "backend", "switching", "400", "404", "502", "503",
           "504"}

\* A request: the backend chosen for it, and whether the proxy has turned to
\* that backend.  late and seen are history: it came after the flag was set,
\* and the routes its host has had until one was chosen.
Request ==
  [pc : {"idle", "handle", "route", "request", "resolve", "connect", "upgrade",
         "tunnel", "done"},
   kind : {"http", "websocket"}, host : Hosts \union {NoRoute},
   backend : Backends \union {NoRoute}, reached : BOOLEAN, status : Status,
   late : BOOLEAN, seen : SUBSET (Backends \union {NoRoute})]

IdleReq == [pc |-> "idle", kind |-> "http", host |-> NoRoute,
            backend |-> NoRoute, reached |-> FALSE, status |-> "none",
            late |-> FALSE, seen |-> {}]

TypeOK ==
  /\ main \in {"spawned", "new", "loop", "exited"}
  /\ proxyTask \in {"binding", "accepting", "ended"}
  /\ flags \subseteq Flags
  /\ signal \in {"default", "handled", "received"}
  /\ shuttingDown \in BOOLEAN
  /\ routes \in [Hosts -> Backends \union {NoRoute}]
  /\ req \in [Slots -> Request]
  /\ replaced \in 0..MaxReplace
  /\ faults \in 0..MaxFaults

\* The Tailscale address is known before anything is started.
Init ==
  /\ main = "spawned"
  /\ proxyTask = "binding"
  /\ flags = {"tailscale"}
  /\ signal = "default"
  /\ shuttingDown = FALSE
  /\ routes = [h \in Hosts |-> NoRoute]
  /\ req = [s \in Slots |-> IdleReq]
  /\ replaced = 0
  /\ faults = 0

Fault == faults < MaxFaults /\ faults' = faults + 1

Alive == main # "exited"

\* The process ends, and with it every task.
Exit ==
  /\ main' = "exited"
  /\ proxyTask' = "ended"
  /\ req' = [s \in Slots |-> IdleReq]

-----------------------------------------------------------------------------
(* main and the proxy task.                                                *)

proxy_bind ==
  /\ Alive
  /\ proxyTask = "binding"
  /\ \/ proxyTask' = "accepting" /\ UNCHANGED faults
     \/ proxyTask' = "ended" /\ Fault
  /\ UNCHANGED <<main, flags, signal, shuttingDown, routes, req, replaced>>

\* An error of accept ends the proxy; it is logged.
proxy_accept_error ==
  /\ Alive
  /\ proxyTask = "accepting"
  /\ Fault
  /\ proxyTask' = "ended"
  /\ UNCHANGED <<main, flags, signal, shuttingDown, routes, req, replaced>>

\* main looks at the proxy task once, 50 ms after it was spawned.
check_proxy ==
  /\ main = "spawned"
  /\ \/ /\ proxyTask = "ended"
        /\ Exit
        /\ UNCHANGED flags
     \/ /\ proxyTask # "ended"
        /\ main' = "new"
        /\ flags' = flags \union {"proxy"}
        /\ UNCHANGED <<proxyTask, req>>
  /\ UNCHANGED <<signal, shuttingDown, routes, replaced, faults>>

\* AgentRun::new (see Enrollment): Docker, then the credential.
agent_new ==
  /\ main = "new"
  /\ \/ /\ main' = "loop"
        /\ flags' = flags \union {"docker", "enrolled"}
        /\ UNCHANGED <<proxyTask, req, faults>>
     \/ /\ Fault
        /\ Exit
        /\ UNCHANGED flags
  /\ UNCHANGED <<signal, shuttingDown, routes, replaced>>

\* A reconcile of loop_forever (see AgentReconcile) replaces the routes, or
\* fails before it does; after the first one the flag is set in any case.
reconcile(m) ==
  /\ main = "loop"
  /\ replaced < MaxReplace
  /\ replaced' = replaced + 1
  /\ routes' = m
  /\ flags' = flags \union {"initial_reconcile"}
  /\ req' = [s \in Slots |->
               IF req[s].pc \in {"handle", "route"}
               THEN [req[s] EXCEPT !.seen = @ \union {m[req[s].host]}]
               ELSE req[s]]
  /\ UNCHANGED <<main, proxyTask, signal, shuttingDown, faults>>

\* The task that main spawned after check_proxy installs the handlers.
install_handlers ==
  /\ main \in {"new", "loop"}
  /\ signal = "default"
  /\ signal' = "handled"
  /\ UNCHANGED <<main, proxyTask, flags, shuttingDown, routes, req, replaced,
                 faults>>

\* The service manager asks the agent to stop.  Without a handler the signal
\* ends the process.
Signal ==
  /\ Alive
  /\ signal # "received"
  /\ signal' = "received"
  /\ IF signal = "default" THEN Exit ELSE UNCHANGED <<main, proxyTask, req>>
  /\ UNCHANGED <<flags, shuttingDown, routes, replaced, faults>>

\* The task tells the proxy, and ends; main is not told.
shutdown_signal ==
  /\ Alive
  /\ signal = "received"
  /\ ~shuttingDown
  /\ shuttingDown' = TRUE
  /\ UNCHANGED <<main, proxyTask, flags, signal, routes, req, replaced, faults>>

-----------------------------------------------------------------------------
(* Requests.  A connection outlives the task that accepted it and carries  *)
(* one request after the other.                                            *)

Answer(s, status) == [req EXCEPT ![s].pc = "done", ![s].status = status]

Step(s, pc) == [req EXCEPT ![s].pc = pc]

Unchanged == UNCHANGED <<process, routes, replaced, faults>>

\* A client sends a request, on a new connection or on the one it has.
arrive(s, h, k) ==
  /\ Alive
  /\ \/ req[s].pc = "idle" /\ proxyTask = "accepting"
     \/ req[s].pc = "done"
  /\ req' = [req EXCEPT ![s] =
               [IdleReq EXCEPT !.pc = "handle", !.host = h, !.kind = k,
                               !.late = shuttingDown, !.seen = {routes[h]}]]
  /\ Unchanged

\* serve_connection drops the handler when the client is gone.  A tunnel is a
\* task of its own: it ends when both sides have closed.
client_gone(s) ==
  /\ req[s].pc # "idle"
  /\ req' = [req EXCEPT ![s] = IdleReq]
  /\ Unchanged

\* Mutant of handle: only upgrades look at the flag.
HandleUpgrades(s) ==
  /\ req[s].pc = "handle"
  /\ \/ /\ shuttingDown /\ req[s].kind = "websocket"
        /\ req' = Answer(s, "503")
     \/ /\ ~shuttingDown \/ req[s].kind = "http"
        /\ req' = Step(s, "route")
  /\ Unchanged

\* handle looks at the flag once; the runtime has several threads, and the
\* flag may be set before the rest is done.
handle(s) ==
  /\ req[s].pc = "handle"
  /\ \/ shuttingDown /\ req' = Answer(s, "503")
     \/ ~shuttingDown /\ req' = Step(s, "route")
  /\ Unchanged

\* Mutant of resolve: a host without a route is given a default backend.
ResolveDefault(s) ==
  IF routes[req[s].host] # NoRoute THEN routes[req[s].host]
  ELSE CHOOSE b \in Backends : TRUE

resolve(s) == routes[req[s].host]

\* The rest of handle: the route, and what is done before the first await.  A
\* malformed authority is found out before the backend is turned to.
route(s) ==
  /\ req[s].pc = "route"
  /\ LET b == resolve(s)
         Chosen == [req[s] EXCEPT !.backend = b]
     IN  \/ b = NoRoute /\ req' = Answer(s, "404")
         \/ /\ b # NoRoute
            /\ req[s].kind = "websocket"
            /\ req' = [req EXCEPT ![s] = [Chosen EXCEPT !.pc = "resolve"]]
         \/ /\ b \in Malformed
            /\ req[s].kind = "http"
            /\ req' = [req EXCEPT ![s] = [Chosen EXCEPT !.pc = "done",
                                                        !.status = "400"]]
         \/ /\ b \in Backends \ Malformed
            /\ req[s].kind = "http"
            /\ req' = [req EXCEPT ![s] = [Chosen EXCEPT !.pc = "request",
                                                        !.reached = TRUE]]
  /\ Unchanged

\* proxy_http: the backend answers, or the client library reports an error,
\* which is a timeout (of the connection) if its text says so.
proxy_http(s) ==
  /\ req[s].pc = "request"
  /\ \E status \in {"backend", "502", "504"} : req' = Answer(s, status)
  /\ Unchanged

ws_resolve(s) ==
  /\ req[s].pc = "resolve"
  /\ \/ req' = [req EXCEPT ![s].pc = "connect", ![s].reached = TRUE]
     \/ req' = Answer(s, "502")
  /\ Unchanged

\* With a connection the request is built anew: one whose target has no path
\* is refused only then.
ws_connect(s) ==
  /\ req[s].pc = "connect"
  /\ \/ req' = Step(s, "upgrade")
     \/ req' = Answer(s, "400")
     \/ req' = Answer(s, "502")
  /\ Unchanged

\* The handshake and the answer to the upgrade; a refusal is a 502.
ws_upgrade(s) ==
  /\ req[s].pc = "upgrade"
  /\ \/ req' = [req EXCEPT ![s].pc = "tunnel", ![s].status = "switching"]
     \/ req' = Answer(s, "502")
  /\ Unchanged

\* Mutant of timeout_fires: only connecting is timed.
TimeoutConnects(s) ==
  /\ req[s].pc = "connect"
  /\ req' = Answer(s, "504")
  /\ Unchanged

\* response_timeout of a plain request, connect_timeout of an upgrade.
timeout_fires(s) ==
  /\ req[s].pc \in {"request", "connect"}
  /\ req' = Answer(s, "504")
  /\ Unchanged

-----------------------------------------------------------------------------

Next ==
  \/ proxy_bind
  \/ proxy_accept_error
  \/ check_proxy
  \/ agent_new
  \/ \E m \in [Hosts -> Backends \union {NoRoute}] : reconcile(m)
  \/ install_handlers
  \/ Signal
  \/ shutdown_signal
  \/ \E s \in Slots :
       \/ \E h \in Hosts, k \in Kinds : arrive(s, h, k)
       \/ client_gone(s)
       \/ handle(s)
       \/ route(s)
       \/ proxy_http(s)
       \/ ws_resolve(s)
       \/ ws_connect(s)
       \/ ws_upgrade(s)
       \/ timeout_fires(s)

Spec == Init /\ [][Next]_vars

\* Every task is scheduled and every timer fires; nothing is asked of clients,
\* of backends or of the service manager.
FairSpec ==
  /\ Spec
  /\ WF_vars(proxy_bind)
  /\ WF_vars(check_proxy)
  /\ WF_vars(agent_new)
  /\ WF_vars(install_handlers)
  /\ WF_vars(shutdown_signal)
  /\ \A s \in Slots :
       /\ WF_vars(handle(s))
       /\ WF_vars(route(s))
       /\ WF_vars(ws_resolve(s))
       /\ WF_vars(timeout_fires(s))

-----------------------------------------------------------------------------
(* Properties.                                                             *)

\* The stages of start-up set the flags of the stages before them, the signal
\* handlers come after the look at the proxy task, and the flag of the proxy
\* is set by a handler only (main.rs).
StartSound ==
  /\ main = "spawned" => flags = {"tailscale"} /\ signal = "default"
  /\ main = "new" => flags = {"tailscale", "proxy"}
  /\ main = "loop" => Flags \ {"initial_reconcile"} \subseteq flags
  /\ shuttingDown => signal = "received"
  /\ main = "exited" => proxyTask = "ended"

\* What the proxy relies on from one await of a request to the next (proxy.rs,
\* handle, proxy_http and proxy_websocket).
StageSound(s) ==
  LET r == req[s] IN
  /\ r.pc = "idle" => r = IdleReq
  /\ r.pc # "idle" => r.host \in Hosts
  /\ r.pc \in {"handle", "route"} =>
       r.backend = NoRoute /\ ~r.reached /\ routes[r.host] \in r.seen
  /\ r.pc = "request" =>
       r.kind = "http" /\ r.reached /\ r.backend \in Backends \ Malformed
  /\ r.pc \in {"resolve", "connect", "upgrade", "tunnel"} =>
       /\ r.kind = "websocket" /\ r.backend \in Backends
       /\ r.reached <=> r.pc # "resolve"
  /\ r.pc \notin {"tunnel", "done"} => r.status = "none"
  /\ r.pc = "tunnel" => r.status = "switching"
  /\ r.pc = "done" => r.status \notin {"none", "switching"}

\* Where a request has been, and what its client is told.  It goes nowhere but
\* to a backend that its host had while the request was at the proxy, however
\* the routes are replaced meanwhile, and 404 is told only if the host was
\* without a route at some time.  404 and 503 mean that no backend was turned
\* to, and so does 400 but for an upgrade, which is refused only once it is
\* connected; an answer and 504 mean that one was.  A request that came after
\* the flag was set, on a new connection or on one kept alive, is told 503.
ForwardSound(s) ==
  LET r == req[s] IN
  /\ r.reached => r.backend \in Backends
  /\ r.backend # NoRoute => r.backend \in r.seen
  /\ r.status = "404" => NoRoute \in r.seen
  /\ r.status \in {"404", "503"} => r.backend = NoRoute
  /\ r.status = "400" => (r.reached <=> r.kind = "websocket")
  /\ r.status \in {"backend", "504"} => r.reached
  /\ r.late => /\ shuttingDown
               /\ ~r.reached
               /\ r.pc \in {"handle", "done"}
               /\ r.status \in {"none", "503"}

\* Start-up and requests in every state: whatever happens to the proxy task,
\* the routes, the flag and the process meanwhile, a request goes where its
\* host is routed and its client is told the truth (main.rs, proxy.rs).
ProxyInv ==
  /\ TypeOK
  /\ StartSound
  /\ \A s \in Slots : StageSound(s) /\ ForwardSound(s)

\* Once the flag is set the plain requests at backends come to an end and no
\* others follow, whatever clients send on connections they keep: those that
\* had passed the look at the flag are answered, time out or are given up
\* ("Callers stop the process after a drain period", proxy.rs:53; handle and
\* proxy_http).
DrainEnds ==
  shuttingDown
    ~> [](\A s \in Slots : req[s].kind = "http"
             => req[s].pc \notin {"route", "request"})

\* A plain request is answered or its client gives up, whatever the backend
\* does and whenever the routes are replaced or the agent is told to stop
\* (proxy.rs, handle and proxy_http).
HttpAnswered ==
  \A s \in Slots :
    req[s].pc \in {"handle", "route", "request"} /\ req[s].kind = "http"
      ~> req[s].pc \in {"done", "idle"}

\* A websocket upgrade is answered as well: a backend that does not answer is
\* a timeout (proxy.rs, proxy_websocket).
UpgradeAnswered ==
  \A s \in Slots :
    req[s].pc \in {"handle", "route", "resolve", "connect", "upgrade"}
      /\ req[s].kind = "websocket"
      ~> req[s].pc \in {"done", "tunnel", "idle"}

\* is_ready of a running agent implies that the proxy accepts connections
\* (main.rs sets proxy_ok once).
ReadyMeansAccepting ==
  Alive /\ flags = Flags => proxyTask = "accepting"

\* An agent that is told to stop stops (main.rs, shutdown_signal).
SignalStopsAgent == signal = "received" ~> ~Alive

=============================================================================
