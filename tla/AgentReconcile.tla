--------------------------- MODULE AgentReconcile ---------------------------
(***************************************************************************)
(* The agent's reconcile loop: it lists the labelled containers, asks the  *)
(* controller for the services an administrator enabled, adds the static   *)
(* routes of its configuration, replaces the routes of the local proxy and *)
(* publishes the same set to the controller.  One task does all of it; the *)
(* containers, the enabled services and the network change between any two *)
(* of its steps.  Leases and other agents are in module Controller.        *)
(***************************************************************************)
EXTENDS Naturals, Sequences, FiniteSetsExt, SequencesExt

CONSTANTS
  Hosts,
  Containers,    \* in the order of Docker's listing
  LabelHosts,    \* the hostnames on a container's labels, none if its
                 \* backend does not resolve
  Services,      \* enabled services, in the order the controller lists them
  StaticHosts,   \* the hostnames of static_routes
  Static,        \* their backend
  NoRoute,
  MaxChanges,    \* bound on changes of the containers and enabled services
  MaxFaults      \* bound on failures of Docker, the network, the controller

ContainerSet == ToSet(Containers)
ServiceSet == ToSet(Services)
Backends == ContainerSet \union ServiceSet \union {Static}
RouteMaps == [Hosts -> Backends \union {NoRoute}]

\* The locals of reconcile_once: of api_routes the entries of each hostname,
\* in their order.
Build == [local : RouteMaps, api : [Hosts -> Seq(Backends)]]

ASSUME ConstantsAssumption ==
  /\ Containers \in Seq(ContainerSet)
  /\ Services \in Seq(ServiceSet)
  /\ LabelHosts \in [ContainerSet -> SUBSET Hosts]
  /\ StaticHosts \subseteq Hosts
  /\ NoRoute \notin Backends
  /\ ContainerSet \intersect ServiceSet = {}
  /\ Static \notin ContainerSet \union ServiceSet
  /\ {MaxChanges, MaxFaults} \subseteq Nat

VARIABLES
  running,       \* Docker: the containers that run
  intents,       \* controller, enabled_services: hostnames of each service
  discovery,     \* controller, discovery_snapshots: containers reported
  published,     \* controller, routes of this agent
  reachable,     \* the controller answers
  proxy,         \* SharedRouteStore
  pc,
  cands,         \* local of reconcile_once: list_candidates
  build,         \* locals of reconcile_once: local and api_routes
  stream,        \* the Docker event stream: new until first polled
  event,         \* an event waits in the stream
  debounce,      \* the debounce timer is set
  initialReconcile, \* AgentReady.initial_reconcile
  changes, faults   \* for the bounds

world == <<running, intents, reachable>>
loop == <<stream, event, debounce, initialReconcile>>
vars == <<world, discovery, published, proxy, pc, cands, build, loop,
          changes, faults>>

NoRoutes == [h \in Hosts |-> NoRoute]
Empty == [local |-> NoRoutes, api |-> [h \in Hosts |-> <<>>]]

Init ==
  /\ running \in SUBSET ContainerSet
  /\ intents = [s \in ServiceSet |-> {}]
  /\ discovery = {}
  /\ published = NoRoutes
  /\ reachable = TRUE
  /\ proxy = NoRoutes
  /\ pc = "discover"
  /\ cands = {}
  /\ build = Empty
  /\ stream = "new"
  /\ event = FALSE
  /\ debounce = FALSE
  /\ initialReconcile = FALSE
  /\ changes = [docker |-> 0, intents |-> 0]
  /\ faults = [docker |-> 0, controller |-> 0]

-----------------------------------------------------------------------------
(* The merge of the three sources of routes.                               *)

Insert(local, hosts, b) ==
  [h \in Hosts |-> IF h \in hosts THEN b ELSE local[h]]

\* Mutant of AddLabels: a hostname that is taken keeps its place in local.
FirstLabelStays(b, c) ==
  [local |-> Insert(b.local, {h \in LabelHosts[c] : b.local[h] = NoRoute}, c),
   api |-> [h \in Hosts |-> IF h \in LabelHosts[c] THEN Append(b.api[h], c)
                                                 ELSE b.api[h]]]

\* A labelled container: two that share a hostname both get an entry in
\* api_routes, and the later one the place in local.
AddLabels(b, c) ==
  [local |-> Insert(b.local, LabelHosts[c], c),
   api |-> [h \in Hosts |-> IF h \in LabelHosts[c] THEN Append(b.api[h], c)
                                                 ELSE b.api[h]]]

\* An enabled service or a static route takes its hostnames over: if one is in
\* local, its entries are removed from api_routes first.
Override(b, hosts, backend) ==
  [local |-> Insert(b.local, hosts, backend),
   api |-> [h \in Hosts |->
              IF h \notin hosts THEN b.api[h]
              ELSE IF b.local[h] # NoRoute THEN <<backend>>
              ELSE Append(b.api[h], backend)]]

\* The containers that were found, in their order.
FromServices(found) ==
  LET merged[n \in 0..Len(Containers)] ==
        IF n = 0 THEN Empty
        ELSE IF Containers[n] \in found THEN AddLabels(merged[n-1], Containers[n])
        ELSE merged[n-1]
  IN  merged[Len(Containers)]

\* The enabled services, in theirs.
AddDesired(b) ==
  LET merged[n \in 0..Len(Services)] ==
        IF n = 0 THEN b
        ELSE Override(merged[n-1], intents[Services[n]], Services[n])
  IN  merged[Len(Services)]

\* Mutant of apply_static_routes: a hostname that is taken is left alone.
StaticYields(b) ==
  Override(b, {h \in StaticHosts : b.local[h] = NoRoute}, Static)

apply_static_routes(b) == Override(b, StaticHosts, Static)

\* What put_routes of the controller stores: a later entry for the same
\* hostname replaces the earlier, and nothing else is kept.
Stored(api) ==
  [h \in Hosts |-> IF api[h] = <<>> THEN NoRoute ELSE Last(api[h])]

-----------------------------------------------------------------------------
(* Failures.                                                               *)

Fault(what) ==
  /\ faults.docker + faults.controller < MaxFaults
  /\ faults' = [faults EXCEPT ![what] = @ + 1]

\* A list_services that answers: an inspect that fails skips its container.
Listed(found) ==
  \/ found = running /\ UNCHANGED faults
  \/ found # running /\ Fault("docker")

-----------------------------------------------------------------------------
(* reconcile_once.                                                         *)

\* reconcile_with_backoff returns to where loop_forever called it.
Return ==
  /\ pc' = IF stream = "closed" THEN "sleep" ELSE "select"
  /\ initialReconcile' = TRUE
  /\ cands' = {}
  /\ build' = Empty
  /\ UNCHANGED <<stream, event, debounce>>

\* The candidates for the discovery report; a failure is ignored.
list_candidates ==
  /\ pc = "discover"
  /\ \/ \E found \in SUBSET running :
          Listed(found) /\ cands' = found /\ pc' = "report"
     \/ Fault("docker") /\ pc' = "list" /\ UNCHANGED cands
  /\ UNCHANGED <<world, discovery, published, proxy, build, loop, changes>>

\* The report of them; a failure is ignored.
put_discovery ==
  /\ pc = "report"
  /\ discovery' = IF reachable THEN cands ELSE discovery
  /\ cands' = {}
  /\ pc' = "list"
  /\ UNCHANGED <<world, published, proxy, build, loop, changes, faults>>

list_services ==
  /\ pc = "list"
  /\ \/ \E found \in SUBSET running :
          /\ Listed(found)
          /\ build' = FromServices(found)
          /\ pc' = "desired"
     \/ Fault("docker") /\ pc' = "backoff" /\ UNCHANGED build
  /\ UNCHANGED <<world, discovery, published, proxy, cands, loop, changes>>

\* Mutant of desired_services: a failure clears the routes built so far.
DesiredFailureClears ==
  /\ pc = "desired"
  /\ build' = IF reachable THEN AddDesired(build) ELSE Empty
  /\ pc' = "replace"
  /\ UNCHANGED <<world, discovery, published, proxy, cands, loop, changes,
                 faults>>

\* When the controller does not answer, the routes are built without the
\* enabled services.
desired_services ==
  /\ pc = "desired"
  /\ build' = IF reachable THEN AddDesired(build) ELSE build
  /\ pc' = "replace"
  /\ UNCHANGED <<world, discovery, published, proxy, cands, loop, changes,
                 faults>>

\* Mutant of routes_replace: the proxy is replaced before the static routes
\* are merged in.
ReplaceBeforeStatic ==
  /\ pc = "replace"
  /\ build' = apply_static_routes(build)
  /\ proxy' = build.local
  /\ pc' = "put"
  /\ UNCHANGED <<world, discovery, published, cands, loop, changes, faults>>

\* The local proxy first ...
routes_replace ==
  /\ pc = "replace"
  /\ build' = apply_static_routes(build)
  /\ proxy' = build'.local
  /\ pc' = "put"
  /\ UNCHANGED <<world, discovery, published, cands, loop, changes, faults>>

\* ... then the controller: done, refused, or done and the answer lost.  The
\* heartbeat that follows a PUT renews the lease and changes nothing here.
put_routes ==
  /\ pc = "put"
  /\ \/ /\ reachable
        /\ published' = Stored(build.api)
        /\ Return
        /\ UNCHANGED faults
     \/ /\ reachable
        /\ Fault("controller")
        /\ published' \in {published, Stored(build.api)}
        /\ pc' = "backoff"
        /\ UNCHANGED <<build, cands, loop>>
     \/ /\ ~reachable
        /\ pc' = "backoff"
        /\ UNCHANGED <<published, build, cands, loop, faults>>
  /\ UNCHANGED <<world, discovery, proxy, changes>>

\* refresh_local_routes after the backoff: a list of its own, and no enabled
\* services.  When that fails too the proxy is left as it is.
refresh_local_list ==
  /\ pc = "backoff"
  /\ \/ /\ \E found \in SUBSET running :
             /\ Listed(found)
             /\ build' = apply_static_routes(FromServices(found))
        /\ pc' = "refresh"
        /\ UNCHANGED <<cands, loop>>
     \/ Fault("docker") /\ Return
  /\ UNCHANGED <<world, discovery, published, proxy, changes>>

refresh_local_replace ==
  /\ pc = "refresh"
  /\ proxy' = build.local
  /\ Return
  /\ UNCHANGED <<world, discovery, published, changes, faults>>

-----------------------------------------------------------------------------
(* loop_forever.                                                           *)

\* The event stream connects when it is first polled.
watch_events ==
  /\ pc = "select"
  /\ stream = "new"
  /\ stream' = "open"
  /\ UNCHANGED <<world, discovery, published, proxy, pc, cands, build, event,
                 debounce, initialReconcile, changes, faults>>

\* A relevant event starts the debounce timer again.
event_next ==
  /\ pc = "select"
  /\ event
  /\ event' = FALSE
  /\ debounce' = TRUE
  /\ UNCHANGED <<world, discovery, published, proxy, pc, cands, build, stream,
                 initialReconcile, changes, faults>>

\* The stream ends: what it held is lost.  A full rescan, then a new stream.
stream_ends ==
  /\ pc = "select"
  /\ stream = "open"
  /\ Fault("docker")
  /\ stream' = "closed"
  /\ event' = FALSE
  /\ debounce' = FALSE
  /\ pc' = "discover"
  /\ UNCHANGED <<world, discovery, published, proxy, cands, build,
                 initialReconcile, changes>>

reconnect ==
  /\ pc = "sleep"
  /\ stream' = "new"
  /\ pc' = "select"
  /\ UNCHANGED <<world, discovery, published, proxy, cands, build, event,
                 debounce, initialReconcile, changes, faults>>

debounce_elapsed ==
  /\ pc = "select"
  /\ debounce
  /\ debounce' = FALSE
  /\ pc' = "discover"
  /\ UNCHANGED <<world, discovery, published, proxy, cands, build, stream,
                 event, initialReconcile, changes, faults>>

periodic_tick ==
  /\ pc = "select"
  /\ pc' = "discover"
  /\ UNCHANGED <<world, discovery, published, proxy, cands, build, loop,
                 changes, faults>>

-----------------------------------------------------------------------------
(* The world.                                                              *)

Change(what) ==
  /\ changes.docker + changes.intents < MaxChanges
  /\ changes' = [changes EXCEPT ![what] = @ + 1]

\* A container starts or stops; only a connected stream hears of it.
DockerChanges(c) ==
  /\ Change("docker")
  /\ running' = IF c \in running THEN running \ {c} ELSE running \union {c}
  /\ event' = (event \/ stream = "open")
  /\ UNCHANGED <<intents, reachable, discovery, published, proxy, pc, cands,
                 build, stream, debounce, initialReconcile, faults>>

\* An administrator enables, changes or disables a service.
IntentChanges(s, hosts) ==
  /\ Change("intents")
  /\ hosts # intents[s]
  /\ intents' = [intents EXCEPT ![s] = hosts]
  /\ UNCHANGED <<running, reachable, discovery, published, proxy, pc, cands,
                 build, loop, faults>>

ControllerLost ==
  /\ reachable
  /\ Fault("controller")
  /\ reachable' = FALSE
  /\ UNCHANGED <<running, intents, discovery, published, proxy, pc, cands,
                 build, loop, changes>>

ControllerBack ==
  /\ ~reachable
  /\ reachable' = TRUE
  /\ UNCHANGED <<running, intents, discovery, published, proxy, pc, cands,
                 build, loop, changes, faults>>

\* The controller drops a route: an administrator deleted it, or the lease
\* ran out and another agent or the cleanup task took it.
RouteDropped(h) ==
  /\ published[h] # NoRoute
  /\ Fault("controller")
  /\ published' = [published EXCEPT ![h] = NoRoute]
  /\ UNCHANGED <<world, discovery, proxy, pc, cands, build, loop, changes>>

-----------------------------------------------------------------------------

AgentStep ==
  \/ list_candidates
  \/ put_discovery
  \/ list_services
  \/ desired_services
  \/ routes_replace
  \/ put_routes
  \/ refresh_local_list
  \/ refresh_local_replace
  \/ watch_events
  \/ event_next
  \/ stream_ends
  \/ reconnect
  \/ debounce_elapsed
  \/ periodic_tick

WorldStep ==
  \/ \E c \in ContainerSet : DockerChanges(c)
  \/ \E s \in ServiceSet, hosts \in SUBSET Hosts : IntentChanges(s, hosts)
  \/ ControllerLost
  \/ ControllerBack
  \/ \E h \in Hosts : RouteDropped(h)

Next == AgentStep \/ WorldStep

Spec == Init /\ [][Next]_vars

\* The agent's task is scheduled, and its periodic timer goes on.  Nothing is
\* assumed of Docker, the network or the controller except that their
\* failures are finite in number; an outage may last for ever.
FairSpec == Spec /\ WF_vars(AgentStep)

-----------------------------------------------------------------------------
(* Properties.                                                             *)

\* The hostnames' right backends: static routes before enabled services
\* before labels, and the later of two equals.
LabelBackend(h) ==
  LET S == {n \in DOMAIN Containers : /\ Containers[n] \in running
                                     /\ h \in LabelHosts[Containers[n]]}
  IN  IF S = {} THEN NoRoute ELSE Containers[Max(S)]

IntentBackend(h) ==
  LET S == {n \in DOMAIN Services : h \in intents[Services[n]]}
  IN  IF S = {} THEN LabelBackend(h) ELSE Services[Max(S)]

LocalWanted ==
  [h \in Hosts |-> IF h \in StaticHosts THEN Static ELSE LabelBackend(h)]

Wanted ==
  [h \in Hosts |-> IF h \in StaticHosts THEN Static ELSE IntentBackend(h)]

TypeOK ==
  /\ running \subseteq ContainerSet
  /\ intents \in [ServiceSet -> SUBSET Hosts]
  /\ discovery \subseteq ContainerSet
  /\ published \in RouteMaps
  /\ reachable \in BOOLEAN
  /\ proxy \in RouteMaps
  /\ pc \in {"discover", "report", "list", "desired", "replace", "put",
             "backoff", "refresh", "select", "sleep"}
  /\ cands \subseteq ContainerSet
  /\ build \in Build
  /\ stream \in {"new", "open", "closed"}
  /\ {event, debounce, initialReconcile} \subseteq BOOLEAN
  /\ changes \in [docker : 0..MaxChanges, intents : 0..MaxChanges]
  /\ faults \in [docker : 0..MaxFaults, controller : 0..MaxFaults]

\* The two results of the merge agree whatever overlaps: a hostname has entries
\* in api_routes just if it is in local, and the last one leads there too.
\* What is about to be published is already served.
MergeSound ==
  /\ Stored(build.api) = build.local
  /\ pc = "put" => proxy = build.local

\* A route to a container is for a hostname of its own labels, one to the
\* static backend for a hostname of the configuration; and every set the proxy
\* is given has all of those.
Justified(routes) ==
  \A h \in Hosts : /\ routes[h] \in ContainerSet => h \in LabelHosts[routes[h]]
                   /\ routes[h] = Static => h \in StaticHosts

RoutesJustified ==
  /\ Justified(build.local)
  /\ Justified(proxy)
  /\ \A h \in StaticHosts :
       /\ pc \in {"put", "refresh"} => build.local[h] = Static
       /\ proxy # NoRoutes => proxy[h] = Static

\* While Docker neither fails nor changes, the labels lead each hostname that
\* no enabled service or static route has taken to the last of the containers
\* that ask for it.
LabelsServed ==
  changes.docker = 0 /\ faults.docker = 0 =>
    \A h \in Hosts :
      /\ pc \in {"desired", "replace", "put", "refresh"} =>
           build.local[h] \in {LabelBackend(h), Static} \union ServiceSet
      /\ proxy[h] \in ContainerSet => proxy[h] = LabelBackend(h)

\* What is served and published is the merge of the three sources by their
\* priorities, in every state (reconcile.rs, reconcile_once and
\* refresh_local_routes; static_routes.rs).
ReconcileInv == TypeOK /\ MergeSound /\ RoutesJustified /\ LabelsServed

\* What the agent publishes is what its proxy serves at that moment, backend
\* by backend: DNS never leads a client to an agent whose proxy does not yet
\* know the hostname ("Update local proxy first", reconcile.rs:373), however
\* labels, enabled services and static routes overlap.
PublishesWhatItServes ==
  [][pc = "put" /\ published' # published /\ pc' # "put"
       => published' = proxy']_vars

\* While Docker neither fails nor changes, no failure of the controller and
\* no change of the enabled services takes a label route or a static route
\* away from the proxy.
LocalRoutesKept ==
  [][changes'.docker = 0 /\ faults'.docker = 0
       => \A h \in Hosts : proxy[h] \in ContainerSet \union {Static}
                           => proxy'[h] # NoRoute]_vars

\* "Periodic full reconcile so routes recover after start races / missed
\* events" (reconcile.rs:23): when failures and changes are over, the proxy,
\* the published routes and the discovery report settle on what is wanted;
\* and under an outage that never ends the proxy still settles on the label
\* and static routes.
Converges ==
  <>[](IF reachable
       THEN proxy = Wanted /\ published = Wanted /\ discovery = running
       ELSE proxy = LocalWanted)

-----------------------------------------------------------------------------
(* Statements of the documentation that the code does not keep.            *)

\* SPEC-v1.md:920, "Existing proxy routes should continue serving while the
\* Controller is unreachable.", and reconcile.rs:194, "Keep local proxy
\* routes; only controller sync failed.": in an outage a route leaves the
\* proxy only when its container stops.
OutageKeepsRoutes ==
  [][~reachable
       => \A h \in Hosts : proxy[h] # NoRoute /\ proxy'[h] = NoRoute
                           => proxy[h] \in ContainerSet \ running]_vars

\* SPEC-v1.md:1426, agent readiness requires "initial reconciliation
\* completed": the proxy then has the routes of the configuration.
ReadyMeansReconciled ==
  initialReconcile => \A h \in StaticHosts : proxy[h] = Static

=============================================================================
