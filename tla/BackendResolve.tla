--------------------------- MODULE BackendResolve ---------------------------
(***************************************************************************)
(* From a running container to the backend of its hostnames: the labels,   *)
(* the inspection and the priority of resolve_backend, and the backend     *)
(* that discovery suggests to the administrator, as pure functions over    *)
(* the containers Docker can report, against a declarative reading of the  *)
(* priorities.  An address is the network it belongs to; a host            *)
(* address is "any" (0.0.0.0 or none), "local" (127.0.0.1) or "lan".       *)
(***************************************************************************)
EXTENDS Naturals, FiniteSets, FiniteSetsExt

CONSTANTS
  Ports,         \* container ports
  HostPorts,
  Protocols,     \* subset of {"tcp", "udp"}
  Networks,
  Invalid,       \* {"invalid"} if labels may hold what does not parse
  MaxBindings    \* bound on published ports and on exposed ports

ASSUME ShapeAssumption ==
  /\ IsFiniteSet(Ports) /\ Ports \intersect {"absent", "invalid"} = {}
  /\ IsFiniteSet(HostPorts)
  /\ Protocols \subseteq {"tcp", "udp"}
  /\ IsFiniteSet(Networks)
  /\ Networks \intersect {"absent", "any", "local", "lan"} = {}
  /\ Invalid \subseteq {"invalid"}
  /\ MaxBindings \in Nat

VARIABLES
  container,     \* what Docker reports
  candidate,     \* the suggested backend in the discovery report
  svc,           \* DiscoveredService, or NoService
  backend        \* the result of resolve_backend

resolveVars == <<container, candidate, svc, backend>>

Bindings == [port : Ports, protocol : Protocols,
             ip : {"any", "local", "lan"}, hostPort : HostPorts]

\* Labels of the map: a port or a backend that does not parse is "invalid".
Labels ==
  [enable : BOOLEAN, hosts : {"absent", "valid", "invalid"},
   port : {"absent"} \union Invalid \union Ports,
   backend : {"absent", "valid"} \union Invalid,
   network : Networks \union {"absent"}]

\* On the host's network a container has no address of its own.
Possible(c) == c.mode = "host" => c.networks = {}

UpTo(S, n) == UNION {kSubset(k, S) : k \in 0..n}

Reportable ==
  {c \in [running : BOOLEAN, skipImage : BOOLEAN, labels : Labels, mode : {"host", "bridge"},
          published : UpTo(Bindings, MaxBindings),
          exposed : UpTo(Ports \X Protocols, MaxBindings),
          networks : SUBSET Networks] : Possible(c)}

NoService == [none |-> TRUE]
Pending == [state |-> "pending"]
Rejected == [state |-> "rejected"]
Explicit == [state |-> "explicit"]
Unreported == [state |-> "unreported"]
Backend(host, port) == [state |-> "resolved", host |-> host, port |-> port]

-----------------------------------------------------------------------------
(* Labels and inspection.                                                  *)

\* parse_port(v).ok() and parse_backend_url(v).ok(): what does not parse is as
\* good as absent.  None stands for no labels at all.
labels_from_map(l) ==
  IF l.enable /\ l.hosts = "valid"
  THEN [port |-> IF l.port \in Ports THEN {l.port} ELSE {},
        backend |-> l.backend = "valid",
        network |-> {l.network} \ {"absent"}]
  ELSE NoService

inspect_service(c) ==
  LET l == labels_from_map(c.labels)
  IN  IF c.running /\ l # NoService
      THEN [labels |-> l, mode |-> c.mode, published |-> c.published,
            exposed |-> c.exposed, networks |-> c.networks]
      ELSE NoService

-----------------------------------------------------------------------------
(* resolve_backend.                                                        *)

\* Entries of the list, one for each port and protocol.
single_exposed_port(s) ==
  IF Cardinality(s.exposed) = 1 THEN {e[1] : e \in s.exposed} ELSE {}

\* Sorted and without duplicates.
single_published_container_port(s) ==
  LET ports == {p.port : p \in s.published}
  IN  IF Cardinality(ports) = 1 THEN ports ELSE {}

\* The port as a set of at most one.
ChosenPort(s) ==
  IF s.labels.port # {} THEN s.labels.port
  ELSE IF single_exposed_port(s) # {} THEN single_exposed_port(s)
  ELSE single_published_container_port(s)

\* Mutant of select_published_port: the first of several bindings is taken.
SelectFirst(s, port) ==
  LET matches == {p \in s.published : p.port = port}
  IN  IF matches = {} THEN {} ELSE {CHOOSE p \in matches : TRUE}

\* No binding, the one to use, or several when there is no telling.
select_published_port(s, port) ==
  LET matches == {p \in s.published : p.port = port}
      local == {p \in matches : p.ip \in {"any", "local"}}
  IN  IF Cardinality(matches) > 1 /\ Cardinality(local) = 1 THEN local
      ELSE matches

select_container_ip(s) ==
  IF s.labels.network # {} THEN s.labels.network \intersect s.networks
  ELSE IF Cardinality(s.networks) = 1 THEN s.networks
  ELSE {}

LocalHost(pub) == IF pub.ip = "any" THEN "local" ELSE pub.ip

resolve_backend(s) ==
  IF s.labels.backend THEN Explicit
  ELSE IF ChosenPort(s) = {} THEN Rejected
  ELSE LET port == CHOOSE p \in ChosenPort(s) : TRUE
           pubs == select_published_port(s, port)
           pub == CHOOSE p \in pubs : TRUE
           ips == select_container_ip(s)
       IN  IF Cardinality(pubs) > 1 THEN Rejected
           ELSE IF pubs # {}
             THEN Backend(LocalHost(pub), pub.hostPort)
           ELSE IF s.mode = "host" THEN Backend("local", port)
           ELSE IF ips = {} THEN Rejected
           ELSE Backend(CHOOSE n \in ips : TRUE, port)

-----------------------------------------------------------------------------
(* The discovery report: what the administrator is offered.  Rejected      *)
(* stands for a container that is reported without a suggestion.           *)

\* The ports without their protocol, sorted and without duplicates.
ExposedPorts(c) == {e[1] : e \in c.exposed}

\* Mutant of suggest_backend: any published port will do.
SuggestPublished(c) ==
  LET pub == CHOOSE p \in c.published : TRUE
  IN  IF c.published # {} THEN Backend(LocalHost(pub), pub.hostPort) ELSE Rejected

suggest_backend(c) ==
  LET port == CHOOSE p \in ExposedPorts(c) : TRUE
      pub == CHOOSE p \in c.published : TRUE
  IN  IF Cardinality(c.published) = 1 THEN Backend(LocalHost(pub), pub.hostPort)
      ELSE IF Cardinality(ExposedPorts(c)) # 1 THEN Rejected
      ELSE IF c.mode = "host" THEN Backend("local", port)
      ELSE IF Cardinality(c.networks) # 1 THEN Rejected
      ELSE Backend(CHOOSE n \in c.networks : TRUE, port)

inspect_candidate(c) ==
  IF c.running /\ ~c.skipImage THEN suggest_backend(c) ELSE Unreported

-----------------------------------------------------------------------------
(* reconcile_once looks at the containers twice, for the report and for    *)
(* the routes.                                                             *)

ResolveInit ==
  /\ container \in Reportable
  /\ candidate = Pending
  /\ svc = NoService
  /\ backend = Pending

suggest ==
  /\ candidate = Pending
  /\ candidate' = inspect_candidate(container)
  /\ UNCHANGED <<container, svc, backend>>

inspect ==
  /\ candidate # Pending
  /\ backend = Pending
  /\ svc = NoService
  /\ svc' = inspect_service(container)
  /\ backend' = IF svc' = NoService THEN Rejected ELSE Pending
  /\ UNCHANGED <<container, candidate>>

resolve_service ==
  /\ backend = Pending
  /\ svc # NoService
  /\ backend' = resolve_backend(svc)
  /\ UNCHANGED <<container, candidate, svc>>

ResolveNext == suggest \/ inspect \/ resolve_service

ResolveSpec == ResolveInit /\ [][ResolveNext]_resolveVars

-----------------------------------------------------------------------------
(* Properties.                                                             *)

\* The result is a refusal or an address one can connect to, never 0.0.0.0.
Addresses == {Backend(h, p) : h \in Networks \union {"local", "lan"},
                              p \in Ports \union HostPorts}

ResultsTyped ==
  /\ backend \in {Pending, Rejected, Explicit} \union Addresses
  /\ candidate \in {Pending, Rejected, Unreported} \union Addresses

\* Docker reports a protocol with every port, and the code does not look at it.
TcpOnly(c) ==
  /\ \A b \in c.published : b.protocol = "tcp"
  /\ \A e \in c.exposed : e[2] = "tcp"

\* SPEC-v1.md:1358-1363 has the agent reject other labels, and the code passes
\* over them.
LabelsParse(c) == "invalid" \notin {c.labels.port, c.labels.backend}

\* The TCP ports a container may be served on.
TcpExposed == {e[1] : e \in {x \in container.exposed : x[2] = "tcp"}}
TcpPublished == {b \in container.published : b.protocol = "tcp"}

\* The port by the rules of the labels: the label, the exposed TCP port if
\* there is one only, the published one if it is unambiguous.
WantedPort ==
  LET choices == <<IF container.labels.port \in Ports THEN {container.labels.port}
                                                      ELSE {},
                   TcpExposed, {b.port : b \in TcpPublished}>>
      good == {i \in 1..3 : Cardinality(choices[i]) = 1}
  IN  IF good = {} THEN {} ELSE choices[Min(good)]

\* For each priority the ways to reach the port; the first priority that has
\* any decides, and more than one way is no way.
Ways ==
  LET bound == {b \in TcpPublished : b.port \in WantedPort}
      safe == {b \in bound : b.ip # "lan"}
  IN  <<IF Cardinality(bound) > 1 /\ Cardinality(safe) = 1 THEN safe ELSE bound,
        IF container.mode = "host" THEN {"local"} ELSE {},
        IF container.labels.network = "absent" THEN container.networks
        ELSE container.networks \intersect {container.labels.network}>>

WantedBackend ==
  LET open == {i \in 1..3 : Ways[i] # {}}
      level == Min(open)
      way == CHOOSE w \in Ways[level] : TRUE
  IN  IF container.labels.backend = "valid" THEN Explicit
      ELSE IF WantedPort = {} \/ open = {} THEN Rejected
      ELSE IF Cardinality(Ways[level]) > 1 THEN Rejected
      ELSE IF level = 1
        THEN Backend(IF way.ip = "lan" THEN "lan" ELSE "local", way.hostPort)
      ELSE Backend(way, CHOOSE p \in WantedPort : TRUE)

\* A container is exposed exactly when it runs and is enabled with valid
\* hostnames, and then its backend is the one the priorities determine.
DecidedByPriority ==
  backend = IF container.running /\ container.labels.enable
                 /\ container.labels.hosts = "valid"
            THEN WantedBackend ELSE Rejected

\* The priorities decide on every container without UDP ports whose labels
\* parse: several bindings, networks or ports are never decided by the order
\* in which Docker lists them, and a binding comes before the network of the
\* host (backend_resolve.rs, resolve_backend).
ResolvesByPriority ==
  backend # Pending /\ TcpOnly(container) /\ LabelsParse(container)
    => DecidedByPriority

\* SPEC-v1.md:446, "exactly one exposed TCP port exists": the same of every
\* container, UDP ports being no ports to serve.
UdpNeverServed ==
  backend # Pending /\ LabelsParse(container) => DecidedByPriority

\* The priorities decide, and every result, a suggestion too, is a refusal or
\* an address one can connect to (backend_resolve.rs, candidate.rs).
ResolutionInv == ResultsTyped /\ ResolvesByPriority

\* A container whose port label does not parse, and that has no backend label,
\* is not exposed (labels.rs, labels_from_map).
InvalidPortRejected ==
  container.labels.port = "invalid" /\ container.labels.backend = "absent"
    => backend \in {Pending, Rejected}

\* SPEC-v1.md:1358-1363, "the Agent must reject: malformed URLs": a container
\* whose backend label does not parse is not exposed (labels.rs,
\* labels_from_map).
InvalidBackendRejected ==
  container.labels.backend = "invalid" => backend \in {Pending, Rejected}

\* The container with the labels that enabling needs, and no other.
Plain(c) ==
  [c EXCEPT !.labels = [enable |-> TRUE, hosts |-> "valid", port |-> "absent",
                        backend |-> "absent", network |-> "absent"]]

\* A container as Docker has it: what is published is exposed as well.
PublishesExposed(c) ==
  \A b \in c.published : <<b.port, b.protocol>> \in c.exposed

\* What the administrator is offered is where labels would lead: for a
\* container with at most one binding and no UDP port the suggestion is the
\* backend that resolve_backend finds, and none is made when there is none to
\* find (candidate.rs, suggest_backend, a second implementation of the same
\* priorities).
SuggestionAgrees ==
  /\ candidate \notin {Pending, Unreported}
  /\ PublishesExposed(container) /\ TcpOnly(container)
  /\ Cardinality(container.published) <= 1
  => candidate = resolve_backend(inspect_service(Plain(container)))

\* The same with several bindings: a port that is published on two addresses
\* is offered by the address of the container, and labels lead to the local
\* binding.
SuggestionAlwaysAgrees ==
  /\ candidate \notin {Pending, Unreported}
  /\ PublishesExposed(container)
  => candidate = resolve_backend(inspect_service(Plain(container)))

=============================================================================
