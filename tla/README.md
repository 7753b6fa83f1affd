# Verification of tailroute

TLA+ specifications of tailroute (`src/`), the TLC configurations that check
them on small instances, and TLAPS proofs. `PROJECT.json` maps each definition
to the lines it models and lists runs, mutants, findings, hazards and theorems.

## The system

`tailsvc-controller` stores agents and routes in SQLite, serves a private DNS
zone from an in-memory registry, and forwards other names upstream.
`tailsvc-agent` runs on each Docker host: it finds containers, serves their
hostnames with a reverse proxy on the tailnet address, and publishes them at
the controller. Both are tokio programs. A SQL statement or transaction is
atomic; handlers and tasks interleave at every `.await`, and a handler is
dropped there when its client goes away. systemd restarts both processes.

| Part | State | Operations | What makes it hard |
|---|---|---|---|
| Leases and ownership (`store.rs`, `api.rs`) | tables `agents`, `routes` | enroll, heartbeat, put_routes, delete_route, revoke, purge | checks outside transactions, time read before a statement, abandoned handlers, crash halfway |
| DNS registry (`registry.rs`, `refresh_dns`) | hostname to address | replace from handlers, cleanup task, boot | refreshes that overtake each other |
| Enrolment (`store.rs`, `reconcile.rs`, `agent_state.rs`) | tokens, credentials, `agent.json` | consume, enrol, save, load | one token used twice, crash between credential and disk |
| DNS supervisor (`main.rs`, `server.rs`) | sockets, `dns_up` | bind, serve, back off | detached UDP task, port taken by others |
| DNS server (`server.rs`) | cache, requests in flight | answer, forward, cache, time out | registry replaced between two reads of it, silent upstream |
| Reconcile loop (`reconcile.rs`) | proxy routes, published routes, event stream | scan, merge, replace, publish, reconnect | three overlapping sources, lost events, outages, lost answers |
| Enabled services (`api.rs`, `store.rs`) | `enabled_services`, `discovery_snapshots` | enable, disable, discovery | several statements in one handler, stale dashboards |
| Agent process and proxy (`main.rs`, `ready.rs`, `proxy.rs`) | proxy task, flags, connections | start, accept, forward, upgrade, stop | keep-alive, silent backends, a task that ends unnoticed |
| Agents, controller and DNS in time (`reconcile.rs`, `api.rs`, `main.rs`) | timers, leases, registry | probe, publish, renew, back off, clean up | one task does it all, calls without a timeout, crashes, rivals for a hostname |
| Admin sessions (`sessions.rs`, `state.rs`, `api.rs`) | session map | login, check, purge, logout | sessions that end or are purged under the requests of others, restarts under open pages |
| Database backup (`backup.rs`, `store.rs`) | files in a directory | snapshot, prune | partial files, names that repeat, failed removals |
| Backend resolution (`labels.rs`, `docker_runtime.rs`, `backend_resolve.rs`, `candidate.rs`) | none (pure) | labels to backend, suggestions | ambiguity, the order of hash maps, two implementations of one rule |
| Dashboard, configuration, Tailscale lookup | see "Not modelled" | | |

They meet in four places. The agent's PUT and heartbeat change `routes` and the
lease (AgentReconcile has the agent's side, Controller the tables' side with
every interleaving of statements; Fleet composes both in time, with a handler as
one step). Each change of `routes` or of a lease reaches clients through the
registry (Controller and Fleet write it, DnsServer reads it and takes any
replacement as possible). The agent's routes are replaced by the reconcile loop
under the proxy's requests (AgentReconcile, AgentProxy). Every admin handler
begins with a check of the session map (AdminApi extends EnabledServices).

## Modules

Actions have the names of the functions they model; an action is the code from
one `.await` to the next.

* **HostnameOwnership**: what the controller promises. A hostname has one owner.
  A live owner loses it only to nobody, by its own or an administrator's
  request; a hostname that is free or whose owner's lease has run out can be
  claimed.
* **Controller**: the two tables, the registry, API requests in flight (`task`,
  one record with a program counter and the locals that live across an await),
  the cleanup task, boot and crash. Hostname policy and syntax are in the choice
  of `Hosts`. `Ownership == INSTANCE HostnameOwnership` is the refinement
  mapping: the live agents are those whose lease has not run out.
* **Enrollment**: tokens, the enroll handler in its three statements, and the
  agent's start, request and state file, which a crash may leave torn.
* **DnsSupervisor**: the restart loop, UDP and TCP sockets, the detached UDP
  task with the requests that hold its socket, and `dns_up`.
* **DnsServer**: requests with several questions, the registry, the cache with
  its lifetimes and caps, upstream and the query timeout. `seen` and the age of
  answers are history, used by the properties only. `selfUpstream` says whether
  the configured upstream is this server, `zone` what upstream has. Upstream
  answers with that or with an error code (SERVFAIL, REFUSED), or keeps silent.
  The resolver library is external: it reports every reply without records,
  error codes included, as "no records found", which forward_query answers and
  caches as NXDOMAIN; only silence is a failed lookup.
* **AgentReconcile**: `reconcile_once` step by step, `refresh_local_routes`, the
  event stream with its debounce, failures of Docker and of the controller. The
  order of hash maps and lists is the order of sequences, and the loops over
  them are recursive functions of how many elements they have seen. The merge
  keeps what the code keeps, the routes for the proxy and the list for the PUT;
  of the list it has, for each hostname, the entries in their order, which is
  what decides between them. The reference (`Wanted`) is stated without loops.
* **Fleet**: one agent (`Self`) with the whole of `loop_forever` and
  `reconcile_with_backoff`, its intervals and waits, and the controller's
  leases, cleanup task and registry. Leases are kept as ages and timers as time
  left, so time has no bound. Its `Ownership == INSTANCE HostnameOwnership` is a
  second refinement of the same promise. The other agents are seen through their
  requests: a steady one renews within the bound that RenewalBounded shows of
  the agent itself, one that is not does as it pleases.
* **EnabledServices**: the admin handlers, and the pages and answers dashboards
  act on later.
* **AdminApi**: EnabledServices behind its authorisation: the session map,
  login, logout, expiry, and restarts of the controller. A token is not bound to
  an administrator: any request may carry any token or the password. `since` is
  history.
* **Backup**: the backup task. A directory is the sequence of its files in the
  order of their names, each partial, good or the latest. Pruning lists the
  directory and then removes the outdated files one by one, newest first; a
  removal may fail, and a crash may come between two. With `backup.keep` 0
  nothing is ever removed; the directory then grows until the disk is full
  (`MaxFiles`), and snapshots fail from there on.
* **AgentProxy**: start of the agent, readiness flags, signals, and the
  connections of the proxy. Backends answer, fail or keep silent. The look at
  the shutdown flag (`handle`) and the choice of the route (`route`) are two
  steps, since the flag may be set by another thread in between: a request that
  was past the look still goes to its backend.
* **BackendResolve**: labels and resolution as operators, over all containers of
  a bounded shape, against `WantedBackend`, which reads the priorities as sets
  of ways to reach a port. It also has the discovery of candidates, whose
  `suggest_backend` implements the priorities a second time.
* **ControllerProofs, EnrollmentProofs, DnsProofs** (DnsSupervisor and
  DnsServer)**, FleetProofs, AdminApiProofs** (with EnabledServices)**,
  BackupProofs, AgentReconcileProofs, BackendProofs** (AgentProxy and
  BackendResolve): the theorems about each.
* **MC...** modules give the constants values for TLC.

Definitions whose comment starts with "Mutant of X" are wrong variants of `X`.
Each property of a passing run has one that violates it.

## What the runs show

Passing runs:

| Run | Properties | Instance |
|---|---|---|
| controller_safety | ControllerInv, OwnershipSpec, LiveOwnerKept, RevokedLeaseFrozen, RevokedStaysOut | 2 agents that both want 1 hostname, 2 requests in flight, TTL 1, instants 0 to 2, 1 crash |
| controller_live | RevokedLeavesDns, RevokedReleasesHosts, RegistryConverges | 1 agent, 2 requests, TTL 1, instants 0 to 3, revoked until 1 or not at all, 1 crash, fair |
| enrollment | EnrollmentInv (types, TokenSpentFirst, answers and nodes agree), CredentialsSound, IdentityKept, SavedAgentRecovers | 2 nodes given the same token, 3 ids, 2 requests, 2 crashes, fair |
| dns_supervisor | SupervisorInv (types, sockets of each phase, ServingIsReady), UdpOutlivesTcp, RegainsPort | 2 errors of each protocol, port taken 4 times, fair |
| dns_server | DnsServerInv (types, cache, requests and responses sound, RegistryComesFirst), FailureIsServfail, UpstreamAnswersFresh, UnregisteredNotLooped, EveryRequestAnswered | 1 name that upstream has an A record of or does not know, upstream another server or this one, 2 requests at once for AAAA and A, registry replaced twice, instants 0 to 4, requests until 2, fair |
| agent_reconcile | ReconcileInv (types, MergeSound, RoutesJustified, LabelsServed), PublishesWhatItServes, LocalRoutesKept, Converges | 2 hostnames, 2 containers with overlapping labels, 1 enabled service, 1 static route, 2 changes, 2 faults, fair |
| enabled_services | AdminInv (types, ids and handlers sound, lifetimes exact, SessionsExact), PageIdsStay, ReplyNeverMisdirects | 2 administrators, 2 tokens with sessions of two instants, the password, 2 identities, 3 enable requests, restarts |
| agent_proxy | ProxyInv (types, start and flags agree, StageSound, ForwardSound), DrainEnds, HttpAnswered | 2 connections, 1 hostname, 2 replacements, 1 fault, a backend with a malformed address, fair |
| backend_resolve | ResolutionInv (types, ResolvesByPriority), SuggestionAgrees | 2 ports, 2 host ports, 2 networks and that of the host, up to 2 bindings; TCP ports, labels that parse or do not |
| fleet | FleetInv (types, LoopSound, RegistrySound), RenewalBounded, FleetOwnership, HealthyOwnerKept, Settles | 1 agent and 1 rival that want 1 hostname, 1 more the policy forbids, TTL 4, RenewalGap 3, 1 change, 2 faults, fair |
| backup | BackupInv (types, size of the directory, LatestBackupKept), BackupsGoOn, RetentionRegained | keep 0 with room for 4 files, or 2; 5 faults, fair |

What fleet says of the real numbers: while nothing fails, an agent renews within
the longer of the periodic interval (15 s) and the longest pause before a new
event stream (30 s), plus the time one reconcile takes. With a TTL of 90 s it
keeps its lease and hostnames as long as a reconcile takes less than 60 s. A dead
backend costs a reconcile about 11.6 s (five tries of 2 s, four pauses of 0.4 s,
one backend after the other), so about six of them can cost an otherwise healthy
agent its lease. RenewalGap is exact: with TTL = RenewalGap the two lease
properties fail (below).

One run ends in a counterexample and refutes a sentence of the repository
(quoted in `PROJECT.json` under `findings`):

| Run | Statement | What the code does |
|---|---|---|
| dns_supervisor_restart | SelfRestarts | after an error of accept the old UDP task keeps the port, and bind fails for ever |

### Other statements the code does not keep

These are definitions of the modules too. To see the counterexample, name one
as the only INVARIANT or PROPERTY in the cfg of the passing run of its module,
with the change of the instance given here.

| Statement | Said in | Instance | Counterexample |
|---|---|---|---|
| RevokedClaimsNothing (Controller) | SPEC-v1.md:647-654 | as controller_live | a PUT that is past its check when the agent is revoked still gives it hostnames |
| ExpiredExcludedFromDns (Controller) | SPEC-v1.md:915 | as controller_live | the lease runs out between two refreshes; the registry still has the address |
| LeaseNeverShortened (Controller) | SPEC-v1.md:913 | as controller_live | of two heartbeats in flight the one that read the clock first writes last |
| OneTimeToken (Enrollment) | SPEC-v1.md:1372 | as enrollment | two enrolments at once spend one token |
| EnrolledAgentRecovers (Enrollment) | SPEC-v1.md:1043 | as enrollment | a crash after the token is spent and before the state file is complete |
| DnsUpMeansListening (DnsSupervisor) | state.rs:17 | as dns_supervisor | `dns_up` is set before bind, and bind fails |
| ResponseCodePreserved (DnsServer) | SPEC-v1.md:947-954 | as dns_server | upstream has the name but no record of the type; the answer is NXDOMAIN |
| NxdomainNotFabricated (DnsServer) | SPEC-v1.md:993, server.rs:279 | as dns_server | upstream has the record but answers with an error code; the answer, and the cache entry, is NXDOMAIN |
| TtlRespected (DnsServer) | SPEC-v1.md:979 | Ttls = {2}, PositiveCap = 2 | a cached record is served with its full TTL again |
| NoSelfForward (DnsServer) | SPEC-v1.md:176, server.rs:238 | as dns_server | the registry is replaced between the two reads of it |
| OutageKeepsRoutes (AgentReconcile) | SPEC-v1.md:920, reconcile.rs:194 | as agent_reconcile | the list of enabled services cannot be fetched, and they leave the proxy |
| ReadyMeansReconciled (AgentReconcile) | SPEC-v1.md:1426 | as agent_reconcile | the first reconcile fails and the agent is ready |
| ReplyIdStable (EnabledServices) | api.rs:346 | as enabled_services | another administrator disables the row between the upsert and the listing; the answer is an id no row has |
| UpgradeAnswered (AgentProxy) | SPEC-v1.md:307, 609 | as agent_proxy | no timeout covers an upgrade to a silent backend |
| ReadyMeansAccepting (AgentProxy) | SPEC-v1.md:1424 | as agent_proxy | the proxy task has not bound, or has ended |
| SignalStopsAgent (AgentProxy) | proxy.rs:53, SPEC-v1.md:292 | as agent_proxy | the proxy takes the signal, the select loop goes on |
| UdpNeverServed (BackendResolve) | SPEC-v1.md:446 | Protocols = {"tcp", "udp"} | a UDP port counts as a backend port |
| InvalidPortRejected (BackendResolve) | SPEC-v1.md:441 | as backend_resolve | a port label that does not parse is passed over |
| InvalidBackendRejected (BackendResolve) | SPEC-v1.md:1358-1363 | as backend_resolve | a backend label that is no URL is passed over, and the container is exposed by its ports |
| SuggestionAlwaysAgrees (BackendResolve) | candidate.rs:226 | as backend_resolve | one port is published twice, as on 0.0.0.0 and [::]; the suggestion is the container's address |
| StoppedIsReleased (Fleet) | SPEC-v1.md:647-649 | MaxChanges = 2, MaxFaults = 0 | another container asks for a hostname outside the policy; every PUT is refused as a whole |
| HealthyOwnerKept, DnsForgetsTheDead (Fleet) | nowhere; shows that the bound is exact | TTL = 3, without `LeaseAssumption` | a pause and a slow reconcile take as long as the lease |
| KeptAreGood (Backup) | deploy/README.md:27 | as backup | a good snapshot is removed while a newer partial file is kept |
| LatestBackupKept (Backup) | backup.rs:1 | ClockBack = TRUE | a snapshot named after an earlier second is the first to be pruned |

RevokedClaimsNothing and the theorem RevokedNeverReturns belong together: the
stray routes exist, but cannot put the agent back into DNS once it is out of the
registry and of every refresh in flight, and controller_live shows that they go
away when the lease runs out.

### Why the bounds are enough

Races need two actors: two agents or two requests in flight, with the cleanup
task as a third. Leases need the instants before, at and after the end, which
TTL 1 gives within three instants. A hostname is independent of others except
in the all-or-nothing transaction of put_routes; one hostname is enough for
every race, and the proofs cover any number. In Controller the clock stops at
MaxTime and Horizon bounds the time of revocations only: the lease of an agent
that is revoked runs out within the bound, whereas the others enrol, renew and
publish to the end. So the registry settles on an address in some behaviours
and on none in others, and RegistryConverges is about both. In DnsServer
Horizon bounds the arrival of requests. Faults and changes are bounded so that
"when they end" is reached; an outage may last for ever. Symmetry is used in
controller_safety (requests in flight) and enabled_services (identities of
containers and tokens), which check no liveness.

In DnsServer the lifetimes are small numbers: upstream's TTL 2 is above the
positive cap of 1, so the cap takes effect, and five instants let an entry be
stored, expire and be fetched again. The two questions of a request are for the
types that differ most, AAAA (never the registry's address) and A, so that one
may fail or set a code and the other have an answer; the two zones make upstream
one that has the record and one that does not know the name.

In Fleet the unit of time is the periodic interval; the heartbeat takes two, the
longest pause two and a reconcile up to one, so that timers fall due during
waits and together. TTL 4 is the least for which a lease outlives RenewalGap.
Two faults give a crash in the midst of a lost call, or a failed takeover; the
rival's lease may be of any age up to RenewalGap when it fails. In Backup the
directory overflows with the third snapshot, and five faults leave more partial
files than are kept. The sessions of two instants end while handlers run and
while pages are open, each at another time than the other.

Assumptions: the wall clock does not go back; `last_seen_at` is never NULL for
an enrolled agent, since enroll_agent sets it; the put_routes transaction takes
no time on the clock of the model; Docker lists containers in one order while
nothing changes; in DnsServer time passes only while upstream is waited for or
nothing is under way, and timers that have run out fire before it passes on.
In Fleet time passes only while every program waits; a rival that works renews
within RenewalGap, the bound shown of the agent, and RenewalGap is below the TTL.

### Fairness

Only what the programs do by themselves is fair: tokio polls every ready task, a
statement ends, the cleanup task and the periodic reconcile tick, timers fire,
systemd restarts a process, a supervisor leaves its backoff, TCP gives up a dead
connection. No fairness is assumed of clients, administrators, Docker events,
upstream servers, backends, networks or other processes. The strong fairness of
the clock in DnsServer says that real time passes however many requests arrive.
RegainsPort needs that the port is taken by others finitely often, which is the
bound MaxForeign. In Fleet an agent that has crashed may stay away; only the
controller is sure to be restarted. A backup task whose directory could not be
created is idle until an operator restarts the controller, which is not fair.

Deadlock is checked in the runs of Controller, AgentReconcile, AdminApi, Fleet
and Backup. It is off where the system may stop: an agent without a usable
token, a DNS port nobody wants any more, no more requests within the clock's
bound, an agent process that has ended, a backend that has been resolved.

## What is proved

For every set of nodes, requests, names and values, every interval and every
bound on faults, from the named assumptions on the constants alone
(`ConstantsAssumption`, in DnsSupervisor `SupAssumption`, in BackendResolve
`ShapeAssumption`, and where given below another one). Those say that
markers such as `NoAgent` are not members of the sets they are added to, and
which constants are numbers, positive where a zero would make no sense.

| Theorem | Property | Proofs in |
|---|---|---|
| Invariance | ControllerInv | ControllerProofs |
| LiveOwnersKeepHostnames | LiveOwnerKept | |
| RevocationFreezesLease | RevokedLeaseFrozen | |
| RevokedNeverReturns | RevokedStaysOut | |
| ImplementsOwnership | OwnershipSpec, the refinement | |
| TokensSpentFirst | EnrollmentInv | EnrollmentProofs |
| CredentialsAreSound | CredentialsSound | |
| IdentityIsKept | IdentityKept | |
| ReadinessIsSound | SupervisorInv | DnsProofs |
| UdpSurvives | UdpOutlivesTcp | |
| RegistryIsFirst | DnsServerInv | |
| FailuresAreReported | FailureIsServfail | |
| AnswersAreFresh | UpstreamAnswersFresh | |
| UnregisteredDoNotLoop | UnregisteredNotLooped | |
| FleetIsSound | FleetInv | FleetProofs |
| RenewalIsBounded | RenewalBounded | |
| HealthyOwnersKeep | HealthyOwnerKept | |
| FleetImplementsOwnership | FleetOwnership, the refinement | |
| DnsForgets | DnsForgetsTheDead, a consequence of FleetInv | |
| SessionsAreExact | AdminInv | AdminApiProofs |
| PageIdsAreKept | PageIdsStay | |
| RepliesAreSafe | ReplyNeverMisdirects | |
| ProxyIsSound | ProxyInv | BackendProofs |
| PrioritiesDecide | ResolutionInv | |
| OffersWhatResolves | SuggestionAgrees | |
| LatestIsKept | BackupInv | BackupProofs |
| ReconcileIsSound | ReconcileInv | AgentReconcileProofs |
| PublishesServed | PublishesWhatItServes | |
| LocalRoutesStay | LocalRoutesKept | |
| MergeIsWanted | what the merge computes (no run: a fact about operators) | |

Each module proves that the initial states satisfy an inductive invariant and
that every step keeps it, with one step or lemma per action. The properties
follow from it, the action properties from one step under it. The invariants
are also checked by the runs, except for `FailureSound` of DnsServer and
`Computed` of BackendResolve, which are defined with their proofs.

**Controller.** `ControllerInv` is inductive as it stands. Type correctness
alone is not, because handlers act on what they read before an await: it needs
that a handler past verify_agent_token acts for an enrolled agent, that the
address a heartbeat will write is the agent's own, that a stamp taken before a
statement is not ahead of the clock, and that an idle slot holds nothing. The
last two carry the argument of LiveOwnerKept: the cutoff of a purge is computed
from a stamp in the past, so the DELETE can be late but never early.
RevokedStaysOut rests on the SELECT of active_dns_routes, which filters revoked
agents in the same statement that reads the routes; the routes a late PUT
inserts are therefore never selected.

**Enrollment.** The invariant is `EnrollmentInv /\ CredentialsSound`; neither is
inductive without the other. A node takes a credential from the answer of a
handler, so the answers must be sound (`AnswersSound`: an answer on its way is a
row made with the request's token, and no node or other answer has it), and the
node must wait for a handler of its own (`NodesSound`). An answer stays nobody
else's because every other credential is a row already and ids are new.

**DnsSupervisor.** `ServingIsReady` needs `PhaseSound`: what the supervisor has
opened at each place of the loop. The UDP socket is missing from it where a
detached task of an earlier server may still hold it.

**DnsServer.** The invariant adds to `DnsServerInv` that answers collected so
far are fresh, and (`FailureSound`) that a question which is neither to do nor
answered has set the failure flag, from which FailureIsServfail follows when the
response is finished. `RequestSound` says which questions are still open and what each
phase of one relies on, `CacheSound` that an entry with records has those of
upstream and when it expires at the latest. `RegistryComesFirst` compares the response with
every registry replaced while the request ran, so `ResponseSound` carries it
question by question through the steps where the registry changes.

**Fleet.** From `LeaseAssumption`, `RenewalGap < TTL`, which the shipped
intervals of 15, 30 and 90 s satisfy as long as a reconcile takes less than
60 s. It is used where a steady rival is taken to keep its lease, and it is the
least that is sound, as the counterexample with TTL = RenewalGap shows.
`RenewalBounded` is not inductive: `LoopSound` says for each place of the loop
how much of the gap may be used up there, as a sum of the lease's age and the
time left of the current wait or of the periodic interval. A heartbeat whose
answer is lost leaves the loop with its timers running; that the timers exist
there is a clause TLC did not ask for and the proof did. `RegistrySound` bounds
what DNS says by the time left to the next round of the cleanup task, which
makes `DnsForgetsTheDead` inductive. The theorems hold for any number of
rivals, hostnames and faults. For the refinement, the live agents of
HostnameOwnership are those whose lease is younger than the TTL. A PUT is a Claim
of those of its hostnames that the policy allows; a purge is a Reclaim, because it
frees only leases older than the TTL; time, crashes and heartbeats only change
leases.

**AdminApi and EnabledServices.** Also from `SessionAssumption` (a session lasts
at least one instant). An id on a page keeps its meaning because ids are never
used twice (`IdsSound`) and because a row whose id a waiting handler holds is
its own or gone (`JobsSound`). `SessionsExact` says whether a token is accepted
now; `LeftExact` says when that will end, which is what a step preserves.

**AgentProxy.** `StartSound` ties readiness flags, signals and the shutdown flag
to the place main has reached. `ForwardSound` compares where a request has been,
and what its client is told, with the routes its host had while it was at the
proxy (`seen`, history) and with the flag when it came (`late`, history).
`StageSound` makes it inductive: it says what each stage of a request relies on,
in particular that a request before `route` has no backend yet and that the
routes of the moment are among those seen. The proof has one lemma per action
that moves a request, and one for the replacement of the routes.

What a drain does not do: DrainEnds is about plain requests. An upgrade that was
past the look at the flag still connects to its backend, one whose backend keeps
silent stays (UpgradeAnswered, above), and tunnels stay open until a side closes
them; the process itself does not end (SignalStopsAgent).

**Backup.** `LatestBackupKept` holds unless the clock goes back (`~ClockBack`);
the rest of `BackupInv` holds in any case. While pruning is under way the
snapshot just completed is the last file, and the place of the next file to be
removed is before it (`PlaceSound`). This holds for every value of `keep`, 0
included. If `keep` is positive, `DirectoryBounded` says that each file
beyond `keep` and the one being written is the trace of a failure; that it is
kept while files are removed one by one needs the files yet to be tried to be
left out of the count.

**AgentReconcile.** `ReconcileInv` is inductive. `MergeSound` says that the two
results of a merge, the routes for the proxy and the list for the PUT, agree, and
that the proxy has the first before the second is sent; PublishesWhatItServes is
one step under it. `RoutesJustified` says that a container is led to only by a
hostname of its labels and that static routes are served wherever they are
configured, `LabelsServed` which container a label route leads to while Docker
neither fails nor changes. LocalRoutesKept needs both: the routes that replace
the old ones are built from the labels again, and these lead somewhere wherever
they led before.

What the two loops compute is proved for every list of containers and of
services, by induction over the passes. `LeastNumber` takes the least element of a
set of numbers from the well-foundedness of `<`, `SetInduction` states induction
with a set in place of a predicate, `Iteration` says that a recursive function of
the passes is the one its equations define, and `LastWins` that a loop whose
passes of some set store a value ends with that of the last of them. `FromServices`
and `AddDesired` are such loops for each hostname. `MergeIsWanted` puts them and
the static routes together: a pass in which nothing fails gives the proxy and the
controller the routes `Wanted`, which is the part of Converges that is not about
fairness.

**BackendResolve.** `Computed` says that each result is that of its function on
the container; the rest is about the functions, for any finite sets of ports,
bindings and networks. Each selection of the code (the port, the local bindings, the
address in a network) is shown to be the only element of the set that
`WantedBackend` speaks of, or none, so no order of a hash map can matter.
`ResolvesByPriority` and `SuggestionAgrees` speak of containers without UDP ports
(`TcpOnly`), because the code does not look at the protocol (above).

Helpers have lemmas of their own: what the SQL statements return
(`SelectRowsFacts`, `RoutesAfterPutFacts`, `RefreshFacts`, ...), what a request
record holds, what inserting into and removing from a directory leaves in place,
and that handlers of different slots do not disturb each other (`RequestStep`).

Only model-checked:

* All liveness properties: the prover has no fairness. Fairness is also where
  the assumptions about scheduling are.
  They are RevokedLeavesDns, RevokedReleasesHosts, RegistryConverges,
  SavedAgentRecovers, RegainsPort, EveryRequestAnswered, Converges, DrainEnds,
  HttpAnswered, Settles, BackupsGoOn and RetentionRegained. Every other property
  of a passing run is also a theorem.
* The statements the code does not keep, of course.

## Not modelled

* The dashboard, the listings and the probe handler: they read and format and
  change no state. What a dashboard holds of a listing is in EnabledServices.
* Configuration and the lookup of the Tailscale address: read once at start;
  their values are constants here.
* Wire formats, headers, bodies, audit rows; the syntax of hostnames, ports and
  URLs, of which the models know only what parses and what does not.
* Comparison of passwords and generation of tokens, which have no state.

## Plan

Controller splits a handler into its statements and has no timers, Fleet has
timers and takes a handler as one step. A model with both would show RenewalGap
against heartbeats whose statement is delayed.
