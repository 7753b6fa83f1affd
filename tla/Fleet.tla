------------------------------- MODULE Fleet --------------------------------
(***************************************************************************)
(* An agent, the controller and the other agents together, in time: the    *)
(* select loop with its timers, probes and backoff, calls that are lost or *)
(* never answered, the leases they renew, the cleanup task, and what DNS   *)
(* then says.  Where the agent's hostnames come from is in AgentReconcile; *)
(* here containers run and stop.  The others are seen through what they    *)
(* ask of the controller: a steady one renews its lease within the bound   *)
(* that this module shows of the agent (RenewalBounded), the rest do as    *)
(* they please.                                                            *)
(* A handler of the controller is one step here; its statements interleave *)
(* in module Controller.                                                   *)
(*                                                                         *)
(* Time is discrete and never bounded: leases are kept as the time since   *)
(* the last renewal, timers as the time that is left.  It passes only when *)
(* no program has anything to do but wait.                                 *)
(***************************************************************************)
EXTENDS Integers, FiniteSets, FiniteSetsExt

CONSTANTS
  Self,          \* the agent
  Rivals,        \* the other agents
  Hosts,
  Allowed,       \* the hostnames the policy of the controller admits
  NoAgent,
  TTL,           \* leases.agent_ttl_seconds
  Heartbeat,     \* heartbeat_interval
  Periodic,      \* PERIODIC_RECONCILE
  Cleanup,       \* period of the cleanup task
  MaxReconnect,  \* EVENT_RECONNECT_MAX
  MaxBackoff,    \* CONTROLLER_BACKOFF_MAX
  MaxBusy,       \* bound on the time of listing, probes and calls
  MaxChanges,    \* bound on starts and stops of containers
  MaxFaults      \* bound on crashes, failures and lost calls

ASSUME ConstantsAssumption ==
  /\ Self \notin Rivals
  /\ NoAgent \notin Rivals \union {Self}
  /\ Allowed \subseteq Hosts
  /\ {TTL, Heartbeat, Periodic, Cleanup, MaxReconnect} \subseteq Nat \ {0}
  /\ {MaxBackoff, MaxBusy, MaxChanges, MaxFaults} \subseteq Nat

VARIABLES
  running,       \* Docker: hostnames of the containers on the agent's node
  up,            \* the controller runs
  age,           \* agents: time since last_seen_at, up to Old
  owner,         \* routes
  registry,      \* DnsRegistry, by agent
  sweep,         \* the cleanup task: time left to its tick, whether it is due
                 \* and whether its last refresh succeeded
  pc, left,      \* the agent's task, and the time its wait still takes
  found,         \* the hostnames it has listed
  proxy,         \* SharedRouteStore
  timer,         \* its intervals, NoTimers until the first reconcile is over
  stream,        \* the Docker event stream
  event,         \* an event waits in it
  healthy,       \* history: nothing has failed since the last renewal
  steady,        \* the rivals that renew their leases in time
  rivalHosts,    \* hostnames of the containers on a rival's node
  changes, faults

tables == <<age, owner, registry>>
controller == <<up, sweep>>
loop == <<pc, left, found, proxy, timer, stream, event, healthy>>
others == <<steady, rivalHosts>>
bounds == <<changes, faults>>
vars == <<running, controller, tables, loop, others, bounds>>

Agents == Rivals \union {Self}
Owners == Agents \union {NoAgent}
Old == TTL + Cleanup
NoTimers == [hb |-> 0, hbDue |-> FALSE, per |-> 0, perDue |-> FALSE]
Silent == {"scan_silent", "put_silent", "heartbeat_silent", "tick_silent"}

\* The longest time between two renewals while nothing fails.
RenewalGap == Max({Periodic, MaxReconnect}) + MaxBusy

\* Only then is it sound to see the other agents through this bound: a steady
\* one keeps its lease.  It holds for the configuration that is shipped (15,
\* 30 and 90 seconds) while probes and calls take less than a minute.
ASSUME LeaseAssumption == RenewalGap < TTL

TypeOK ==
  /\ running \subseteq Hosts
  /\ up \in BOOLEAN
  /\ age \in [Agents -> 0..Old]
  /\ {owner, registry} \subseteq [Allowed -> Owners]
  /\ sweep \in [left : 1..Cleanup, due : BOOLEAN, ok : BOOLEAN]
  /\ pc \in {"down", "scan", "put", "heartbeat", "backoff", "refresh",
             "select", "sleep"} \union Silent
  /\ left \in 0..Max({MaxBusy, MaxBackoff, MaxReconnect})
  /\ {found, proxy} \subseteq SUBSET Hosts
  /\ timer \in [hb : 0..Heartbeat, hbDue : BOOLEAN,
                per : 0..Periodic, perDue : BOOLEAN]
  /\ stream \in {"open", "closed"}
  /\ {event, healthy} \subseteq BOOLEAN
  /\ steady \subseteq Rivals
  /\ rivalHosts \in [Rivals -> SUBSET Allowed]
  /\ changes \in 0..MaxChanges
  /\ faults \in 0..MaxFaults

Init ==
  /\ running = Allowed
  /\ up = TRUE
  /\ age = [a \in Agents |-> Old]
  /\ owner = [h \in Allowed |-> NoAgent]
  /\ registry = [h \in Allowed |-> NoAgent]
  /\ sweep = [left |-> Cleanup, due |-> TRUE, ok |-> TRUE]
  /\ pc = "down"
  /\ left = 0
  /\ found = {}
  /\ proxy = {}
  /\ timer = NoTimers
  /\ stream = "open"
  /\ event = FALSE
  /\ healthy = FALSE
  /\ steady = {}
  /\ rivalHosts = [r \in Rivals |-> Allowed]
  /\ changes = 0
  /\ faults = 0

Fault == faults < MaxFaults /\ faults' = faults + 1 /\ UNCHANGED changes
Change == changes < MaxChanges /\ changes' = changes + 1 /\ UNCHANGED faults

-----------------------------------------------------------------------------
(* The controller.                                                         *)

Alive(ages, a) == a \in Agents /\ ages[a] < TTL

\* active_dns_routes and replace.
refresh_dns(owners, ages) ==
  [h \in Allowed |-> IF Alive(ages, owners[h]) THEN owners[h] ELSE NoAgent]

\* Mutant of RoutesAfterPut: what is no longer listed is kept.
PutKeepsUnlisted(a, desired) ==
  [h \in Allowed |->
     IF h \in desired /\ (owner[h] = a \/ ~Alive(age, owner[h])) THEN a
     ELSE owner[h]]

\* Mutant of RoutesAfterPut: the lease of the owner is not looked at.
PutTakesLive(a, desired) ==
  [h \in Allowed |-> IF h \in desired THEN a
                     ELSE IF owner[h] = a THEN NoAgent ELSE owner[h]]

\* The transaction of put_routes.
RoutesAfterPut(a, desired) ==
  [h \in Allowed |->
     IF h \in desired
     THEN IF owner[h] # a /\ Alive(age, owner[h]) THEN owner[h] ELSE a
     ELSE IF owner[h] = a THEN NoAgent ELSE owner[h]]

PurgedAt(limit) ==
  [h \in Allowed |-> IF owner[h] \in Agents /\ age[owner[h]] > limit
                     THEN NoAgent ELSE owner[h]]

\* Mutant of RoutesAfterPurge: a lease ends a period of the heartbeat early.
PurgeEarly == PurgedAt(TTL - Heartbeat)

\* purge_expired_agents: last seen before now - ttl.
RoutesAfterPurge == PurgedAt(TTL)

\* The handlers of a PUT and of a heartbeat.
PutApplied(a, desired) ==
  /\ up
  /\ owner' = RoutesAfterPut(a, desired)
  /\ registry' = refresh_dns(owner', age)
  /\ UNCHANGED age

HeartbeatApplied(a) ==
  /\ up
  /\ age' = [age EXCEPT ![a] = 0]
  /\ registry' = refresh_dns(owner, age')
  /\ UNCHANGED owner

\* Mutant of cleanup: a round ends with the purge.
CleanupWithoutRefresh ==
  /\ up
  /\ sweep.due
  /\ owner' = RoutesAfterPurge
  /\ sweep' = [sweep EXCEPT !.due = FALSE]
  /\ UNCHANGED <<running, up, age, registry, loop, others, bounds>>

\* A round of the cleanup task; each of its halves may fail and is logged.
cleanup ==
  /\ up
  /\ sweep.due
  /\ \/ /\ owner' = RoutesAfterPurge
        /\ registry' = refresh_dns(owner', age)
        /\ sweep' = [sweep EXCEPT !.due = FALSE, !.ok = TRUE]
        /\ UNCHANGED bounds
     \/ /\ Fault
        /\ owner' = RoutesAfterPurge
        /\ sweep' = [sweep EXCEPT !.due = FALSE, !.ok = FALSE]
        /\ UNCHANGED registry
     \/ /\ Fault
        /\ registry' = refresh_dns(owner, age)
        /\ sweep' = [sweep EXCEPT !.due = FALSE, !.ok = TRUE]
        /\ UNCHANGED owner
  /\ UNCHANGED <<running, up, age, loop, others>>

\* The registry is lost with the process, and no agent is healthy any more.
ControllerCrash ==
  /\ up
  /\ Fault
  /\ up' = FALSE
  /\ registry' = [h \in Allowed |-> NoAgent]
  /\ steady' = {}
  /\ healthy' = FALSE
  /\ UNCHANGED <<running, sweep, age, owner, pc, left, found, proxy, timer,
                 stream, event, rivalHosts>>

\* Boot fills the registry from the tables, or logs that it could not.
boot ==
  /\ ~up
  /\ up' = TRUE
  /\ sweep' = [left |-> Cleanup, due |-> TRUE, ok |-> TRUE]
  /\ \/ registry' = refresh_dns(owner, age) /\ UNCHANGED bounds
     \/ Fault /\ UNCHANGED registry
  /\ UNCHANGED <<running, age, owner, loop, others>>

-----------------------------------------------------------------------------
(* The agent's task: reconcile_with_backoff.                               *)

At(step) == pc = step /\ left = 0
Goto(step, time) == pc' = step /\ left' = time

\* The times of waits.  Each dead backend costs five tries of two seconds and
\* the delays between them, one backend after the other; MaxBusy bounds their
\* sum and the calls'.  A backoff starts at half a second and doubles, the
\* pause before a new event stream starts at one second and doubles.
ProbeTimes == 0..MaxBusy
BackoffTimes == 0..MaxBackoff
ReconnectTimes == 1..MaxReconnect

\* The listing, the probes that follow it and the calls before the PUT, whose
\* failure is ignored; with the listing failed the reconcile goes to its
\* backoff.
Begin ==
  /\ \/ /\ \E time \in ProbeTimes : Goto("scan", time)
        /\ found' = running
        /\ UNCHANGED <<healthy, bounds>>
     \/ /\ Fault
        /\ Goto("scan_silent", 0)
        /\ found' = running
        /\ healthy' = FALSE
     \/ /\ Fault
        /\ \E time \in BackoffTimes : Goto("backoff", time)
        /\ healthy' = FALSE
        /\ UNCHANGED found
  /\ UNCHANGED <<running, controller, tables, proxy, others>>

\* Back in loop_forever, which first makes the intervals; their first ticks
\* are immediate.
Return ==
  /\ IF stream = "closed"
     THEN \E time \in ReconnectTimes : Goto("sleep", time)
     ELSE Goto("select", 0)
  /\ found' = {}
  /\ timer' = IF timer # NoTimers THEN timer
              ELSE [hb |-> Heartbeat, hbDue |-> TRUE,
                    per |-> Periodic, perDue |-> TRUE]
  /\ UNCHANGED <<stream, event>>

start ==
  /\ pc = "down"
  /\ Begin
  /\ UNCHANGED <<timer, stream, event>>

\* The proxy first, then the PUT.
routes_replace ==
  /\ At("scan")
  /\ proxy' = found
  /\ Goto("put", 0)
  /\ UNCHANGED <<running, controller, tables, found, timer, stream, event,
                 healthy, others, bounds>>

\* One hostname outside the policy refuses the whole PUT.
Refused == ~(found \subseteq Allowed)

\* A call fails at once, or after it has been applied, or is never answered.
put_routes ==
  /\ At("put")
  /\ \/ /\ ~Refused
        /\ PutApplied(Self, found)
        /\ Goto("heartbeat", 0)
        /\ UNCHANGED <<healthy, bounds>>
     \/ /\ \/ (~up \/ Refused) /\ UNCHANGED <<tables, bounds>>
           \/ Fault /\ UNCHANGED tables
           \/ Fault /\ ~Refused /\ PutApplied(Self, found)
        /\ \E time \in BackoffTimes : Goto("backoff", time)
        /\ healthy' = FALSE
     \/ /\ Fault
        /\ UNCHANGED tables \/ (~Refused /\ PutApplied(Self, found))
        /\ Goto("put_silent", 0)
        /\ healthy' = FALSE
  /\ UNCHANGED <<running, controller, found, proxy, timer, stream, event, others>>

\* A heartbeat renews the lease or fails; or it is never answered, and the
\* task stays where it is.
Beat ==
  \/ HeartbeatApplied(Self) /\ healthy' = TRUE /\ UNCHANGED bounds
  \/ ~up /\ healthy' = FALSE /\ UNCHANGED <<tables, bounds>>
  \/ Fault /\ healthy' = FALSE /\ UNCHANGED tables

BeatUnanswered(step) ==
  /\ Fault
  /\ UNCHANGED tables \/ HeartbeatApplied(Self)
  /\ healthy' = FALSE
  /\ Goto(step, 0)

\* Mutant of heartbeat: reconcile_once leaves it to the interval.
NoHeartbeatAfterPut ==
  /\ At("heartbeat")
  /\ Return
  /\ UNCHANGED <<running, controller, tables, healthy, proxy, others, bounds>>

\* The heartbeat at the end of reconcile_once, whose failure is ignored.
heartbeat ==
  /\ At("heartbeat")
  /\ \/ Beat /\ Return
     \/ BeatUnanswered("heartbeat_silent") /\ UNCHANGED <<found, timer, stream, event>>
  /\ UNCHANGED <<running, controller, proxy, others>>

\* After the backoff the proxy gets a listing of its own, probed again.
refresh_local_routes ==
  /\ At("backoff")
  /\ \/ /\ \E time \in ProbeTimes : Goto("refresh", time)
        /\ found' = running
        /\ UNCHANGED <<timer, stream, event, bounds>>
     \/ Fault /\ Return
  /\ UNCHANGED <<running, controller, tables, proxy, healthy, others>>

refresh_local_replace ==
  /\ At("refresh")
  /\ proxy' = found
  /\ Return
  /\ UNCHANGED <<running, controller, tables, healthy, others, bounds>>

\* TCP gives up a connection on which nothing is heard: the call fails.
connection_fails ==
  /\ \/ /\ pc = "scan_silent"
        /\ \E time \in ProbeTimes : Goto("scan", time)
        /\ UNCHANGED <<found, timer, stream, event>>
     \/ /\ pc = "put_silent"
        /\ \E time \in BackoffTimes : Goto("backoff", time)
        /\ UNCHANGED <<found, timer, stream, event>>
     \/ pc = "heartbeat_silent" /\ Return
     \/ /\ pc = "tick_silent"
        /\ Goto("select", 0)
        /\ UNCHANGED <<found, timer, stream, event>>
  /\ UNCHANGED <<running, controller, tables, proxy, healthy, others, bounds>>

-----------------------------------------------------------------------------
(* loop_forever: of the branches that are ready, select takes any.         *)

\* heartbeat_only.
hb_tick ==
  /\ At("select")
  /\ timer.hbDue
  /\ timer' = [timer EXCEPT !.hbDue = FALSE]
  /\ \/ Beat /\ UNCHANGED <<pc, left>>
     \/ BeatUnanswered("tick_silent")
  /\ UNCHANGED <<running, controller, found, proxy, stream, event, others>>

periodic_tick ==
  /\ At("select")
  /\ timer.perDue
  /\ timer' = [timer EXCEPT !.perDue = FALSE]
  /\ Begin
  /\ UNCHANGED <<stream, event>>

\* An event and its debounce, which is short against all else.
debounce_elapsed ==
  /\ At("select")
  /\ event
  /\ event' = FALSE
  /\ Begin
  /\ UNCHANGED <<timer, stream>>

\* The event stream ends: a full rescan, then a pause, then a new stream.
stream_ends ==
  /\ At("select")
  /\ stream' = "closed"
  /\ event' = FALSE
  /\ Begin
  /\ UNCHANGED timer

reconnect ==
  /\ At("sleep")
  /\ stream' = "open"
  /\ Goto("select", 0)
  /\ UNCHANGED <<running, controller, tables, found, proxy, timer, event,
                 healthy, others, bounds>>

AgentCrash ==
  /\ pc # "down"
  /\ Fault
  /\ Goto("down", 0)
  /\ found' = {} /\ proxy' = {}
  /\ timer' = NoTimers
  /\ stream' = "open" /\ event' = FALSE
  /\ healthy' = FALSE
  /\ UNCHANGED <<running, controller, tables, others>>

-----------------------------------------------------------------------------
(* The other agents.                                                       *)

\* A steady rival publishes what runs on its node; others may as well, at any
\* time and whatever their lease.
rival_put(r) ==
  /\ IF r \in steady THEN UNCHANGED bounds ELSE Fault
  /\ PutApplied(r, rivalHosts[r])
  /\ owner' # owner
  /\ UNCHANGED <<running, controller, loop, others>>

\* A heartbeat, which makes a rival steady; those of a steady one are taken
\* together, so that its age is 0.
rival_heartbeat(r) ==
  /\ HeartbeatApplied(r)
  /\ r \notin steady \/ registry' # registry
  /\ steady' = steady \union {r}
  /\ UNCHANGED <<running, controller, loop, rivalHosts, bounds>>

rival_fails(r) ==
  /\ r \in steady
  /\ Fault
  /\ steady' = steady \ {r}
  /\ \E time \in 0..RenewalGap : age' = [age EXCEPT ![r] = time]
  /\ UNCHANGED <<running, controller, owner, registry, loop, rivalHosts>>

-----------------------------------------------------------------------------
(* The world.                                                              *)

Toggle(S, h) == IF h \in S THEN S \ {h} ELSE S \union {h}

\* A container starts or stops; only an open stream tells, and there is none
\* before the first reconcile is over.
DockerChanges(h) ==
  /\ Change
  /\ running' = Toggle(running, h)
  /\ event' = (timer # NoTimers /\ stream = "open")
  /\ UNCHANGED <<controller, tables, pc, left, found, proxy, timer, stream,
                 healthy, others>>

RivalChanges(r, h) ==
  /\ Change
  /\ rivalHosts' = [rivalHosts EXCEPT ![r] = Toggle(@, h)]
  /\ UNCHANGED <<running, controller, tables, loop, steady>>

\* A program that can go on does so before time passes.
Waiting ==
  \/ pc \in Silent \union {"down"}
  \/ left > 0
  \/ pc = "select" /\ ~timer.hbDue /\ ~timer.perDue /\ ~event

\* A missed tick of the heartbeat is made up for, as is one of the periodic
\* reconcile, which keeps its rhythm (of several missed heartbeats one here).
Advance(t) ==
  IF t = NoTimers THEN t
  ELSE [hb |-> IF t.hb = 1 THEN Heartbeat ELSE t.hb - 1,
        hbDue |-> t.hbDue \/ t.hb = 1,
        per |-> IF t.per = 1 THEN Periodic ELSE t.per - 1,
        perDue |-> t.perDue \/ t.per = 1]

Tick ==
  /\ Waiting
  /\ up => ~sweep.due
  /\ age' = [a \in Agents |-> IF a \in steady THEN 0 ELSE Min({Old, age[a] + 1})]
  /\ left' = Max({0, left - 1})
  /\ timer' = Advance(timer)
  /\ sweep' = IF ~up THEN sweep
              ELSE IF sweep.left = 1
                THEN [sweep EXCEPT !.left = Cleanup, !.due = TRUE]
              ELSE [sweep EXCEPT !.left = @ - 1]
  /\ UNCHANGED <<running, up, owner, registry, pc, found, proxy, stream, event,
                 healthy, others, bounds>>

-----------------------------------------------------------------------------

AgentStep ==
  \/ routes_replace
  \/ put_routes
  \/ heartbeat
  \/ refresh_local_routes
  \/ refresh_local_replace
  \/ hb_tick
  \/ periodic_tick
  \/ debounce_elapsed
  \/ stream_ends
  \/ reconnect

Next ==
  \/ AgentStep
  \/ start
  \/ connection_fails
  \/ AgentCrash
  \/ cleanup
  \/ ControllerCrash
  \/ boot
  \/ \E r \in Rivals :
       \/ rival_put(r)
       \/ rival_heartbeat(r)
       \/ rival_fails(r)
       \/ \E h \in Allowed : RivalChanges(r, h)
  \/ \E h \in Hosts : DockerChanges(h)
  \/ Tick

Spec == Init /\ [][Next]_vars

\* Programs go on, time passes, systemd restarts the controller, TCP gives up
\* in the end, and a steady rival publishes and renews.  An agent that has
\* crashed may stay away.
FairSpec ==
  /\ Spec
  /\ WF_vars(AgentStep)
  /\ WF_vars(Tick)
  /\ WF_vars(cleanup)
  /\ WF_vars(boot)
  /\ WF_vars(connection_fails)
  /\ \A r \in Rivals : /\ WF_vars(r \in steady /\ rival_put(r))
                       /\ WF_vars(r \in steady /\ rival_heartbeat(r))

-----------------------------------------------------------------------------
(* Properties.                                                             *)

\* While nothing has failed since its last heartbeat the agent renews its
\* lease within RenewalGap, although probes, pauses and the heartbeat share one
\* task and select may pass the heartbeat's interval over: each reconcile ends
\* in a heartbeat, so one pause and one reconcile at most lie between two of
\* them (reconcile.rs, loop_forever and reconcile_once).
RenewalBounded == healthy => age[Self] <= RenewalGap

\* Hence, if RenewalGap is below the TTL, a healthy agent loses a hostname only
\* by its own PUT: neither the cleanup task nor another agent takes it.
HealthyOwnerKept ==
  [][\A h \in Allowed :
       healthy /\ owner[h] = Self /\ owner'[h] # Self => pc = "put"]_vars

\* Whatever fails, hostnames pass from agent to agent only as HostnameOwnership
\* allows, with the leases that are alive in time: the promise that module
\* Controller keeps statement by statement (put_routes, purge_expired_agents).
Ownership == INSTANCE HostnameOwnership WITH
  Hosts <- Allowed,
  live <- {a \in Agents : Alive(age, a)}

FleetOwnership == Ownership!Spec

\* DNS forgets an agent that no longer renews its lease within the lease and
\* one round of the cleanup task, as long as its refreshes succeed (main.rs,
\* lease cleanup).
DnsForgetsTheDead ==
  up /\ sweep.ok =>
    \A h \in Allowed :
      registry[h] # NoAgent => age[registry[h]] < TTL + Cleanup

\* Where a healthy agent stands on its way to the next heartbeat: in select
\* or in a pause the periodic reconcile comes in time, or is due; in a
\* reconcile only the probes are left.  A task that waits after a failure is
\* not healthy.
LoopSound ==
  /\ timer # NoTimers => timer.hb > 0 /\ timer.per > 0
  /\ pc \in {"select", "sleep", "tick_silent"} => timer # NoTimers
  /\ pc \in {"select", "put", "heartbeat"} => left = 0
  /\ healthy =>
       /\ pc \in {"scan", "put", "heartbeat", "select", "sleep"}
       /\ pc \in {"scan", "put", "heartbeat"} => age[Self] + left <= RenewalGap
       /\ pc \in {"select", "sleep"} =>
            timer.perDue \/ age[Self] + timer.per <= Periodic
       /\ pc = "select" => age[Self] <= Max({Periodic, MaxReconnect})
       /\ pc = "sleep" => age[Self] + left <= MaxReconnect

\* What DNS says is as old as the last round of the cleanup task at most, and
\* it says nothing while the controller is down.
RegistrySound ==
  /\ ~up => \A h \in Allowed : registry[h] = NoAgent
  /\ up /\ sweep.ok =>
       \A h \in Allowed :
         registry[h] # NoAgent =>
           age[registry[h]] < Old - (IF sweep.due THEN 0 ELSE sweep.left)

\* In every state the loop is on its way to a heartbeat and the registry is as
\* fresh as the cleanup task makes it (loop_forever, lease cleanup).
FleetInv == TypeOK /\ LoopSound /\ RegistrySound

\* The agents that could serve a hostname.
Serving(h) ==
  {r \in steady : h \in rivalHosts[r]}
    \union {a \in {Self} : pc # "down" /\ h \in running}

\* After all failures DNS leads to a node that runs the container, and to no
\* node if there is none; if it is the agent's, its proxy serves the hostname.
\* So the hostnames of a dead agent are taken over, stopped containers are
\* withdrawn, and an agent that lost its lease comes back.  Only a PUT that is
\* refused for ever prevents it (api.rs, put_routes).
Settles ==
  <>[]( (pc # "down" => running \subseteq Allowed)
        => \A h \in Allowed :
             IF Serving(h) = {} THEN registry[h] = NoAgent
             ELSE /\ registry[h] \in Serving(h)
                  /\ registry[h] = Self => h \in proxy)

-----------------------------------------------------------------------------
(* Statements of the documentation that the code does not keep.            *)

\* SPEC-v1.md:647-649, "A hostname is released when: the container stops": in
\* the end, also while another container asks for a hostname the policy
\* forbids.
StoppedIsReleased ==
  <>[](up /\ pc # "down" =>
         \A h \in Allowed : h \notin running => registry[h] # Self)

=============================================================================
