----------------------------- MODULE Controller -----------------------------
(***************************************************************************)
(* The tailsvc controller: the agents and routes tables of the SQLite      *)
(* store, the API handlers that write them, the in-memory DNS registry     *)
(* they refresh, the lease cleanup task, and process crash and restart.    *)
(*                                                                         *)
(* Handlers run concurrently on a multi-threaded runtime.  One SQL         *)
(* statement, or one SQL transaction, is atomic; everything between two    *)
(* awaits of a handler is one step here, and a handler may be abandoned at *)
(* any await, because the statement fails or the client goes away.         *)
(***************************************************************************)
EXTENDS Integers, FiniteSets

CONSTANTS
  Agents,      \* agent ids
  Hosts,       \* normalised hostnames that the hostname policy allows
  Addrs,       \* tailnet IPv4 addresses
  NodeOf,      \* the agent whose node an address belongs to
  Reqs,        \* slots for API requests in flight
  Cleaner,     \* the lease cleanup task
  NoAgent, NoAddr, NoRow,
  TTL,         \* leases.agent_ttl_seconds, in clock units
  MaxTime,     \* bound on the clock
  Horizon,     \* bound on the time at which agents are revoked
  MaxCrashes   \* bound on controller crashes

ASSUME ConstantsAssumption ==
  /\ NodeOf \in [Addrs -> Agents]
  /\ Cleaner \notin Reqs
  /\ NoAgent \notin Agents
  /\ NoAddr \notin Addrs
  /\ TTL \in Nat \ {0}
  /\ MaxTime \in Nat
  /\ Horizon \in Nat
  /\ MaxCrashes \in Nat

VARIABLES
  now,         \* the wall clock
  up,          \* the API and the cleanup task are running
  crashes,
  enrolled,    \* agents: the ids that have a row
  revoked,     \* agents: the ids whose revoked_at is set
  ip,          \* agents.tailscale_ipv4
  lastSeen,    \* agents.last_seen_at
  owner,       \* routes: hostname (primary key) to agent_id
  registry,    \* DnsRegistry: hostname to address
  task         \* handlers in flight and the cleanup task

agentRows == <<enrolled, revoked, ip, lastSeen>>
process == <<up, crashes>>
vars == <<now, process, agentRows, owner, registry, task>>

Tasks == Reqs \union {Cleaner}

AddrsOf(a) == {x \in Addrs : NodeOf[x] = a}

-----------------------------------------------------------------------------
(* A task: its program counter and the locals that live across an await.   *)

Row == [addr : Addrs, seen : Nat]
NoRows == [h \in Hosts |-> NoRow]

PCs == {"idle", "heartbeat", "put_get_agent", "put_tx", "revoke_delete",
        "purge", "select", "replace"}

Task ==
  [pc : PCs,
   agent : Agents \union {NoAgent},
   addr : Addrs \union {NoAddr},         \* heartbeat body
   hosts : SUBSET Hosts,                 \* put_routes body
   stamp : Nat,                          \* Utc::now() read before a statement
   rows : [Hosts -> Row \union {NoRow}]] \* result of active_dns_routes' SELECT

Idle ==
  [pc |-> "idle", agent |-> NoAgent, addr |-> NoAddr, hosts |-> {},
   stamp |-> 0, rows |-> NoRows]

\* What a handler carries from one await to the next.
Heartbeating(a, x, s) ==
  [Idle EXCEPT !.pc = "heartbeat", !.agent = a, !.addr = x, !.stamp = s]
Putting(step, a, desired) ==
  [Idle EXCEPT !.pc = step, !.agent = a, !.hosts = desired]
Revoking(a) == [Idle EXCEPT !.pc = "revoke_delete", !.agent = a]
Purging(s) == [Idle EXCEPT !.pc = "purge", !.stamp = s]
Refreshing == [Idle EXCEPT !.pc = "select"]
Selected(rows) == [Idle EXCEPT !.pc = "replace", !.rows = rows]

Go(t, locals) == task' = [task EXCEPT ![t] = locals]

TypeOK ==
  /\ now \in 0..MaxTime
  /\ up \in BOOLEAN
  /\ crashes \in 0..MaxCrashes
  /\ enrolled \subseteq Agents
  /\ revoked \subseteq enrolled
  /\ ip \in [Agents -> Addrs \union {NoAddr}]
  /\ lastSeen \in [Agents -> Nat]
  /\ owner \in [Hosts -> Agents \union {NoAgent}]
  /\ registry \in [Hosts -> Addrs \union {NoAddr}]
  /\ task \in [Tasks -> Task]

Init ==
  /\ now = 0
  /\ up = FALSE
  /\ crashes = 0
  /\ enrolled = {}
  /\ revoked = {}
  /\ ip = [a \in Agents |-> NoAddr]
  /\ lastSeen = [a \in Agents |-> 0]
  /\ owner = [h \in Hosts |-> NoAgent]
  /\ registry = [h \in Hosts |-> NoAddr]
  /\ task = [t \in Tasks |-> Idle]

-----------------------------------------------------------------------------
(* Storage: what each statement reads or leaves behind.                    *)

\* A lease seen at time s is alive while now - s < ttl.
Alive(s) == now - s < TTL

\* Mutant of SelectRows: revoked agents are selected too.
SelectRowsOfAll ==
  [h \in Hosts |->
     IF owner[h] # NoAgent
     THEN [addr |-> ip[owner[h]], seen |-> lastSeen[owner[h]]]
     ELSE NoRow]

\* The SELECT of active_dns_routes: routes of agents that are not revoked.
SelectRows ==
  [h \in Hosts |->
     IF owner[h] # NoAgent /\ owner[h] \notin revoked
     THEN [addr |-> ip[owner[h]], seen |-> lastSeen[owner[h]]]
     ELSE NoRow]

\* The rest of active_dns_routes and refresh_dns: rows whose lease is alive.
ActiveDnsRoutes(rows) ==
  [h \in Hosts |->
     IF rows[h] # NoRow /\ Alive(rows[h].seen) THEN rows[h].addr ELSE NoAddr]

\* Mutant of Conflicts: the requester's lease instead of the owner's.
ConflictsByRequester(a, h) ==
  owner[h] \notin {a, NoAgent} /\ Alive(lastSeen[a])

\* A PUT entry is refused only while another agent with a live lease owns it.
Conflicts(a, h) ==
  owner[h] \notin {a, NoAgent} /\ Alive(lastSeen[owner[h]])

\* The transaction of put_routes: upsert the entries that do not conflict,
\* then delete what the agent owns and did not list.
RoutesAfterPut(a, desired) ==
  [h \in Hosts |->
     IF h \in desired
     THEN IF Conflicts(a, h) THEN owner[h] ELSE a
     ELSE IF owner[h] = a THEN NoAgent ELSE owner[h]]

\* Mutant of RoutesAfterPurge: only agents that are not revoked.
PurgeSkipsRevoked(cutoff) ==
  [h \in Hosts |->
     IF owner[h] \notin revoked \union {NoAgent} /\ lastSeen[owner[h]] < cutoff
     THEN NoAgent ELSE owner[h]]

\* The DELETE of purge_expired_agents: every route of an agent last seen
\* before the cutoff, revoked or not.
RoutesAfterPurge(cutoff) ==
  [h \in Hosts |->
     IF owner[h] # NoAgent /\ lastSeen[owner[h]] < cutoff
     THEN NoAgent ELSE owner[h]]

-----------------------------------------------------------------------------
(* API handlers.  A request starts in an idle slot of a running controller.*)

Accept(q) == up /\ task[q].pc = "idle"

\* Mutant of enroll_agent: the end of the lease is stored as last_seen_at.
EnrollStampsExpiry(a, x) ==
  /\ up
  /\ a \notin enrolled
  /\ enrolled' = enrolled \union {a}
  /\ ip' = [ip EXCEPT ![a] = x]
  /\ lastSeen' = [lastSeen EXCEPT ![a] = now + TTL]
  /\ UNCHANGED <<now, process, revoked, owner, registry, task>>

\* The INSERT of enroll_agent (the tokens are in module Enrollment).
enroll_agent(a, x) ==
  /\ up
  /\ a \notin enrolled
  /\ enrolled' = enrolled \union {a}
  /\ ip' = [ip EXCEPT ![a] = x]
  /\ lastSeen' = [lastSeen EXCEPT ![a] = now]
  /\ UNCHANGED <<now, process, revoked, owner, registry, task>>

\* verify_agent_token answers Ok.  Its other answers end the request.
Verified(a) == a \in enrolled \ revoked

\* heartbeat: verify_agent_token, then last_seen_at is read from the clock.
heartbeat(q, a, x) ==
  /\ Accept(q)
  /\ Verified(a)
  /\ Go(q, Heartbeating(a, x, now))
  /\ UNCHANGED <<now, process, agentRows, owner, registry>>

\* Mutant of heartbeat_update: WHERE without "revoked_at IS NULL".
HeartbeatUpdateUnchecked(q) ==
  LET a == task[q].agent IN
  /\ task[q].pc = "heartbeat"
  /\ lastSeen' = [lastSeen EXCEPT ![a] = task[q].stamp]
  /\ ip' = [ip EXCEPT ![a] = task[q].addr]
  /\ Go(q, Refreshing)
  /\ UNCHANGED <<now, process, enrolled, revoked, owner, registry>>

\* The UPDATE of heartbeat: no row matches once the agent is revoked, and
\* the handler then answers NotFound without a refresh.
heartbeat_update(q) ==
  LET a == task[q].agent IN
  /\ task[q].pc = "heartbeat"
  /\ \/ /\ a \notin revoked
        /\ lastSeen' = [lastSeen EXCEPT ![a] = task[q].stamp]
        /\ ip' = [ip EXCEPT ![a] = task[q].addr]
        /\ Go(q, Refreshing)
     \/ /\ a \in revoked
        /\ Go(q, Idle)
        /\ UNCHANGED <<lastSeen, ip>>
  /\ UNCHANGED <<now, process, enrolled, revoked, owner, registry>>

\* put_routes: verify_agent_token and the hostname policy.
put_routes(q, a, desired) ==
  /\ Accept(q)
  /\ Verified(a)
  /\ Go(q, Putting("put_get_agent", a, desired))
  /\ UNCHANGED <<now, process, agentRows, owner, registry>>

\* get_agent, outside the transaction: NotFound once the agent is revoked.
put_routes_get_agent(q) ==
  /\ task[q].pc = "put_get_agent"
  /\ Go(q, IF task[q].agent \in revoked
           THEN Idle ELSE Putting("put_tx", task[q].agent, task[q].hosts))
  /\ UNCHANGED <<now, process, agentRows, owner, registry>>

put_routes_tx(q) ==
  /\ task[q].pc = "put_tx"
  /\ owner' = RoutesAfterPut(task[q].agent, task[q].hosts)
  /\ Go(q, Refreshing)
  /\ UNCHANGED <<now, process, agentRows, registry>>

admin_delete_route(q, h) ==
  /\ Accept(q)
  /\ owner' = [owner EXCEPT ![h] = NoAgent]
  /\ Go(q, Refreshing)
  /\ UNCHANGED <<now, process, agentRows, registry>>

\* revoke_agent is two statements and no transaction: this is the UPDATE,
\* which matches no row for an unknown id.
admin_revoke_agent(q, a) ==
  /\ Accept(q)
  /\ now <= Horizon
  /\ revoked' = revoked \union ({a} \intersect enrolled)
  /\ Go(q, Revoking(a))
  /\ UNCHANGED <<now, process, enrolled, ip, lastSeen, owner, registry>>

\* ... and this the DELETE.
revoke_agent_delete(q) ==
  /\ task[q].pc = "revoke_delete"
  /\ owner' = [h \in Hosts |->
                 IF owner[h] = task[q].agent THEN NoAgent ELSE owner[h]]
  /\ Go(q, Refreshing)
  /\ UNCHANGED <<now, process, agentRows, registry>>

\* refresh_dns, shared by every handler and the cleanup task: a SELECT, and
\* later, whatever has happened in between, a replace of the whole registry.
refresh_dns_select(t) ==
  /\ task[t].pc = "select"
  /\ Go(t, Selected(SelectRows))
  /\ UNCHANGED <<now, process, agentRows, owner, registry>>

\* Mutant of refresh_dns_replace: merges the rows into the registry.
RefreshMerges(t) ==
  /\ task[t].pc = "replace"
  /\ registry' = LET fresh == ActiveDnsRoutes(task[t].rows) IN
                 [h \in Hosts |-> IF fresh[h] # NoAddr
                                  THEN fresh[h] ELSE registry[h]]
  /\ Go(t, Idle)
  /\ UNCHANGED <<now, process, agentRows, owner>>

refresh_dns_replace(t) ==
  /\ task[t].pc = "replace"
  /\ registry' = ActiveDnsRoutes(task[t].rows)
  /\ Go(t, Idle)
  /\ UNCHANGED <<now, process, agentRows, owner>>

\* A request dies at an await: its statement fails (a transaction rolls
\* back), or the client disconnects and the handler is dropped.
Abort(q) ==
  /\ task[q].pc # "idle"
  /\ Go(q, Idle)
  /\ UNCHANGED <<now, process, agentRows, owner, registry>>

-----------------------------------------------------------------------------
(* The lease cleanup task: purge_expired_agents, then refresh.             *)

cleanup_tick ==
  /\ up
  /\ task[Cleaner].pc = "idle"
  /\ Go(Cleaner, Purging(now))
  /\ UNCHANGED <<now, process, agentRows, owner, registry>>

\* Mutant of cleanup_purge: the TTL is added to the time of the tick.
PurgeAhead ==
  /\ task[Cleaner].pc = "purge"
  /\ \/ owner' = RoutesAfterPurge(task[Cleaner].stamp + TTL)
     \/ UNCHANGED owner
  /\ Go(Cleaner, Refreshing)
  /\ UNCHANGED <<now, process, agentRows, registry>>

\* Mutant of cleanup_purge: no refresh after the purge.
PurgeWithoutRefresh ==
  /\ task[Cleaner].pc = "purge"
  /\ \/ owner' = RoutesAfterPurge(task[Cleaner].stamp - TTL)
     \/ UNCHANGED owner
  /\ Go(Cleaner, Idle)
  /\ UNCHANGED <<now, process, agentRows, registry>>

\* A failed purge is logged and the refresh runs all the same.
cleanup_purge ==
  /\ task[Cleaner].pc = "purge"
  /\ \/ owner' = RoutesAfterPurge(task[Cleaner].stamp - TTL)
     \/ UNCHANGED owner
  /\ Go(Cleaner, Refreshing)
  /\ UNCHANGED <<now, process, agentRows, registry>>

\* A failed refresh is logged and the task waits for its next tick.
cleanup_refresh_fails ==
  /\ task[Cleaner].pc \in {"select", "replace"}
  /\ Go(Cleaner, Idle)
  /\ UNCHANGED <<now, process, agentRows, owner, registry>>

-----------------------------------------------------------------------------
(* The process and the clock.                                              *)

\* Boot: the registry is refreshed before the API, the cleanup task or the
\* DNS server starts.  A failed refresh is not fatal.
boot ==
  /\ ~up
  /\ up' = TRUE
  /\ \/ registry' = ActiveDnsRoutes(SelectRows)
     \/ UNCHANGED registry
  /\ UNCHANGED <<now, crashes, agentRows, owner, task>>

\* Only the tables survive a crash.
Crash ==
  /\ up
  /\ crashes < MaxCrashes
  /\ up' = FALSE
  /\ crashes' = crashes + 1
  /\ registry' = [h \in Hosts |-> NoAddr]
  /\ task' = [t \in Tasks |-> Idle]
  /\ UNCHANGED <<now, agentRows, owner>>

Tick ==
  /\ now < MaxTime
  /\ now' = now + 1
  /\ UNCHANGED <<process, agentRows, owner, registry, task>>

-----------------------------------------------------------------------------

RequestBegin(q) ==
  \/ \E a \in Agents : \E x \in AddrsOf(a) : heartbeat(q, a, x)
  \/ \E a \in Agents, desired \in SUBSET Hosts : put_routes(q, a, desired)
  \/ \E h \in Hosts : admin_delete_route(q, h)
  \/ \E a \in Agents : admin_revoke_agent(q, a)

RequestStep(q) ==
  \/ heartbeat_update(q)
  \/ put_routes_get_agent(q)
  \/ put_routes_tx(q)
  \/ revoke_agent_delete(q)
  \/ refresh_dns_select(q)
  \/ refresh_dns_replace(q)

CleanerStep ==
  \/ cleanup_tick
  \/ cleanup_purge
  \/ refresh_dns_select(Cleaner)
  \/ refresh_dns_replace(Cleaner)

Next ==
  \/ \E a \in Agents : \E x \in AddrsOf(a) : enroll_agent(a, x)
  \/ \E q \in Reqs : RequestBegin(q) \/ RequestStep(q) \/ Abort(q)
  \/ CleanerStep
  \/ cleanup_refresh_fails
  \/ boot
  \/ Crash
  \/ Tick

Spec == Init /\ [][Next]_vars

\* An accepted request runs to its end, the clock advances, the process is
\* restarted (Restart=always) and the cleanup task keeps running.  The
\* statements of its refresh may fail, but not for ever: strong fairness.
Fairness ==
  /\ \A q \in Reqs : WF_vars(RequestStep(q))
  /\ WF_vars(cleanup_tick)
  /\ SF_vars(task[Cleaner].pc = "purge"
             /\ cleanup_purge
             /\ owner' = RoutesAfterPurge(task[Cleaner].stamp - TTL))
  /\ SF_vars(refresh_dns_select(Cleaner))
  /\ SF_vars(refresh_dns_replace(Cleaner))
  /\ WF_vars(boot)
  /\ WF_vars(Tick)

FairSpec == Spec /\ Fairness

-----------------------------------------------------------------------------
(* Safety.                                                                 *)

\* A handler past verify_agent_token acts for an enrolled agent, stamps are
\* not ahead of the clock, and a slot without a request holds nothing.
TaskOK(l) ==
  /\ l.stamp <= now
  /\ l.pc \in {"heartbeat", "put_get_agent", "put_tx"} => l.agent \in enrolled
  /\ l.pc = "heartbeat" => l.addr \in AddrsOf(l.agent)
  /\ l.pc = "idle" => l = Idle

\* The inductive invariant behind the properties below.  The tables agree: a
\* route belongs to an enrolled agent, an agent's address is its own, and no
\* lease was renewed in the future; and every handler in flight is sound.
ControllerInv ==
  /\ TypeOK
  /\ \A h \in Hosts : owner[h] # NoAgent => owner[h] \in enrolled
  /\ \A a \in enrolled : ip[a] \in AddrsOf(a)
  /\ \A a \in Agents : lastSeen[a] <= now
  /\ \A t \in Tasks : TaskOK(task[t])

\* A hostname whose owner's lease is alive is not taken from it: not by
\* another agent's PUT, and not by the cleanup task.  It is only given up,
\* to nobody, by the owner's own PUT or by an administrator's request.
LiveOwnerKept ==
  [][\A h \in Hosts :
       /\ owner[h] # NoAgent
       /\ Alive(lastSeen[owner[h]])
       /\ owner'[h] # owner[h]
       => /\ owner'[h] = NoAgent
          /\ \E q \in Reqs :
               /\ task'[q] # task[q]
               /\ task[q].agent \in {owner[h], NoAgent}]_vars

\* A heartbeat that was verified before the agent was revoked does not renew
\* the lease, or move the address, of a revoked agent.
RevokedLeaseFrozen ==
  [][\A a \in revoked : lastSeen'[a] = lastSeen[a] /\ ip'[a] = ip[a]]_vars

\* No address of a is in the registry or in the rows a refresh has selected.
OutOfDns(a) ==
  /\ \A h \in Hosts : registry[h] \notin AddrsOf(a)
  /\ \A t \in Tasks, h \in Hosts :
       task[t].rows[h] # NoRow => task[t].rows[h].addr \notin AddrsOf(a)

\* Once a revoked agent is out of the registry and of every refresh in
\* flight it never comes back, although a PUT in flight when it was revoked
\* may still insert routes for it.
RevokedStaysOut ==
  [][\A a \in revoked : OutOfDns(a) => OutOfDns(a)']_vars

\* The promise of hostname ownership (see HostnameOwnership).
Ownership == INSTANCE HostnameOwnership WITH
  live <- {a \in enrolled : Alive(lastSeen[a])}

OwnershipSpec == Ownership!Spec

-----------------------------------------------------------------------------
(* Liveness, under Fairness.                                               *)

\* Whatever refreshes are in flight when an agent is revoked, its addresses
\* leave the registry for good.
RevokedLeavesDns ==
  \A a \in Agents : a \in revoked ~> []OutOfDns(a)

\* A revoked agent ends up owning nothing, also when a PUT in flight beats
\* the DELETE of revoke_agent, or the controller dies between the UPDATE and
\* the DELETE: its lease runs out and the cleanup task purges its routes.
RevokedReleasesHosts ==
  \A a \in Agents : a \in revoked ~> [](\A h \in Hosts : owner[h] # a)

\* What a refresh that ran now without interruption would publish.
CurrentDns == ActiveDnsRoutes(SelectRows)

\* A refresh may overwrite the registry with an older view than the one it
\* holds.  Still, when the answer for a hostname settles in the tables, the
\* registry settles on it.
RegistryConverges ==
  \A h \in Hosts, x \in Addrs \union {NoAddr} :
    <>[](CurrentDns[h] = x) => <>[](registry[h] = x)

-----------------------------------------------------------------------------
(* Statements of the documentation that the code does not keep.            *)

\* SPEC-v1.md:647-654, "A hostname is released when: [...] an administrator
\* forcibly revokes it": an agent that is revoked gets no hostname any more.
RevokedClaimsNothing ==
  [][\A h \in Hosts : owner'[h] # owner[h] => owner'[h] \notin revoked]_vars

\* SPEC-v1.md:915, "Expired Agents are excluded from DNS immediately."
ExpiredExcludedFromDns ==
  \A h \in Hosts :
    registry[h] # NoAddr => Alive(lastSeen[NodeOf[registry[h]]])

\* SPEC-v1.md:913, "Every successful heartbeat renews the Agent lease.": no
\* heartbeat makes a lease end earlier than it would have.
LeaseNeverShortened ==
  [][\A a \in enrolled : lastSeen'[a] >= lastSeen[a]]_vars

=============================================================================
