-------------------------- MODULE ControllerProofs --------------------------
(***************************************************************************)
(* Proofs about Controller, for any agents, hostnames, addresses, requests *)
(* in flight, lease time and bounds.                                       *)
(***************************************************************************)
EXTENDS Controller, TLAPS

-----------------------------------------------------------------------------
(* Facts about the operators.                                              *)

\* What a handler carries from one await to the next is typed and sound.
LEMMA IdleFacts ==
  /\ Idle \in Task
  /\ Idle.pc = "idle"
  /\ Idle.agent = NoAgent
  /\ Idle.stamp = 0
  /\ Idle.rows = NoRows
BY DEF Idle, Task, NoRows, PCs

\* A handler about to run the UPDATE of heartbeat.
LEMMA HeartbeatingFacts ==
  ASSUME NEW a \in Agents, NEW x \in Addrs, NEW s \in Nat
  PROVE  LET l == Heartbeating(a, x, s) IN
         /\ l \in Task
         /\ l.pc = "heartbeat"
         /\ l.agent = a
         /\ l.addr = x
         /\ l.stamp = s
         /\ l.rows = NoRows
BY IdleFacts DEF Heartbeating, Task, PCs

\* A handler of put_routes before its check, and before its transaction.
LEMMA PuttingFacts ==
  ASSUME NEW step \in {"put_get_agent", "put_tx"},
         NEW a \in Agents, NEW desired \in SUBSET Hosts
  PROVE  LET l == Putting(step, a, desired) IN
         /\ l \in Task
         /\ l.pc = step
         /\ l.agent = a
         /\ l.hosts = desired
         /\ l.stamp = 0
         /\ l.rows = NoRows
BY IdleFacts DEF Putting, Task, PCs

\* A handler of revoke before its DELETE.
LEMMA RevokingFacts ==
  ASSUME NEW a \in Agents
  PROVE  LET l == Revoking(a) IN
         /\ l \in Task
         /\ l.pc = "revoke_delete"
         /\ l.agent = a
         /\ l.stamp = 0
         /\ l.rows = NoRows
BY IdleFacts DEF Revoking, Task, PCs

\* The cleanup task before its DELETE, with the time it read.
LEMMA PurgingFacts ==
  ASSUME NEW s \in Nat
  PROVE  LET l == Purging(s) IN
         /\ l \in Task
         /\ l.pc = "purge"
         /\ l.stamp = s
         /\ l.rows = NoRows
BY IdleFacts DEF Purging, Task, PCs

\* A task before the SELECT of refresh_dns.
LEMMA RefreshingFacts ==
  /\ Refreshing \in Task
  /\ Refreshing.pc = "select"
  /\ Refreshing.stamp = 0
  /\ Refreshing.rows = NoRows
BY IdleFacts DEF Refreshing, Task, PCs

\* A task that holds the rows of its SELECT and has not replaced the registry.
LEMMA SelectedFacts ==
  ASSUME NEW rows \in [Hosts -> Row \union {NoRow}]
  PROVE  LET l == Selected(rows) IN
         /\ l \in Task
         /\ l.pc = "replace"
         /\ l.stamp = 0
         /\ l.rows = rows
BY IdleFacts DEF Selected, Task, PCs

\* What the SELECT of active_dns_routes returns is typed, and a row carries
\* the address of an agent that is not revoked.
LEMMA SelectRowsFacts ==
  ASSUME ControllerInv
  PROVE  /\ SelectRows \in [Hosts -> Row \union {NoRow}]
         /\ \A h \in Hosts :
              SelectRows[h] # NoRow =>
                /\ SelectRows[h] \in Row
                /\ NodeOf[SelectRows[h].addr] \notin revoked
<1>1. ASSUME NEW h \in Hosts, owner[h] # NoAgent, owner[h] \notin revoked
      PROVE  /\ [addr |-> ip[owner[h]], seen |-> lastSeen[owner[h]]] \in Row
             /\ NodeOf[ip[owner[h]]] \notin revoked
  BY <1>1 DEF ControllerInv, TypeOK, Row, AddrsOf
<1> QED
  BY <1>1 DEF SelectRows

\* What a refresh stores is typed.
LEMMA ActiveDnsRoutesType ==
  ASSUME NEW rows \in [Hosts -> Row \union {NoRow}]
  PROVE  ActiveDnsRoutes(rows) \in [Hosts -> Addrs \union {NoAddr}]
BY DEF ActiveDnsRoutes, Row

\* The routes left by a PUT and by a purge are typed and belong to agents
\* that owned them before, or to the agent that sent the PUT.
LEMMA RoutesAfterPutFacts ==
  ASSUME owner \in [Hosts -> Agents \union {NoAgent}],
         NEW a \in Agents, NEW desired \in SUBSET Hosts
  PROVE  /\ RoutesAfterPut(a, desired) \in [Hosts -> Agents \union {NoAgent}]
         /\ \A h \in Hosts :
              RoutesAfterPut(a, desired)[h] \in {a, NoAgent, owner[h]}
BY DEF RoutesAfterPut

\* A purge gives no hostname to anyone.
LEMMA RoutesAfterPurgeFacts ==
  ASSUME owner \in [Hosts -> Agents \union {NoAgent}], NEW cutoff
  PROVE  /\ RoutesAfterPurge(cutoff) \in [Hosts -> Agents \union {NoAgent}]
         /\ \A h \in Hosts :
              RoutesAfterPurge(cutoff)[h] \in {NoAgent, owner[h]}
BY DEF RoutesAfterPurge

-----------------------------------------------------------------------------
(* ControllerInv is an invariant.                                          *)

\* Only the slot t moves, to a sound state: every handler stays sound when
\* neither the clock nor the set of enrolled agents goes back.
LEMMA TaskMoves ==
  ASSUME ControllerInv,
         NEW t \in Tasks, NEW l \in Task, Go(t, l),
         now' = now, enrolled' = enrolled, TaskOK(l)
  PROVE  /\ task' \in [Tasks -> Task]
         /\ \A u \in Tasks : TaskOK(task[u])'
<1>1. task' \in [Tasks -> Task]
  BY DEF Go, ControllerInv, TypeOK
<1>2. ASSUME NEW u \in Tasks
      PROVE  TaskOK(task[u])'
  <2>1. task'[u] = task[u] \/ task'[u] = l
    BY DEF Go, ControllerInv, TypeOK
  <2>2. TaskOK(task[u])
    BY DEF ControllerInv
  <2> QED
    BY <2>1, <2>2 DEF TaskOK
<1> QED
  BY <1>1, <1>2

\* Empty tables satisfy the invariant.
LEMMA InitInv == Init => ControllerInv
<1> SUFFICES ASSUME Init
             PROVE  ControllerInv
  OBVIOUS
<1>1. TypeOK
  <2>1. up \in BOOLEAN
    BY Zenon DEF Init
  <2>2. /\ now \in 0..MaxTime
        /\ crashes \in 0..MaxCrashes
        /\ lastSeen \in [Agents -> Nat]
    BY ConstantsAssumption DEF Init
  <2>3. /\ enrolled \subseteq Agents
        /\ revoked \subseteq enrolled
        /\ ip \in [Agents -> Addrs \union {NoAddr}]
        /\ owner \in [Hosts -> Agents \union {NoAgent}]
        /\ registry \in [Hosts -> Addrs \union {NoAddr}]
        /\ task \in [Tasks -> Task]
    BY IdleFacts DEF Init
  <2> QED
    BY <2>1, <2>2, <2>3 DEF TypeOK
<1>2. \A t \in Tasks : TaskOK(task[t])
  BY IdleFacts DEF Init, TaskOK
<1> QED
  BY <1>1, <1>2 DEF Init, ControllerInv

\* Every step keeps the invariant, action by action.
LEMMA StepInv == ControllerInv /\ [Next]_vars => ControllerInv'
<1> SUFFICES ASSUME ControllerInv, [Next]_vars
             PROVE  ControllerInv'
  OBVIOUS
<1> USE ConstantsAssumption
<1>1. ASSUME NEW a \in Agents, NEW x \in AddrsOf(a), enroll_agent(a, x)
      PROVE  ControllerInv'
  <2>1. \A t \in Tasks : TaskOK(task[t])'
    BY <1>1 DEF enroll_agent, ControllerInv, TypeOK, TaskOK, process
  <2> QED
    BY <1>1, <2>1
       DEF enroll_agent, ControllerInv, TypeOK, process, AddrsOf
<1>2. ASSUME NEW q \in Reqs, NEW a \in Agents, NEW x \in AddrsOf(a),
             heartbeat(q, a, x)
      PROVE  ControllerInv'
  <2>1. x \in Addrs /\ now \in Nat
    BY DEF AddrsOf, ControllerInv, TypeOK
  <2>2. TaskOK(Heartbeating(a, x, now))
    BY <1>2, <2>1, HeartbeatingFacts DEF heartbeat, Verified, TaskOK
  <2>3. /\ task' \in [Tasks -> Task]
        /\ \A u \in Tasks : TaskOK(task[u])'
    BY <1>2, <2>1, <2>2, HeartbeatingFacts, TaskMoves
       DEF heartbeat, Tasks, agentRows
  <2> QED
    BY <1>2, <2>3 DEF heartbeat, ControllerInv, TypeOK, process, agentRows
<1>3. ASSUME NEW q \in Reqs, heartbeat_update(q)
      PROVE  ControllerInv'
  <2>1. /\ task[q] \in Task
        /\ TaskOK(task[q])
        /\ task[q].agent \in enrolled
        /\ task[q].addr \in AddrsOf(task[q].agent)
        /\ task[q].stamp \in Nat
        /\ task[q].stamp <= now
    BY <1>3 DEF heartbeat_update, ControllerInv, TypeOK, TaskOK, Tasks, Task
  <2>2. TaskOK(Refreshing) /\ TaskOK(Idle)
    BY RefreshingFacts, IdleFacts DEF TaskOK, ControllerInv, TypeOK
  <2>3. /\ task' \in [Tasks -> Task]
        /\ \A u \in Tasks : TaskOK(task[u])'
    BY <1>3, <2>2, RefreshingFacts, IdleFacts, TaskMoves
       DEF heartbeat_update, Tasks
  <2> QED
    BY <1>3, <2>1, <2>3
       DEF heartbeat_update, ControllerInv, TypeOK, process, AddrsOf
<1>4. ASSUME NEW q \in Reqs, NEW a \in Agents, NEW desired \in SUBSET Hosts,
             put_routes(q, a, desired)
      PROVE  ControllerInv'
  <2>1. TaskOK(Putting("put_get_agent", a, desired))
    BY <1>4, PuttingFacts
       DEF put_routes, Verified, TaskOK, ControllerInv, TypeOK
  <2>2. /\ task' \in [Tasks -> Task]
        /\ \A u \in Tasks : TaskOK(task[u])'
    BY <1>4, <2>1, PuttingFacts, TaskMoves DEF put_routes, Tasks, agentRows
  <2> QED
    BY <1>4, <2>2 DEF put_routes, ControllerInv, TypeOK, process, agentRows
<1>5. ASSUME NEW q \in Reqs, put_routes_get_agent(q)
      PROVE  ControllerInv'
  <2>1. /\ task[q].agent \in enrolled
        /\ task[q].agent \in Agents
        /\ task[q].hosts \in SUBSET Hosts
    BY <1>5
       DEF put_routes_get_agent, ControllerInv, TypeOK, TaskOK, Tasks, Task
  <2> DEFINE l == Putting("put_tx", task[q].agent, task[q].hosts)
  <2>2. l \in Task /\ TaskOK(l) /\ TaskOK(Idle)
    BY <2>1, PuttingFacts, IdleFacts DEF TaskOK, ControllerInv, TypeOK
  <2>3. /\ task' \in [Tasks -> Task]
        /\ \A u \in Tasks : TaskOK(task[u])'
    <3>1. Go(q, l) \/ Go(q, Idle)
      BY <1>5 DEF put_routes_get_agent, Go
    <3> QED
      BY <1>5, <2>2, <3>1, IdleFacts, TaskMoves
         DEF put_routes_get_agent, Tasks, agentRows
  <2> QED
    BY <1>5, <2>3
       DEF put_routes_get_agent, ControllerInv, TypeOK, process, agentRows
<1>6. ASSUME NEW q \in Reqs, put_routes_tx(q)
      PROVE  ControllerInv'
  <2>1. /\ task[q].agent \in enrolled
        /\ task[q].agent \in Agents
        /\ task[q].hosts \in SUBSET Hosts
    BY <1>6 DEF put_routes_tx, ControllerInv, TypeOK, TaskOK, Tasks, Task
  <2>2. /\ owner' \in [Hosts -> Agents \union {NoAgent}]
        /\ \A h \in Hosts : owner'[h] \in {task[q].agent, NoAgent, owner[h]}
    BY <1>6, <2>1, RoutesAfterPutFacts
       DEF put_routes_tx, ControllerInv, TypeOK
  <2>3. TaskOK(Refreshing)
    BY RefreshingFacts DEF TaskOK, ControllerInv, TypeOK
  <2>4. /\ task' \in [Tasks -> Task]
        /\ \A u \in Tasks : TaskOK(task[u])'
    BY <1>6, <2>3, RefreshingFacts, TaskMoves
       DEF put_routes_tx, Tasks, agentRows
  <2> QED
    BY <1>6, <2>1, <2>2, <2>4
       DEF put_routes_tx, ControllerInv, TypeOK, process, agentRows
<1>7. ASSUME NEW q \in Reqs, NEW h \in Hosts, admin_delete_route(q, h)
      PROVE  ControllerInv'
  <2>1. TaskOK(Refreshing)
    BY RefreshingFacts DEF TaskOK, ControllerInv, TypeOK
  <2>2. /\ task' \in [Tasks -> Task]
        /\ \A u \in Tasks : TaskOK(task[u])'
    BY <1>7, <2>1, RefreshingFacts, TaskMoves
       DEF admin_delete_route, Tasks, agentRows
  <2> QED
    BY <1>7, <2>2
       DEF admin_delete_route, ControllerInv, TypeOK, process, agentRows
<1>8. ASSUME NEW q \in Reqs, NEW a \in Agents, admin_revoke_agent(q, a)
      PROVE  ControllerInv'
  <2>1. TaskOK(Revoking(a))
    BY RevokingFacts DEF TaskOK, ControllerInv, TypeOK
  <2>2. /\ task' \in [Tasks -> Task]
        /\ \A u \in Tasks : TaskOK(task[u])'
    BY <1>8, <2>1, RevokingFacts, TaskMoves DEF admin_revoke_agent, Tasks
  <2> QED
    BY <1>8, <2>2 DEF admin_revoke_agent, ControllerInv, TypeOK, process
<1>9. ASSUME NEW q \in Reqs, revoke_agent_delete(q)
      PROVE  ControllerInv'
  <2>1. TaskOK(Refreshing)
    BY RefreshingFacts DEF TaskOK, ControllerInv, TypeOK
  <2>2. /\ task' \in [Tasks -> Task]
        /\ \A u \in Tasks : TaskOK(task[u])'
    BY <1>9, <2>1, RefreshingFacts, TaskMoves
       DEF revoke_agent_delete, Tasks, agentRows
  <2> QED
    BY <1>9, <2>2
       DEF revoke_agent_delete, ControllerInv, TypeOK, process, agentRows
<1>10. ASSUME NEW t \in Tasks, refresh_dns_select(t)
       PROVE  ControllerInv'
  <2>1. Selected(SelectRows) \in Task /\ TaskOK(Selected(SelectRows))
    BY SelectRowsFacts, SelectedFacts DEF TaskOK, ControllerInv, TypeOK
  <2>2. /\ task' \in [Tasks -> Task]
        /\ \A u \in Tasks : TaskOK(task[u])'
    BY <1>10, <2>1, TaskMoves DEF refresh_dns_select, agentRows
  <2> QED
    BY <1>10, <2>2
       DEF refresh_dns_select, ControllerInv, TypeOK, process, agentRows
<1>11. ASSUME NEW t \in Tasks, refresh_dns_replace(t)
       PROVE  ControllerInv'
  <2>1. TaskOK(Idle)
    BY IdleFacts DEF TaskOK, ControllerInv, TypeOK
  <2>2. /\ task' \in [Tasks -> Task]
        /\ \A u \in Tasks : TaskOK(task[u])'
    BY <1>11, <2>1, IdleFacts, TaskMoves DEF refresh_dns_replace, agentRows
  <2>3. registry' \in [Hosts -> Addrs \union {NoAddr}]
    BY <1>11, ActiveDnsRoutesType
       DEF refresh_dns_replace, ControllerInv, TypeOK, Task
  <2> QED
    BY <1>11, <2>2, <2>3
       DEF refresh_dns_replace, ControllerInv, TypeOK, process, agentRows
<1>12. ASSUME NEW t \in Tasks, Go(t, Idle),
              UNCHANGED <<now, process, agentRows, owner, registry>>
       PROVE  ControllerInv'
  <2>1. TaskOK(Idle)
    BY IdleFacts DEF TaskOK, ControllerInv, TypeOK
  <2>2. /\ task' \in [Tasks -> Task]
        /\ \A u \in Tasks : TaskOK(task[u])'
    BY <1>12, <2>1, IdleFacts, TaskMoves DEF agentRows
  <2> QED
    BY <1>12, <2>2 DEF ControllerInv, TypeOK, process, agentRows
<1>13. ASSUME cleanup_tick
       PROVE  ControllerInv'
  <2>1. Purging(now) \in Task /\ TaskOK(Purging(now))
    BY PurgingFacts DEF TaskOK, ControllerInv, TypeOK
  <2>2. /\ task' \in [Tasks -> Task]
        /\ \A u \in Tasks : TaskOK(task[u])'
    BY <1>13, <2>1, TaskMoves DEF cleanup_tick, Tasks, agentRows
  <2> QED
    BY <1>13, <2>2 DEF cleanup_tick, ControllerInv, TypeOK, process, agentRows
<1>14. ASSUME cleanup_purge
       PROVE  ControllerInv'
  <2>1. TaskOK(Refreshing)
    BY RefreshingFacts DEF TaskOK, ControllerInv, TypeOK
  <2>2. /\ task' \in [Tasks -> Task]
        /\ \A u \in Tasks : TaskOK(task[u])'
    BY <1>14, <2>1, RefreshingFacts, TaskMoves
       DEF cleanup_purge, Tasks, agentRows
  <2>3. /\ owner' \in [Hosts -> Agents \union {NoAgent}]
        /\ \A h \in Hosts : owner'[h] \in {NoAgent, owner[h]}
    BY <1>14, RoutesAfterPurgeFacts DEF cleanup_purge, ControllerInv, TypeOK
  <2> QED
    BY <1>14, <2>2, <2>3
       DEF cleanup_purge, ControllerInv, TypeOK, process, agentRows
<1>15. ASSUME boot
       PROVE  ControllerInv'
  <2>1. registry' \in [Hosts -> Addrs \union {NoAddr}]
    BY <1>15, SelectRowsFacts, ActiveDnsRoutesType
       DEF boot, ControllerInv, TypeOK
  <2>2. \A u \in Tasks : TaskOK(task[u])'
    BY <1>15 DEF boot, ControllerInv, TaskOK, agentRows
  <2> QED
    BY <1>15, <2>1, <2>2 DEF boot, ControllerInv, TypeOK, agentRows
<1>16. ASSUME Crash
       PROVE  ControllerInv'
  <2>1. task' \in [Tasks -> Task]
    BY <1>16, IdleFacts DEF Crash
  <2>2. TaskOK(Idle)
    BY IdleFacts DEF TaskOK, ControllerInv, TypeOK
  <2>3. \A u \in Tasks : TaskOK(task[u])'
    BY <1>16, <2>2 DEF Crash, TaskOK, agentRows
  <2>4. up' \in BOOLEAN
    BY <1>16, Zenon DEF Crash
  <2>5. /\ crashes' \in 0..MaxCrashes
        /\ registry' \in [Hosts -> Addrs \union {NoAddr}]
    BY <1>16 DEF Crash, ControllerInv, TypeOK
  <2>6. UNCHANGED <<now, enrolled, revoked, ip, lastSeen, owner>>
    BY <1>16 DEF Crash, agentRows
  <2> QED
    BY <2>1, <2>3, <2>4, <2>5, <2>6 DEF ControllerInv, TypeOK, AddrsOf
<1>17. ASSUME Tick
       PROVE  ControllerInv'
  <2>1. ASSUME NEW u \in Tasks
        PROVE  TaskOK(task[u])'
    BY <1>17 DEF Tick, ControllerInv, TypeOK, TaskOK, Task, agentRows
  <2> QED
    BY <1>17, <2>1 DEF Tick, ControllerInv, TypeOK, process, agentRows
<1>18. ASSUME UNCHANGED vars
       PROVE  ControllerInv'
  BY <1>18 DEF vars, ControllerInv, TypeOK, TaskOK, process, agentRows
<1> QED
  BY <1>1, <1>2, <1>3, <1>4, <1>5, <1>6, <1>7, <1>8, <1>9, <1>10, <1>11,
     <1>12, <1>13, <1>14, <1>15, <1>16, <1>17, <1>18
     DEF Next, RequestBegin, RequestStep, CleanerStep, Abort,
         cleanup_refresh_fails, Tasks

\* The tables, the registry and the handlers in flight agree in every
\* reachable state of the controller.
THEOREM Invariance == Spec => []ControllerInv
BY InitInv, StepInv, PTL DEF Spec

-----------------------------------------------------------------------------
(* Revocation.                                                             *)

\* heartbeat verifies the agent in one statement and updates it in another;
\* a revocation in between still ends the lease, whatever is in flight.
THEOREM RevocationFreezesLease == Spec => RevokedLeaseFrozen
<1> DEFINE Frozen == \A a \in revoked : lastSeen'[a] = lastSeen[a] /\ ip'[a] = ip[a]
<1>1. ControllerInv /\ [Next]_vars => [Frozen]_vars
  <2> SUFFICES ASSUME ControllerInv, Next
               PROVE  Frozen
    OBVIOUS
  <2>1. ASSUME NEW a \in Agents, NEW x \in AddrsOf(a), enroll_agent(a, x)
        PROVE  Frozen
    BY <2>1 DEF enroll_agent, ControllerInv, TypeOK
  <2>2. ASSUME NEW q \in Reqs, heartbeat_update(q)
        PROVE  Frozen
    BY <2>2 DEF heartbeat_update, ControllerInv, TypeOK
  <2>3. ASSUME UNCHANGED <<lastSeen, ip>>
        PROVE  Frozen
    BY <2>3
  <2> QED
    BY <2>1, <2>2, <2>3
       DEF Next, RequestBegin, RequestStep, CleanerStep, Abort, heartbeat,
           put_routes, put_routes_get_agent, put_routes_tx,
           admin_delete_route, admin_revoke_agent, revoke_agent_delete,
           refresh_dns_select, refresh_dns_replace, cleanup_tick,
           cleanup_purge, cleanup_refresh_fails, boot, Crash, Tick, agentRows
<1> QED
  BY Invariance, <1>1, PTL DEF Spec, RevokedLeaseFrozen

\* A refresh whose rows carry no address of an agent stores none.
LEMMA StoreKeepsOut ==
  ASSUME NEW a, NEW rows \in [Hosts -> Row \union {NoRow}],
         \A h \in Hosts : rows[h] # NoRow => rows[h].addr \notin AddrsOf(a)
  PROVE  \A h \in Hosts : ActiveDnsRoutes(rows)[h] \notin AddrsOf(a)
BY ConstantsAssumption DEF ActiveDnsRoutes, AddrsOf, Row

\* revoke_agent races with put_routes, and a route inserted for a revoked
\* agent can outlive it in the table.  It never reaches DNS again.
THEOREM RevokedNeverReturns == Spec => RevokedStaysOut
<1> DEFINE Stays == \A a \in revoked : OutOfDns(a) => OutOfDns(a)'
<1>1. ControllerInv /\ [Next]_vars => [Stays]_vars
  <2> SUFFICES ASSUME ControllerInv, Next, NEW a \in revoked, OutOfDns(a)
               PROVE  OutOfDns(a)'
    OBVIOUS
  <2> DEFINE Clean(rows) == \A h \in Hosts :
               rows[h] # NoRow => rows[h].addr \notin AddrsOf(a)
  <2>1. \A h \in Hosts : NoAddr \notin AddrsOf(a) /\ NoRows[h] = NoRow
    BY ConstantsAssumption DEF AddrsOf, NoRows
  <2>2. Clean(NoRows)
    BY <2>1
  <2>3. Clean(SelectRows)
    BY SelectRowsFacts DEF AddrsOf, Row
  <2>4. ASSUME NEW t \in Tasks, NEW l, Go(t, l), Clean(l.rows),
               UNCHANGED registry
        PROVE  OutOfDns(a)'
    <3>1. ASSUME NEW u \in Tasks
          PROVE  task'[u] = task[u] \/ task'[u] = l
      BY <2>4 DEF Go, ControllerInv, TypeOK
    <3> QED
      BY <2>4, <3>1 DEF OutOfDns, AddrsOf
  <2>5. ASSUME UNCHANGED <<registry, task>>
        PROVE  OutOfDns(a)'
    BY <2>5 DEF OutOfDns, AddrsOf
  <2>6. ASSUME NEW b \in Agents, NEW x \in AddrsOf(b), enroll_agent(b, x)
        PROVE  OutOfDns(a)'
    BY <2>5, <2>6 DEF enroll_agent
  <2>7. ASSUME NEW q \in Reqs, RequestBegin(q)
        PROVE  OutOfDns(a)'
    <3>1. ASSUME NEW b \in Agents, NEW x \in AddrsOf(b), heartbeat(q, b, x)
          PROVE  OutOfDns(a)'
      <4>1. Heartbeating(b, x, now).rows = NoRows
        BY HeartbeatingFacts DEF AddrsOf, ControllerInv, TypeOK
      <4> QED
        BY <2>2, <2>4, <3>1, <4>1 DEF heartbeat, Tasks
    <3>2. ASSUME NEW b \in Agents, NEW desired \in SUBSET Hosts,
                 put_routes(q, b, desired)
          PROVE  OutOfDns(a)'
      <4>1. Putting("put_get_agent", b, desired).rows = NoRows
        BY PuttingFacts
      <4> QED
        BY <2>2, <2>4, <3>2, <4>1 DEF put_routes, Tasks
    <3>3. ASSUME NEW h \in Hosts, admin_delete_route(q, h)
          PROVE  OutOfDns(a)'
      BY <2>2, <2>4, <3>3, RefreshingFacts DEF admin_delete_route, Tasks
    <3>4. ASSUME NEW b \in Agents, admin_revoke_agent(q, b)
          PROVE  OutOfDns(a)'
      <4>1. Revoking(b).rows = NoRows
        BY RevokingFacts
      <4> QED
        BY <2>2, <2>4, <3>4, <4>1 DEF admin_revoke_agent, Tasks
    <3> QED
      BY <2>7, <3>1, <3>2, <3>3, <3>4 DEF RequestBegin
  <2>8. ASSUME NEW q \in Reqs,
               \/ heartbeat_update(q)
               \/ put_routes_tx(q)
               \/ revoke_agent_delete(q)
        PROVE  OutOfDns(a)'
    <3>1. (Go(q, Refreshing) \/ Go(q, Idle)) /\ UNCHANGED registry
      BY <2>8 DEF heartbeat_update, put_routes_tx, revoke_agent_delete
    <3> QED
      BY <2>2, <2>4, <3>1, RefreshingFacts, IdleFacts DEF Tasks
  <2>9. ASSUME NEW q \in Reqs, put_routes_get_agent(q)
        PROVE  OutOfDns(a)'
    <3> DEFINE l == Putting("put_tx", task[q].agent, task[q].hosts)
    <3>1. l.rows = NoRows
      BY <2>9, PuttingFacts
         DEF put_routes_get_agent, ControllerInv, TypeOK, TaskOK, Tasks, Task
    <3>2. (Go(q, l) \/ Go(q, Idle)) /\ UNCHANGED registry
      BY <2>9 DEF put_routes_get_agent, Go
    <3> QED
      BY <2>2, <2>4, <3>1, <3>2, IdleFacts DEF Tasks
  <2>10. ASSUME NEW t \in Tasks, refresh_dns_select(t)
         PROVE  OutOfDns(a)'
    <3>1. Selected(SelectRows).rows = SelectRows
      BY SelectRowsFacts, SelectedFacts
    <3> QED
      BY <2>3, <2>4, <2>10, <3>1 DEF refresh_dns_select
  <2>11. ASSUME NEW t \in Tasks, refresh_dns_replace(t)
         PROVE  OutOfDns(a)'
    <3>1. /\ task[t].rows \in [Hosts -> Row \union {NoRow}]
          /\ Clean(task[t].rows)
      BY DEF ControllerInv, TypeOK, Task, OutOfDns
    <3>2. \A h \in Hosts : registry'[h] \notin AddrsOf(a)
      BY <2>11, <3>1, StoreKeepsOut DEF refresh_dns_replace
    <3>3. ASSUME NEW u \in Tasks
          PROVE  Clean(task'[u].rows)
      <4>1. task'[u] = task[u] \/ task'[u] = Idle
        BY <2>11 DEF refresh_dns_replace, Go, ControllerInv, TypeOK
      <4> QED
        BY <2>2, <4>1, IdleFacts DEF OutOfDns
    <3> QED
      BY <3>2, <3>3 DEF OutOfDns, AddrsOf
  <2>12. ASSUME NEW t \in Tasks, Go(t, Idle), UNCHANGED registry
         PROVE  OutOfDns(a)'
    BY <2>2, <2>4, <2>12, IdleFacts
  <2>13. ASSUME cleanup_tick
         PROVE  OutOfDns(a)'
    <3>1. Purging(now).rows = NoRows
      BY PurgingFacts DEF ControllerInv, TypeOK
    <3> QED
      BY <2>2, <2>4, <2>13, <3>1 DEF cleanup_tick, Tasks
  <2>14. ASSUME cleanup_purge
         PROVE  OutOfDns(a)'
    BY <2>2, <2>4, <2>14, RefreshingFacts DEF cleanup_purge, Tasks
  <2>15. ASSUME boot
         PROVE  OutOfDns(a)'
    <3>1. \A h \in Hosts : ActiveDnsRoutes(SelectRows)[h] \notin AddrsOf(a)
      BY <2>3, SelectRowsFacts, StoreKeepsOut
    <3>2. /\ \A h \in Hosts : registry'[h] \notin AddrsOf(a)
          /\ UNCHANGED task
      BY <2>15, <3>1 DEF boot, OutOfDns
    <3> QED
      BY <3>2 DEF OutOfDns, AddrsOf
  <2>16. ASSUME Crash
         PROVE  OutOfDns(a)'
    <3>1. \A h \in Hosts : registry'[h] \notin AddrsOf(a)
      BY <2>1, <2>16 DEF Crash
    <3>2. \A t \in Tasks : Clean(task'[t].rows)
      BY <2>2, <2>16, IdleFacts DEF Crash
    <3> QED
      BY <3>1, <3>2 DEF OutOfDns, AddrsOf
  <2>17. ASSUME Tick
         PROVE  OutOfDns(a)'
    BY <2>5, <2>17 DEF Tick
  <2> QED
    BY <2>6, <2>7, <2>8, <2>9, <2>10, <2>11, <2>12, <2>13, <2>14, <2>15,
       <2>16, <2>17
       DEF Next, RequestStep, CleanerStep, Abort, cleanup_refresh_fails, Tasks
<1> QED
  BY Invariance, <1>1, PTL DEF Spec, RevokedStaysOut

-----------------------------------------------------------------------------
(* Ownership of hostnames.                                                 *)

\* The purge spares every agent whose lease is alive: its cutoff may be old
\* when the DELETE runs, never too new.
LEMMA PurgeSparesLive ==
  ASSUME ControllerInv, NEW t \in Tasks, NEW h \in Hosts,
         owner[h] # NoAgent, Alive(lastSeen[owner[h]])
  PROVE  RoutesAfterPurge(task[t].stamp - TTL)[h] = owner[h]
<1>1. /\ task[t].stamp \in Nat
      /\ task[t].stamp <= now
      /\ lastSeen[owner[h]] \in Nat
      /\ now \in Nat
      /\ TTL \in Nat
  BY ConstantsAssumption DEF ControllerInv, TypeOK, TaskOK, Task
<1>2. ~(lastSeen[owner[h]] < task[t].stamp - TTL)
  BY <1>1 DEF Alive
<1> QED
  BY <1>2 DEF RoutesAfterPurge

\* "The first healthy Agent to register a hostname owns it": no interleaving
\* of PUTs, heartbeats, revocations, purges and crashes takes a hostname
\* from an agent whose lease is alive.
THEOREM LiveOwnersKeepHostnames == Spec => LiveOwnerKept
<1> DEFINE
     Kept(h) ==
       /\ owner[h] # NoAgent
       /\ Alive(lastSeen[owner[h]])
       /\ owner'[h] # owner[h]
       => /\ owner'[h] = NoAgent
          /\ \E q \in Reqs :
               /\ task'[q] # task[q]
               /\ task[q].agent \in {owner[h], NoAgent}
<1>1. ControllerInv /\ [Next]_vars => [\A h \in Hosts : Kept(h)]_vars
  <2> SUFFICES ASSUME ControllerInv, Next, NEW h \in Hosts,
                      owner[h] # NoAgent,
                      Alive(lastSeen[owner[h]]),
                      owner'[h] # owner[h]
               PROVE  /\ owner'[h] = NoAgent
                      /\ \E q \in Reqs :
                           /\ task'[q] # task[q]
                           /\ task[q].agent \in {owner[h], NoAgent}
    OBVIOUS
  <2>1. ASSUME NEW q \in Reqs, NEW l, l.pc # task[q].pc, Go(q, l)
        PROVE  task'[q] # task[q]
    BY <2>1 DEF Go, ControllerInv, TypeOK, Tasks
  <2>2. CASE \E q \in Reqs : put_routes_tx(q)
    <3>1. PICK q \in Reqs : put_routes_tx(q)
      BY <2>2
    <3>2. task'[q] # task[q]
      BY <2>1, <3>1, RefreshingFacts DEF put_routes_tx
    <3>3. owner'[h] = NoAgent /\ task[q].agent = owner[h]
      BY <3>1 DEF put_routes_tx, RoutesAfterPut, Conflicts
    <3> QED
      BY <3>2, <3>3
  <2>3. CASE \E q \in Reqs, g \in Hosts : admin_delete_route(q, g)
    <3>1. PICK q \in Reqs, g \in Hosts : admin_delete_route(q, g)
      BY <2>3
    <3>2. task'[q] # task[q]
      BY <2>1, <3>1, RefreshingFacts DEF admin_delete_route, Accept
    <3>3. task[q].agent = NoAgent
      BY <3>1, IdleFacts
         DEF admin_delete_route, Accept, ControllerInv, TaskOK, Tasks
    <3>4. owner'[h] = NoAgent
      BY <3>1 DEF admin_delete_route, ControllerInv, TypeOK
    <3> QED
      BY <3>2, <3>3, <3>4
  <2>4. CASE \E q \in Reqs : revoke_agent_delete(q)
    <3>1. PICK q \in Reqs : revoke_agent_delete(q)
      BY <2>4
    <3>2. task'[q] # task[q]
      BY <2>1, <3>1, RefreshingFacts DEF revoke_agent_delete
    <3>3. owner'[h] = NoAgent /\ task[q].agent = owner[h]
      BY <3>1 DEF revoke_agent_delete
    <3> QED
      BY <3>2, <3>3
  <2>5. CASE cleanup_purge
    BY <2>5, PurgeSparesLive DEF cleanup_purge, Tasks
  <2>6. CASE UNCHANGED owner
    BY <2>6
  <2> QED
    BY <2>2, <2>3, <2>4, <2>5, <2>6
       DEF Next, RequestBegin, RequestStep, CleanerStep, Abort, enroll_agent,
           heartbeat, heartbeat_update, put_routes, put_routes_get_agent,
           admin_revoke_agent, refresh_dns_select, refresh_dns_replace,
           cleanup_tick, cleanup_refresh_fails, boot, Crash, Tick
<1> QED
  BY Invariance, <1>1, PTL DEF Spec, LiveOwnerKept

\* The controller, with its tables, tasks, clock and crashes, implements
\* HostnameOwnership.
THEOREM ImplementsOwnership == Spec => OwnershipSpec
<1> DEFINE liveAgents == {a \in enrolled : Alive(lastSeen[a])}
<1>1. Init => Ownership!Init
  BY DEF Init, Ownership!Init
<1>2. ControllerInv /\ [Next]_vars => [Ownership!Next]_(Ownership!vars)
  <2> SUFFICES ASSUME ControllerInv, [Next]_vars
               PROVE  [Ownership!Next]_(Ownership!vars)
    OBVIOUS
  <2>1. ASSUME UNCHANGED owner, enrolled' \subseteq Agents
        PROVE  Ownership!Next
    BY <2>1 DEF Ownership!Next, Ownership!LeasesChange
  <2>2. enrolled' \subseteq Agents
    BY StepInv DEF ControllerInv, TypeOK
  <2>3. ASSUME UNCHANGED <<now, enrolled, lastSeen>>
        PROVE  liveAgents' = liveAgents
    BY <2>3 DEF Alive
  <2>4. ASSUME NEW q \in Reqs, put_routes_tx(q)
        PROVE  Ownership!Next
    <3> DEFINE a == task[q].agent
               desired == task[q].hosts
    <3>1. a \in Agents /\ a \in enrolled /\ desired \in SUBSET Hosts
      BY <2>4 DEF put_routes_tx, ControllerInv, TypeOK, TaskOK, Tasks, Task
    <3>2. ASSUME NEW h \in Hosts
          PROVE  Conflicts(a, h) <=> owner[h] \in liveAgents \ {a}
      BY <3>1, ConstantsAssumption DEF Conflicts, ControllerInv, TypeOK
    <3>3. owner' = [h \in Hosts |->
                      IF h \in desired
                      THEN IF owner[h] \in liveAgents \ {a}
                           THEN owner[h] ELSE a
                      ELSE IF owner[h] = a THEN NoAgent ELSE owner[h]]
      BY <2>4, <3>2 DEF put_routes_tx, RoutesAfterPut
    <3>4. liveAgents' = liveAgents
      BY <2>3, <2>4 DEF put_routes_tx, agentRows
    <3>5. Ownership!Claim(a, desired)
      BY <3>3, <3>4 DEF Ownership!Claim
    <3> QED
      BY <3>1, <3>5 DEF Ownership!Next
  <2>5. ASSUME NEW q \in Reqs, NEW h \in Hosts, admin_delete_route(q, h)
        PROVE  Ownership!Next
    <3>1. liveAgents' = liveAgents
      BY <2>3, <2>5 DEF admin_delete_route, agentRows
    <3>2. Ownership!Withdraw(h)
      BY <2>5, <3>1 DEF admin_delete_route, Ownership!Withdraw
    <3> QED
      BY <3>2 DEF Ownership!Next
  <2>6. ASSUME NEW q \in Reqs, revoke_agent_delete(q)
        PROVE  Ownership!Next
    <3>1. liveAgents' = liveAgents
      BY <2>3, <2>6 DEF revoke_agent_delete, agentRows
    <3>2. CASE task[q].agent \in Agents
      <4>1. Ownership!Evict(task[q].agent)
        BY <2>6, <3>1 DEF revoke_agent_delete, Ownership!Evict
      <4> QED
        BY <3>2, <4>1 DEF Ownership!Next
    <3>3. CASE task[q].agent = NoAgent
      <4>1. owner' = owner
        BY <2>6, <3>3 DEF revoke_agent_delete, ControllerInv, TypeOK
      <4> QED
        BY <2>1, <2>2, <4>1
    <3> QED
      BY <3>2, <3>3 DEF ControllerInv, TypeOK, Tasks, Task
  <2>7. ASSUME cleanup_purge, owner' # owner
        PROVE  Ownership!Next
    <3> DEFINE cutoff == task[Cleaner].stamp - TTL
               freed == {h \in Hosts : /\ owner[h] # NoAgent
                                      /\ lastSeen[owner[h]] < cutoff}
    <3>1. owner' = RoutesAfterPurge(cutoff)
      BY <2>7 DEF cleanup_purge
    <3>2. owner' = [h \in Hosts |-> IF h \in freed THEN NoAgent ELSE owner[h]]
      BY <3>1 DEF RoutesAfterPurge
    <3>3. ASSUME NEW h \in freed, owner[h] \in liveAgents
          PROVE  FALSE
      <4>1. RoutesAfterPurge(cutoff)[h] = owner[h]
        BY <3>3, PurgeSparesLive DEF Tasks
      <4> QED
        BY <3>3, <4>1 DEF RoutesAfterPurge
    <3>4. liveAgents' = liveAgents
      BY <2>3, <2>7 DEF cleanup_purge, agentRows
    <3>5. Ownership!Reclaim(freed)
      BY <3>2, <3>3, <3>4 DEF Ownership!Reclaim
    <3> QED
      BY <3>5 DEF Ownership!Next
  <2>8. \/ UNCHANGED owner
        \/ \E q \in Reqs : put_routes_tx(q)
        \/ \E q \in Reqs, h \in Hosts : admin_delete_route(q, h)
        \/ \E q \in Reqs : revoke_agent_delete(q)
        \/ cleanup_purge
    BY DEF Next, RequestBegin, RequestStep, CleanerStep, Abort, enroll_agent,
           heartbeat, heartbeat_update, put_routes, put_routes_get_agent,
           admin_revoke_agent, refresh_dns_select, refresh_dns_replace,
           cleanup_tick, cleanup_refresh_fails, boot, Crash, Tick, vars
  <2> QED
    BY <2>1, <2>2, <2>4, <2>5, <2>6, <2>7, <2>8
<1> QED
  BY Invariance, <1>1, <1>2, PTL DEF Spec, OwnershipSpec, Ownership!Spec

=============================================================================
