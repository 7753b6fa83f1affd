------------------------- MODULE HostnameOwnership --------------------------
(***************************************************************************)
(* What the controller promises about hostnames, without tables, requests, *)
(* clocks or DNS: a hostname has at most one owner, a PUT replaces the     *)
(* whole set of its agent, and a hostname passes from one agent to another *)
(* only after the lease of the first has lapsed.                           *)
(***************************************************************************)

CONSTANTS Agents, Hosts, NoAgent

VARIABLES
  live,    \* the agents whose lease is alive
  owner    \* the owner of each hostname

vars == <<live, owner>>

Init ==
  /\ live = {}
  /\ owner = [h \in Hosts |-> NoAgent]

\* Heartbeats start and renew leases, time ends them.
LeasesChange ==
  /\ live' \in SUBSET Agents
  /\ UNCHANGED owner

\* Agent a states its full set of hostnames.
Claim(a, desired) ==
  /\ owner' = [h \in Hosts |->
                 IF h \in desired
                 THEN IF owner[h] \in live \ {a} THEN owner[h] ELSE a
                 ELSE IF owner[h] = a THEN NoAgent ELSE owner[h]]
  /\ UNCHANGED live

\* Hostnames of lapsed owners are freed.
Reclaim(freed) ==
  /\ \A h \in freed : owner[h] \notin live
  /\ owner' = [h \in Hosts |-> IF h \in freed THEN NoAgent ELSE owner[h]]
  /\ UNCHANGED live

\* An administrator frees one hostname, or every hostname of one agent.
Withdraw(h) ==
  /\ owner' = [owner EXCEPT ![h] = NoAgent]
  /\ UNCHANGED live

Evict(a) ==
  /\ owner' = [h \in Hosts |-> IF owner[h] = a THEN NoAgent ELSE owner[h]]
  /\ UNCHANGED live

Next ==
  \/ LeasesChange
  \/ \E a \in Agents, desired \in SUBSET Hosts : Claim(a, desired)
  \/ \E freed \in SUBSET Hosts : Reclaim(freed)
  \/ \E h \in Hosts : Withdraw(h)
  \/ \E a \in Agents : Evict(a)

Spec == Init /\ [][Next]_vars

=============================================================================
