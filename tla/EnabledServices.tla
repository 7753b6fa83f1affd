--------------------------- MODULE EnabledServices ---------------------------
(***************************************************************************)
(* The services an administrator enables by hand: the tables               *)
(* enabled_services and discovery_snapshots, the admin handlers that read  *)
(* and change them, and the identifiers the dashboards are shown.  Each    *)
(* SQL statement is a step; handlers interleave between statements.        *)
(* Identifiers are random tokens: fresh numbers here.  Audit rows are      *)
(* written and never read, and are left out.                               *)
(***************************************************************************)
EXTENDS Naturals

CONSTANTS
  Agents,        \* rows of the agents table; none is ever deleted
  Keys,          \* identity keys of containers
  Configs,       \* hostnames and backend of a request
  Allowed,       \* those that validation and the hostname policy admit
  Admins,        \* dashboards, with one request at a time each
  NoRow,
  MaxIds         \* bound on enable requests

ASSUME ConstantsAssumption ==
  /\ Allowed \subseteq Configs
  /\ MaxIds \in Nat
  /\ NoRow \notin [id : 0..(MaxIds - 1), cfg : Allowed, enabled : BOOLEAN]

VARIABLES
  rows,          \* enabled_services, by (agent_id, identity_key)
  snaps,         \* discovery_snapshots: the identities of the last report
  nextId,        \* identifiers below it have been generated
  pc, job,       \* the admin handler that runs, and what it has read
  page,          \* AdminDiscoveryItems of enabled services a dashboard shows
  reply          \* the services a dashboard was told it enabled, with their id

vars == <<rows, snaps, nextId, pc, job, page, reply>>

Ids == 0..(MaxIds - 1)
Idents == Agents \X Keys
Row == [id : Ids, cfg : Allowed, enabled : BOOLEAN]
Table == [Idents -> Row \union {NoRow}]
Job == [ident : Idents \union {NoRow}, id : 0..MaxIds, table : Table \union {NoRow}]
NoJob == [ident |-> NoRow, id |-> 0, table |-> NoRow]

TypeOK ==
  /\ rows \in Table
  /\ snaps \in [Agents -> SUBSET Keys]
  /\ nextId \in 0..MaxIds
  /\ pc \in [Admins -> {"idle", "enabled", "discovery"}]
  /\ job \in [Admins -> Job]
  /\ page \in [Admins -> SUBSET [ident : Idents, id : Ids, cfg : Allowed]]
  /\ reply \in [Admins -> SUBSET [ident : Idents, id : Ids]]

Init ==
  /\ rows = [i \in Idents |-> NoRow]
  /\ snaps = [a \in Agents |-> {}]
  /\ nextId = 0
  /\ pc = [u \in Admins |-> "idle"]
  /\ job = [u \in Admins |-> NoJob]
  /\ page = [u \in Admins |-> {}]
  /\ reply = [u \in Admins |-> {}]

Rows(t) == {i \in Idents : t[i] # NoRow}

-----------------------------------------------------------------------------
(* Storage.                                                                *)

\* Mutant of upsert_enabled_service: INSERT OR REPLACE: the row is a new one.
UpsertReplaces(i, id, c) ==
  [rows EXCEPT ![i] = [id |-> id, cfg |-> c, enabled |-> TRUE]]

\* On conflict the row keeps its id.
upsert_enabled_service(i, id, c) ==
  [rows EXCEPT ![i] = [id |-> IF rows[i] = NoRow THEN id ELSE rows[i].id,
                       cfg |-> c, enabled |-> TRUE]]

list_enabled_for_agent(a) ==
  {i \in Rows(rows) : i[1] = a /\ rows[i].enabled}

RowsWithId(id) == {i \in Rows(rows) : rows[i].id = id}

-----------------------------------------------------------------------------
(* Handlers.                                                               *)

\* An agent reports what it has found; its snapshot is replaced.
put_discovery(a, ks) ==
  /\ ks # snaps[a]
  /\ snaps' = [snaps EXCEPT ![a] = ks]
  /\ UNCHANGED <<rows, nextId, pc, job, page, reply>>

\* Hostnames and backend parse and the hostname policy admits them.
Valid(c) == c \in Allowed

\* admin_enable_service up to the upsert.  The identity need not be one the
\* agent has reported; a request that is not allowed changes nothing.
enable_upsert(u, i, c) ==
  /\ pc[u] = "idle"
  /\ Valid(c)
  /\ nextId < MaxIds
  /\ nextId' = nextId + 1
  /\ rows' = upsert_enabled_service(i, nextId, c)
  /\ pc' = [pc EXCEPT ![u] = "enabled"]
  /\ job' = [job EXCEPT ![u] = [NoJob EXCEPT !.ident = i, !.id = nextId]]
  /\ UNCHANGED <<snaps, page, reply>>

\* Mutant of Found: the first row of the agent is taken.
FoundAny(u) == list_enabled_for_agent(job[u].ident[1])

\* The row of this identity among those just listed.
Found(u) == list_enabled_for_agent(job[u].ident[1]) \intersect {job[u].ident}

\* admin_enable_service answers the id it reads back, or the one it generated.
enable_reply(u) ==
  /\ pc[u] = "enabled"
  /\ \/ /\ Found(u) = {}
        /\ reply' = [reply EXCEPT ![u] =
                       @ \union {[ident |-> job[u].ident, id |-> job[u].id]}]
     \/ \E i \in Found(u) :
          reply' = [reply EXCEPT ![u] =
                      @ \union {[ident |-> job[u].ident, id |-> rows[i].id]}]
  /\ pc' = [pc EXCEPT ![u] = "idle"]
  /\ job' = [job EXCEPT ![u] = NoJob]
  /\ UNCHANGED <<rows, snaps, nextId, page>>

\* admin_disable_service of an id the dashboard was shown; the row that has
\* it, if any, is switched off, else the answer is NotFound.
disable_service(u, id) ==
  /\ pc[u] = "idle"
  /\ id \in {x.id : x \in page[u] \union reply[u]}
  /\ rows' = [i \in Idents |-> IF i \in RowsWithId(id)
                               THEN [rows[i] EXCEPT !.enabled = FALSE]
                               ELSE rows[i]]
  /\ UNCHANGED <<snaps, nextId, pc, job, page, reply>>

\* admin_discovery: list_all_enabled, then the snapshots and the join.
discovery_enabled(u) ==
  /\ pc[u] = "idle"
  /\ pc' = [pc EXCEPT ![u] = "discovery"]
  /\ job' = [job EXCEPT ![u] = [NoJob EXCEPT !.table = rows]]
  /\ UNCHANGED <<rows, snaps, nextId, page, reply>>

discovery_join(u) ==
  /\ pc[u] = "discovery"
  /\ LET t == job[u].table
         shown == {i \in Rows(t) : t[i].enabled /\ i[2] \in snaps[i[1]]}
     IN  page' = [page EXCEPT ![u] =
                    {[ident |-> i, id |-> t[i].id, cfg |-> t[i].cfg] : i \in shown}]
  /\ pc' = [pc EXCEPT ![u] = "idle"]
  /\ job' = [job EXCEPT ![u] = NoJob]
  /\ UNCHANGED <<rows, snaps, nextId, reply>>

\* A statement fails or the client disconnects: the handler ends where it is.
Abort(u) ==
  /\ pc[u] # "idle"
  /\ pc' = [pc EXCEPT ![u] = "idle"]
  /\ job' = [job EXCEPT ![u] = NoJob]
  /\ UNCHANGED <<rows, snaps, nextId, page, reply>>

-----------------------------------------------------------------------------

\* A handler up to its first statement, and what follows.
Begin(u) ==
  \/ \E i \in Idents, c \in Configs : enable_upsert(u, i, c)
  \/ \E id \in Ids : disable_service(u, id)
  \/ discovery_enabled(u)

Continue(u) ==
  \/ enable_reply(u)
  \/ discovery_join(u)
  \/ Abort(u)

Report == \E a \in Agents, ks \in SUBSET Keys : put_discovery(a, ks)

Next == Report \/ \E u \in Admins : Begin(u) \/ Continue(u)

Spec == Init /\ [][Next]_vars

-----------------------------------------------------------------------------
(* Properties.                                                             *)

\* Every service has an id of its own, generated before.
IdsSound ==
  \A i \in Rows(rows) :
    /\ rows[i].id < nextId
    /\ \A j \in Rows(rows) \ {i} : rows[j].id # rows[i].id

\* What a handler has read before its next statement still holds: an id it
\* generated belongs to no other service, and every service of the table it
\* listed is there under the same id.
JobsSound ==
  \A u \in Admins :
    /\ pc[u] = "enabled" =>
         /\ job[u].ident \in Idents
         /\ job[u].id < nextId
         /\ RowsWithId(job[u].id) \subseteq {job[u].ident}
    /\ pc[u] = "discovery" =>
         /\ job[u].table \in Table
         /\ \A i \in Rows(job[u].table) :
              rows[i] # NoRow /\ rows[i].id = job[u].table[i].id

\* An id on a dashboard's page stays the id of the service it is shown with,
\* however old the page is: disabling it later never misses (store.rs,
\* upsert_enabled_service keeps the id on conflict).
PageIdsStay ==
  \A u \in Admins : \A x \in page[u] :
    rows[x.ident] # NoRow /\ rows[x.ident].id = x.id

\* The id an enable request is answered is not, and will not be, the id of
\* another service: disabling it later cannot switch off anything else
\* (api.rs, admin_enable_service).
ReplyNeverMisdirects ==
  \A u \in Admins : \A x \in reply[u] :
    x.id < nextId /\ RowsWithId(x.id) \subseteq {x.ident}

\* The id an enable request is answered is the id of the service it enabled,
\* also when the service existed before (api.rs, admin_enable_service).
ReplyIdStable ==
  \A u \in Admins : \A x \in reply[u] : RowsWithId(x.id) = {x.ident}

=============================================================================
