--------------------------- MODULE AdminApiProofs ---------------------------
(***************************************************************************)
(* Proofs about AdminApi and the EnabledServices it protects, for any      *)
(* agents, containers, administrators, lifetime of sessions and number of  *)
(* requests.                                                               *)
(***************************************************************************)
EXTENDS AdminApi, TLAPS

-----------------------------------------------------------------------------
(* Facts about the operators.                                              *)

\* The greater of two numbers.
LEMMA MaxOfTwo ==
  ASSUME NEW a \in Int, NEW b \in Int
  PROVE  Max({a, b}) = IF a >= b THEN a ELSE b
<1> DEFINE m == IF a >= b THEN a ELSE b
<1>1. m \in {a, b} /\ \A y \in {a, b} : m >= y
  OBVIOUS
<1>2. \A x \in {a, b} : (\A y \in {a, b} : x >= y) => x = m
  OBVIOUS
<1> HIDE DEF m
<1>3. Max({a, b}) = m
  BY <1>1, <1>2 DEF Max
<1> QED
  BY <1>3 DEF m

\* The lesser of two numbers.
LEMMA MinOfTwo ==
  ASSUME NEW a \in Int, NEW b \in Int
  PROVE  Min({a, b}) = IF a <= b THEN a ELSE b
<1> DEFINE m == IF a <= b THEN a ELSE b
<1>1. m \in {a, b} /\ \A y \in {a, b} : m <= y
  OBVIOUS
<1>2. \A x \in {a, b} : (\A y \in {a, b} : x <= y) => x = m
  OBVIOUS
<1> HIDE DEF m
<1>3. Min({a, b}) = m
  BY <1>1, <1>2 DEF Min
<1> QED
  BY <1>3 DEF m

\* A session lasts for some time (state.rs, session_ttl).
LEMMA SessionTTLType == SessionTTL \in Nat \ {0}
BY MaxOfTwo, SessionAssumption DEF SessionTTL

\* What an idle administrator has in hand is well typed.
LEMMA NoJobType == NoJob \in Job
BY ConstantsAssumption DEF NoJob, Job

-----------------------------------------------------------------------------
(* The services and their identifiers.                                     *)

\* What holds of the tables, the handlers and the dashboards together: an id
\* once handed out keeps its meaning only because ids are never used twice.
TablesInv ==
  TypeOK /\ IdsSound /\ JobsSound /\ PageIdsStay /\ ReplyNeverMisdirects

\* An empty database promises nothing.
LEMMA TablesInit == Init => TablesInv
<1> SUFFICES ASSUME Init
             PROVE  TablesInv
  OBVIOUS
<1>1. TypeOK
  BY NoJobType, ConstantsAssumption DEF Init, TypeOK, Table
<1>2. Rows(rows) = {}
  BY DEF Init, Rows
<1> QED
  BY <1>1, <1>2
     DEF Init, TablesInv, IdsSound, JobsSound, PageIdsStay,
         ReplyNeverMisdirects

\* A change of enabled_services that keeps the id of every row, and gives new
\* rows the id just generated: every id generated before means what it meant.
RowsKept ==
  /\ rows' \in Table
  /\ nextId' \in {nextId, nextId + 1}
  /\ \A i \in Idents :
       \/ rows[i] # NoRow /\ rows'[i] # NoRow /\ rows'[i].id = rows[i].id
       \/ rows[i] = NoRow /\ rows'[i] = NoRow
       \/ rows[i] = NoRow /\ rows'[i] # NoRow /\ rows'[i].id = nextId

\* Such a change leaves the rows of every id generated before as they are.
LEMMA OldIdsKept ==
  ASSUME TypeOK, RowsKept, NEW id \in Nat, id < nextId
  PROVE  RowsWithId(id)' = RowsWithId(id)
BY ConstantsAssumption DEF TypeOK, RowsKept, RowsWithId, Rows

\* The promises made to dashboards and to handlers that wait survive such a
\* change.
LEMMA PromisesKept ==
  ASSUME TablesInv, RowsKept
  PROVE  /\ UNCHANGED page => PageIdsStay'
         /\ UNCHANGED reply => ReplyNeverMisdirects'
         /\ \A v \in Admins :
              /\ pc[v] = "enabled" =>
                   /\ job[v].ident \in Idents
                   /\ job[v].id < nextId'
                   /\ \A i \in Rows(rows)' :
                        rows'[i].id = job[v].id => i = job[v].ident
              /\ pc[v] = "discovery" =>
                   /\ job[v].table \in Table
                   /\ \A i \in Rows(job[v].table) :
                        rows'[i] # NoRow /\ rows'[i].id = job[v].table[i].id
<1>1. nextId \in Nat /\ nextId' \in Nat /\ nextId' >= nextId
  BY ConstantsAssumption DEF TablesInv, TypeOK, RowsKept
<1>2. \A i \in Idents : rows[i] # NoRow =>
        rows'[i] # NoRow /\ rows'[i].id = rows[i].id
  BY DEF RowsKept
<1>3. UNCHANGED page => PageIdsStay'
  <2> SUFFICES ASSUME UNCHANGED page, NEW u \in Admins, NEW x \in page[u]
               PROVE  rows'[x.ident] # NoRow /\ rows'[x.ident].id = x.id
    BY DEF PageIdsStay
  <2>1. x.ident \in Idents
    BY DEF TablesInv, TypeOK
  <2> QED
    BY <1>2, <2>1 DEF TablesInv, PageIdsStay
<1>4. UNCHANGED reply => ReplyNeverMisdirects'
  <2> SUFFICES ASSUME UNCHANGED reply, NEW u \in Admins, NEW x \in reply[u]
               PROVE  x.id < nextId' /\ RowsWithId(x.id)' \subseteq {x.ident}
    BY DEF ReplyNeverMisdirects
  <2>1. x.id \in Nat
    BY ConstantsAssumption DEF TablesInv, TypeOK, Ids
  <2>2. x.id < nextId /\ RowsWithId(x.id) \subseteq {x.ident}
    BY DEF TablesInv, ReplyNeverMisdirects
  <2>3. RowsWithId(x.id)' = RowsWithId(x.id)
    BY <2>1, <2>2, OldIdsKept DEF TablesInv
  <2> QED
    BY <1>1, <2>1, <2>2, <2>3
<1>5. ASSUME NEW v \in Admins, pc[v] = "enabled"
      PROVE  /\ job[v].ident \in Idents
             /\ job[v].id < nextId'
             /\ \A i \in Rows(rows)' :
                  rows'[i].id = job[v].id => i = job[v].ident
  <2>1. job[v].id \in Nat
    BY ConstantsAssumption DEF TablesInv, TypeOK, Job
  <2>2. /\ job[v].ident \in Idents
        /\ job[v].id < nextId
        /\ RowsWithId(job[v].id) \subseteq {job[v].ident}
    BY <1>5 DEF TablesInv, JobsSound
  <2>3. PICK id \in Nat : id = job[v].id
    BY <2>1
  <2>4. RowsWithId(id)' = RowsWithId(id)
    BY <2>2, <2>3, OldIdsKept DEF TablesInv
  <2> QED
    BY <1>1, <2>1, <2>2, <2>3, <2>4 DEF RowsWithId
<1>6. ASSUME NEW v \in Admins, pc[v] = "discovery"
      PROVE  /\ job[v].table \in Table
             /\ \A i \in Rows(job[v].table) :
                  rows'[i] # NoRow /\ rows'[i].id = job[v].table[i].id
  <2>1. /\ job[v].table \in Table
        /\ \A i \in Rows(job[v].table) :
             rows[i] # NoRow /\ rows[i].id = job[v].table[i].id
    BY <1>6 DEF TablesInv, JobsSound
  <2> QED
    BY <1>2, <2>1 DEF Rows
<1> QED
  BY <1>3, <1>4, <1>5, <1>6

\* A handler up to its first statement.
LEMMA BeginKeeps ==
  ASSUME TablesInv, NEW u \in Admins, Begin(u)
  PROVE  TablesInv'
<1> USE DEF TablesInv
<1>1. ASSUME NEW i \in Idents, NEW c \in Configs, enable_upsert(u, i, c)
      PROVE  TablesInv'
  <2> DEFINE new == [id |-> IF rows[i] = NoRow THEN nextId ELSE rows[i].id,
                     cfg |-> c, enabled |-> TRUE]
             task == [NoJob EXCEPT !.ident = i, !.id = nextId]
  <2>1. nextId \in Ids /\ nextId' = nextId + 1 /\ nextId' \in 0..MaxIds
    BY <1>1, ConstantsAssumption DEF enable_upsert, TypeOK, Ids
  <2>2. new \in Row /\ new # NoRow
    <3>1. c \in Allowed
      BY <1>1 DEF enable_upsert, Valid
    <3>2. new.id \in Ids
      BY <2>1 DEF TypeOK, Table, Row
    <3>3. new \in Row
      BY <3>1, <3>2 DEF Row
    <3> QED
      BY <3>3, ConstantsAssumption DEF Row, Ids
  <2>3. rows' = [rows EXCEPT ![i] = new]
    BY <1>1 DEF enable_upsert, upsert_enabled_service
  <2>4. /\ task \in Job
        /\ task.ident = i
        /\ task.id = nextId
    <3>1. nextId \in 0..MaxIds
      BY DEF TypeOK
    <3> QED
      BY <3>1 DEF NoJob, Job
  <2>5. job' = [job EXCEPT ![u] = task] /\ pc' = [pc EXCEPT ![u] = "enabled"]
        /\ UNCHANGED <<snaps, page, reply>>
    BY <1>1 DEF enable_upsert
  <2>6. new.id = IF rows[i] = NoRow THEN nextId ELSE rows[i].id
    OBVIOUS
  <2> HIDE DEF new, task
  <2>7. TypeOK'
    BY <2>1, <2>2, <2>3, <2>4, <2>5 DEF TypeOK, Table
  <2>8. \A j \in Idents : rows'[j] = IF j = i THEN new ELSE rows[j]
    BY <2>3 DEF TypeOK, Table
  <2>9. RowsKept
    BY <2>1, <2>2, <2>6, <2>7, <2>8 DEF RowsKept, TypeOK
  <2>10. \A j \in Rows(rows) : rows[j].id \in Nat /\ rows[j].id < nextId
    BY ConstantsAssumption DEF IdsSound, TypeOK, Table, Row, Ids, Rows
  <2>11. IdsSound'
    <3>1. \A j \in Rows(rows)' :
            \/ j \in Rows(rows) /\ rows'[j].id = rows[j].id
            \/ j = i /\ j \notin Rows(rows) /\ rows'[j].id = nextId
      BY <2>6, <2>8 DEF Rows
    <3> QED
      BY <3>1, <2>1, <2>10, ConstantsAssumption DEF IdsSound, Ids
  <2>12. JobsSound'
    <3> SUFFICES ASSUME NEW v \in Admins
                 PROVE  JobsSound!(v)'
      BY DEF JobsSound
    <3>1. CASE v = u
      <4>1. job'[v] = task /\ pc'[v] = "enabled"
        BY <3>1, <2>5 DEF TypeOK
      <4>2. \A k \in Rows(rows)' : rows'[k].id = nextId => k = i
        BY <2>1, <2>8, <2>10, ConstantsAssumption DEF Rows, Ids
      <4> QED
        BY <4>1, <4>2, <2>1, <2>4, ConstantsAssumption DEF RowsWithId, Ids
    <3>2. CASE v # u
      <4>1. job'[v] = job[v] /\ pc'[v] = pc[v]
        BY <3>2, <2>5 DEF TypeOK
      <4> QED
        BY <4>1, <2>9, PromisesKept DEF RowsWithId, Rows
    <3> QED
      BY <3>1, <3>2
  <2> QED
    BY <2>5, <2>7, <2>9, <2>11, <2>12, PromisesKept
<1>2. ASSUME NEW id \in Ids, disable_service(u, id)
      PROVE  TablesInv'
  <2>1. rows' \in Table
    BY <1>2 DEF disable_service, RowsWithId, Rows, TypeOK, Table, Row
  <2>2. \A j \in Idents :
          \/ rows[j] = NoRow /\ rows'[j] = NoRow
          \/ rows[j] # NoRow /\ rows'[j] # NoRow /\ rows'[j].id = rows[j].id
    BY <1>2, ConstantsAssumption
       DEF disable_service, RowsWithId, Rows, TypeOK, Table, Row, Ids
  <2>3. UNCHANGED <<snaps, nextId, pc, job, page, reply>>
    BY <1>2 DEF disable_service
  <2>4. RowsKept
    BY <2>1, <2>2, <2>3 DEF RowsKept
  <2>5. TypeOK'
    BY <2>1, <2>3 DEF TypeOK
  <2>6. IdsSound'
    BY <2>2, <2>3 DEF IdsSound, RowsWithId, Rows
  <2>7. JobsSound'
    BY <2>3, <2>4, PromisesKept DEF JobsSound, RowsWithId
  <2> QED
    BY <2>3, <2>4, <2>5, <2>6, <2>7, PromisesKept
<1>3. CASE discovery_enabled(u)
  <2> DEFINE task == [NoJob EXCEPT !.table = rows]
  <2>1. task \in Job /\ task.table = rows
    BY NoJobType DEF NoJob, Job, TypeOK
  <2>2. job' = [job EXCEPT ![u] = task] /\ pc' = [pc EXCEPT ![u] = "discovery"]
        /\ UNCHANGED <<rows, snaps, nextId, page, reply>>
    BY <1>3 DEF discovery_enabled
  <2> HIDE DEF task
  <2>3. TypeOK'
    BY <2>1, <2>2 DEF TypeOK
  <2>4. JobsSound'
    <3> SUFFICES ASSUME NEW v \in Admins
                 PROVE  JobsSound!(v)'
      BY DEF JobsSound
    <3>1. CASE v = u
      <4>1. job'[v] = task /\ pc'[v] = "discovery"
        BY <3>1, <2>2 DEF TypeOK
      <4> QED
        BY <4>1, <2>1, <2>2 DEF Rows, TypeOK
    <3>2. CASE v # u
      <4>1. job'[v] = job[v] /\ pc'[v] = pc[v]
        BY <3>2, <2>2 DEF TypeOK
      <4> QED
        BY <4>1, <2>2 DEF JobsSound, RowsWithId, Rows
    <3> QED
      BY <3>1, <3>2
  <2> QED
    BY <2>2, <2>3, <2>4
       DEF IdsSound, PageIdsStay, ReplyNeverMisdirects, RowsWithId, Rows
<1> QED
  BY <1>1, <1>2, <1>3 DEF Begin

\* The handlers of some administrators end, and the tables stay: PageIdsStay
\* and ReplyNeverMisdirects are left to the step.
LEMMA JobsEndKeeps ==
  ASSUME TablesInv, UNCHANGED <<rows, snaps, nextId>>,
         pc' \in [Admins -> {"idle", "enabled", "discovery"}],
         job' \in [Admins -> Job],
         \A v \in Admins : \/ pc'[v] = "idle"
                           \/ pc'[v] = pc[v] /\ job'[v] = job[v]
  PROVE  /\ IdsSound'
         /\ JobsSound'
         /\ UNCHANGED page => PageIdsStay'
         /\ UNCHANGED reply => ReplyNeverMisdirects'
         /\ UNCHANGED <<page, reply>> => TypeOK'
BY DEF TablesInv, TypeOK, IdsSound, JobsSound, PageIdsStay,
       ReplyNeverMisdirects, RowsWithId, Rows

\* The rest of a handler.
LEMMA ContinueKeeps ==
  ASSUME TablesInv, NEW u \in Admins, Continue(u)
  PROVE  TablesInv'
<1> USE DEF TablesInv
<1>1. /\ UNCHANGED <<rows, snaps, nextId>>
      /\ pc' = [pc EXCEPT ![u] = "idle"]
      /\ job' = [job EXCEPT ![u] = NoJob]
  BY DEF Continue, enable_reply, discovery_join, Abort
<1>2. /\ pc' \in [Admins -> {"idle", "enabled", "discovery"}]
      /\ job' \in [Admins -> Job]
      /\ \A v \in Admins : \/ pc'[v] = "idle"
                           \/ pc'[v] = pc[v] /\ job'[v] = job[v]
  BY <1>1, NoJobType DEF TypeOK
<1>3. CASE enable_reply(u)
  <2>1. /\ job[u].ident \in Idents
        /\ job[u].id \in Ids
        /\ job[u].id < nextId
        /\ RowsWithId(job[u].id) \subseteq {job[u].ident}
    <3>1. /\ job[u].ident \in Idents
          /\ job[u].id < nextId
          /\ RowsWithId(job[u].id) \subseteq {job[u].ident}
      BY <1>3 DEF enable_reply, JobsSound
    <3>2. job[u].id \in 0..MaxIds /\ nextId \in 0..MaxIds
      BY DEF TypeOK, Job
    <3>3. job[u].id \in Ids
      BY <3>1, <3>2, ConstantsAssumption DEF Ids
    <3> QED
      BY <3>1, <3>3
  <2>2. PICK id \in Ids :
          /\ reply' = [reply EXCEPT ![u] =
                         @ \union {[ident |-> job[u].ident, id |-> id]}]
          /\ id < nextId
          /\ RowsWithId(id) \subseteq {job[u].ident}
    <3>1. CASE Found(u) = {}
      BY <1>3, <2>1, <3>1 DEF enable_reply
    <3>2. ASSUME NEW i \in Found(u),
                 reply' = [reply EXCEPT ![u] =
                             @ \union {[ident |-> job[u].ident, id |-> rows[i].id]}]
          PROVE  \E id \in Ids :
                   /\ reply' = [reply EXCEPT ![u] =
                                  @ \union {[ident |-> job[u].ident, id |-> id]}]
                   /\ id < nextId
                   /\ RowsWithId(id) \subseteq {job[u].ident}
      <4>1. i = job[u].ident /\ i \in Rows(rows)
        BY DEF Found, list_enabled_for_agent
      <4>2. rows[i].id \in Ids
        BY <4>1 DEF TypeOK, Table, Row, Rows
      <4>3. rows[i].id < nextId /\ RowsWithId(rows[i].id) = {i}
        BY <4>1 DEF IdsSound, RowsWithId
      <4> QED
        BY <3>2, <4>1, <4>2, <4>3
    <3> QED
      BY <1>3, <3>1, <3>2 DEF enable_reply
  <2>3. UNCHANGED page
    BY <1>3 DEF enable_reply
  <2> DEFINE told == [ident |-> job[u].ident, id |-> id]
  <2>4. told \in [ident : Idents, id : Ids] /\ told.id = id /\ told.ident = job[u].ident
    BY <2>1
  <2> HIDE DEF told
  <2>5. reply' \in [Admins -> SUBSET [ident : Idents, id : Ids]]
        /\ \A v \in Admins : \A x \in reply'[v] : x \in reply[v] \/ x = told
    BY <2>2, <2>4 DEF TypeOK, told
  <2>6. ReplyNeverMisdirects'
    BY <1>1, <2>2, <2>4, <2>5 DEF ReplyNeverMisdirects, RowsWithId, Rows
  <2>7. TypeOK'
    BY <1>1, <1>2, <2>3, <2>5 DEF TypeOK
  <2> QED
    BY <1>1, <1>2, <2>3, <2>6, <2>7, JobsEndKeeps
<1>4. CASE discovery_join(u)
  <2> DEFINE t == job[u].table
             shown == {i \in Rows(t) : t[i].enabled /\ i[2] \in snaps[i[1]]}
             new == {[ident |-> i, id |-> t[i].id, cfg |-> t[i].cfg] : i \in shown}
  <2>1. /\ t \in Table
        /\ \A i \in Rows(t) : rows[i] # NoRow /\ rows[i].id = t[i].id
    BY <1>4 DEF discovery_join, JobsSound
  <2>2. page' = [page EXCEPT ![u] = new] /\ UNCHANGED reply
    BY <1>4 DEF discovery_join
  <2>3. \A i \in shown : i \in Idents /\ t[i] \in Row /\ i \in Rows(t)
    BY <2>1 DEF Table, Rows
  <2>4. \A x \in new : /\ x \in [ident : Idents, id : Ids, cfg : Allowed]
                       /\ rows[x.ident] # NoRow
                       /\ rows[x.ident].id = x.id
    BY <2>1, <2>3 DEF Row
  <2> HIDE DEF new, shown, t
  <2>5. PageIdsStay' /\ page' \in [Admins -> SUBSET [ident : Idents, id : Ids, cfg : Allowed]]
    BY <1>1, <2>2, <2>4 DEF PageIdsStay, TypeOK
  <2>6. TypeOK'
    BY <1>1, <1>2, <2>2, <2>5 DEF TypeOK
  <2> QED
    BY <1>1, <1>2, <2>2, <2>5, <2>6, JobsEndKeeps
<1>5. CASE Abort(u)
  BY <1>1, <1>2, <1>5, JobsEndKeeps DEF Abort
<1> QED
  BY <1>3, <1>4, <1>5 DEF Continue

\* An agent's discovery report touches no row and no id (put_discovery).
LEMMA ReportKeeps ==
  ASSUME TablesInv, Report
  PROVE  TablesInv'
<1>1. UNCHANGED <<rows, nextId, pc, job, page, reply>>
      /\ snaps' \in [Agents -> SUBSET Keys]
  BY DEF Report, put_discovery, TablesInv, TypeOK
<1> QED
  BY <1>1 DEF TablesInv, TypeOK, IdsSound, JobsSound, PageIdsStay,
              ReplyNeverMisdirects, RowsWithId, Rows

\* A restart loses the handlers and keeps the tables and the pages.
LEMMA RestartKeeps ==
  ASSUME TablesInv, Restart
  PROVE  TablesInv'
<1>1. /\ UNCHANGED <<rows, snaps, nextId, page, reply>>
      /\ pc' = [u \in Admins |-> "idle"]
      /\ job' = [u \in Admins |-> NoJob]
  BY DEF Restart
<1>2. /\ pc' \in [Admins -> {"idle", "enabled", "discovery"}]
      /\ job' \in [Admins -> Job]
      /\ \A v \in Admins : pc'[v] = "idle"
  BY <1>1, NoJobType
<1> QED
  BY <1>1, <1>2, JobsEndKeeps DEF TablesInv

\* Every step of the API and of its administrators keeps the tables sound.
LEMMA TablesStep == TablesInv /\ [ApiNext]_apiVars => TablesInv'
<1> SUFFICES ASSUME TablesInv, [ApiNext]_apiVars
             PROVE  TablesInv'
  OBVIOUS
<1>1. CASE UNCHANGED vars
  BY <1>1 DEF vars, TablesInv, TypeOK, IdsSound, JobsSound, PageIdsStay,
              ReplyNeverMisdirects, RowsWithId, Rows
<1>2. ASSUME NEW u \in Admins, Continue(u) \/ \E b \in Bearers : handle(u, b)
      PROVE  TablesInv'
  BY <1>2, BeginKeeps, ContinueKeeps DEF handle
<1> QED
  BY <1>1, <1>2, ReportKeeps, RestartKeeps
     DEF ApiNext, apiVars, admin_login, admin_logout, unauthorized, Tick

-----------------------------------------------------------------------------
(* The sessions.                                                           *)

SessionTypes ==
  /\ sessions \subseteq Tokens
  /\ left \in [Tokens -> 0..SessionTTL]
  /\ since \in [Tokens -> 0..SessionTTL]

\* SessionsExact is not inductive: it does not say when a token that counts
\* will stop doing so.  LeftExact does.
LEMMA ExactFromLeft ==
  ASSUME SessionTypes, LeftExact
  PROVE  SessionsExact
BY SessionTTLType DEF SessionTypes, LeftExact, SessionsExact, valid, purge_locked

\* The session map is empty at start.
LEMMA SessionsInit == ApiInit => SessionTypes /\ LeftExact
BY SessionTTLType DEF ApiInit, Ended, SessionTypes, LeftExact

\* Login, logout, expiry and purges keep the lifetimes exact.
LEMMA SessionsStep ==
  SessionTypes /\ LeftExact /\ [ApiNext]_apiVars => (SessionTypes /\ LeftExact)'
<1> SUFFICES ASSUME SessionTypes, LeftExact, [ApiNext]_apiVars
             PROVE  (SessionTypes /\ LeftExact)'
  OBVIOUS
<1> USE SessionTTLType DEF SessionTypes, LeftExact
<1>1. CASE sessions' = purge_locked /\ UNCHANGED <<left, since>>
  BY <1>1 DEF purge_locked
<1>2. ASSUME NEW t \in Tokens, admin_login(t)
      PROVE  (SessionTypes /\ LeftExact)'
  BY <1>2 DEF admin_login, create, purge_locked
<1>3. ASSUME NEW t \in Tokens, admin_logout(t)
      PROVE  (SessionTypes /\ LeftExact)'
  BY <1>3 DEF admin_logout, revoke, Ended
<1>4. CASE Restart
  BY <1>4 DEF Restart, Ended
<1>5. CASE Tick
  <2>1. \A t \in Tokens :
          /\ left'[t] = IF left[t] > 0 THEN left[t] - 1 ELSE 0
          /\ since'[t] = IF since[t] < SessionTTL THEN since[t] + 1 ELSE SessionTTL
    <3> SUFFICES ASSUME NEW t \in Tokens
                 PROVE  /\ left'[t] = IF left[t] > 0 THEN left[t] - 1 ELSE 0
                        /\ since'[t] = IF since[t] < SessionTTL
                                       THEN since[t] + 1 ELSE SessionTTL
      OBVIOUS
    <3>1. left'[t] = Max({0, left[t] - 1}) /\ since'[t] = Min({SessionTTL, since[t] + 1})
      BY <1>5 DEF Tick, Ended
    <3>2. left[t] \in Nat /\ since[t] \in Nat /\ since[t] <= SessionTTL
      OBVIOUS
    <3>3. Max({0, left[t] - 1}) = IF 0 >= left[t] - 1 THEN 0 ELSE left[t] - 1
      BY <3>2, MaxOfTwo
    <3>4. Min({SessionTTL, since[t] + 1}) =
            IF SessionTTL <= since[t] + 1 THEN SessionTTL ELSE since[t] + 1
      BY <3>2, MinOfTwo
    <3> QED
      BY <3>1, <3>2, <3>3, <3>4
  <2>2. /\ left' = [t \in Tokens |-> left'[t]]
        /\ since' = [t \in Tokens |-> since'[t]]
        /\ UNCHANGED sessions
    BY <1>5 DEF Tick
  <2>3. \A t \in Tokens : left'[t] \in 0..SessionTTL /\ since'[t] \in 0..SessionTTL
    BY <2>1
  <2>4. SessionTypes'
    BY <2>2, <2>3
  <2> QED
    BY <2>1, <2>2, <2>4
<1>6. CASE UNCHANGED sessionVars
  BY <1>6 DEF sessionVars
<1> QED
  BY <1>1, <1>2, <1>3, <1>4, <1>5, <1>6
     DEF ApiNext, apiVars, handle, unauthorized, sessionVars

-----------------------------------------------------------------------------
(* The theorems.                                                           *)

\* Tables and sessions are sound in every state.
LEMMA ApiInv == ApiSpec => [](TablesInv /\ SessionTypes /\ LeftExact)
<1>1. ApiInit => TablesInv /\ SessionTypes /\ LeftExact
  BY TablesInit, SessionsInit DEF ApiInit
<1> QED
  BY <1>1, TablesStep, SessionsStep, PTL DEF ApiSpec

\* A token counts from its login until it expires, is logged out or is lost in
\* a restart, whoever else logs in and out meanwhile; every enabled service
\* has an id of its own, and a handler that resumes finds what it has read
\* still true (sessions.rs, admin_enable_service, admin_discovery).
THEOREM SessionsAreExact == ApiSpec => []AdminInv
<1>1. TablesInv /\ SessionTypes /\ LeftExact => AdminInv
  BY ExactFromLeft DEF TablesInv, SessionTypes, AdminInv, SessionsTypeOK
<1> QED
  BY <1>1, ApiInv, PTL

\* No request and no restart gives a service on a dashboard's page another id
\* (upsert_enabled_service keeps the id on conflict).
THEOREM PageIdsAreKept == ApiSpec => []PageIdsStay
<1>1. TablesInv => PageIdsStay
  BY DEF TablesInv
<1> QED
  BY <1>1, ApiInv, PTL

\* The id an enable request was answered never comes to mean another service
\* (admin_enable_service).
THEOREM RepliesAreSafe == ApiSpec => []ReplyNeverMisdirects
<1>1. TablesInv => ReplyNeverMisdirects
  BY DEF TablesInv
<1> QED
  BY <1>1, ApiInv, PTL

=============================================================================
