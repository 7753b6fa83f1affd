-------------------------- MODULE EnrollmentProofs --------------------------
(***************************************************************************)
(* Proofs about Enrollment, for any nodes, tokens, agent ids, number of    *)
(* requests in flight and number of crashes.                               *)
(***************************************************************************)
EXTENDS Enrollment, TLAPS

\* Neither EnrollmentInv nor CredentialsSound is inductive alone: a handler
\* hands over a sound credential because its own answer is sound, and its
\* answer stays its own because every other credential has a row.
IInv == EnrollmentInv /\ CredentialsSound

USE DEF IInv, EnrollmentInv

-----------------------------------------------------------------------------
(* IInv is an invariant.                                                   *)

\* The records the actions build are typed.
LEMMA RecordFacts ==
  /\ IdleReq \in Req
  /\ IdleReq.pc = "idle"
  /\ Down \in Node
  /\ Down.pc = "down"
  /\ Down.agent = NoAgent
BY DEF IdleReq, Req, Down, Node

\* Before anyone has enrolled.
LEMMA InitInv == Init => IInv
BY ConstantsAssumption, RecordFacts
   DEF Init, TypeOK, TokenSpentFirst, AnswersSound, NodesSound,
       CredentialsSound, Creds, IdleReq, Down

\* A request that ends without enrolling, whatever it has reached.
LEMMA RefuseKeeps ==
  ASSUME IInv, NEW q \in Reqs, Refuse(q),
         UNCHANGED <<tokens, agents, disk, crashes>>
  PROVE  IInv'
<1>1. TypeOK'
  BY RecordFacts DEF TypeOK, Refuse
<1>2. \A n \in Nodes :
        \/ node'[n] = Down
        \/ node'[n] = node[n] /\ n \notin Waiting(q)
  BY DEF Refuse
<1>3. \A n \in Nodes : Creds(n)' \subseteq Creds(n)
  BY <1>2, ConstantsAssumption, RecordFacts DEF Creds
<1>4. \A p \in Reqs : req'[p] = IF p = q THEN IdleReq ELSE req[p]
  BY DEF Refuse, TypeOK
<1>5. TokenSpentFirst'
  BY <1>4, RecordFacts DEF TokenSpentFirst
<1>6. AnswersSound'
  BY <1>3, <1>4, RecordFacts DEF AnswersSound
<1>7. NodesSound'
  BY <1>2, <1>4, RecordFacts DEF NodesSound, Waiting
<1>8. CredentialsSound'
  BY <1>3 DEF CredentialsSound
<1> QED
  BY <1>1, <1>5, <1>6, <1>7, <1>8

\* The steps of the handler.
LEMMA HandlerKeeps ==
  ASSUME IInv, NEW q \in Reqs, EnrollStep(q) \/ Abort(q)
  PROVE  IInv'
<1> USE DEF TypeOK
<1>1. CASE req[q].pc = "select" /\ tokens[req[q].token] = "unused"
           /\ req' = [req EXCEPT ![q].pc = "update"]
           /\ UNCHANGED <<tokens, agents, node, disk, crashes>>
  <2>1. TypeOK'
    BY <1>1 DEF Req
  <2>2. \A n \in Nodes : Creds(n)' = Creds(n)
    BY <1>1 DEF Creds
  <2>3. \A p \in Reqs : /\ req'[p].token = req[p].token
                        /\ req'[p].agent = req[p].agent
                        /\ req'[p].pc = IF p = q THEN "update" ELSE req[p].pc
    BY <1>1 DEF Req
  <2>4. TokenSpentFirst'
    BY <1>1, <2>3 DEF TokenSpentFirst
  <2>5. AnswersSound'
    BY <1>1, <2>2, <2>3 DEF AnswersSound
  <2>6. NodesSound'
    BY <1>1, <2>3 DEF NodesSound
  <2>7. CredentialsSound'
    BY <1>1, <2>2 DEF CredentialsSound
  <2> QED
    BY <2>1, <2>4, <2>5, <2>6, <2>7
<1>2. CASE consume_update(q)
  <2>1. req[q].token \in Tokens
    BY <1>2 DEF consume_update, AnswersSound
  <2>2. TypeOK'
    BY <1>2, <2>1 DEF consume_update, Req
  <2>3. \A n \in Nodes : Creds(n)' = Creds(n)
    BY <1>2 DEF consume_update, Creds
  <2>4. \A p \in Reqs : /\ req'[p].token = req[p].token
                        /\ req'[p].agent = req[p].agent
                        /\ req'[p].pc = IF p = q THEN "insert" ELSE req[p].pc
    BY <1>2 DEF consume_update, Req
  <2>5. \A t \in Tokens : tokens[t] = "used" => tokens'[t] = "used"
    BY <1>2 DEF consume_update
  <2>6. tokens'[req[q].token] = "used"
    BY <1>2, <2>1 DEF consume_update
  <2>7. TokenSpentFirst'
    <3>1. \A i \in AgentIds : agents'[i] # NoToken => tokens'[agents'[i]] = "used"
      BY <1>2, <2>5 DEF consume_update, TokenSpentFirst
    <3>2. \A p \in Reqs : req'[p].pc = "insert" => tokens'[req'[p].token] = "used"
      BY <2>4, <2>5, <2>6 DEF TokenSpentFirst, AnswersSound
    <3> QED
      BY <3>1, <3>2 DEF TokenSpentFirst
  <2>8. AnswersSound'
    BY <1>2, <2>3, <2>4 DEF consume_update, AnswersSound
  <2>9. NodesSound'
    BY <1>2, <2>4 DEF consume_update, NodesSound
  <2>10. CredentialsSound'
    BY <1>2, <2>3 DEF consume_update, CredentialsSound
  <2> QED
    BY <2>2, <2>7, <2>8, <2>9, <2>10
<1>3. ASSUME NEW i \in AgentIds, enroll_agent(q, i)
      PROVE  IInv'
  <2>1. req[q].token \in Tokens /\ tokens[req[q].token] = "used"
    BY <1>3 DEF enroll_agent, AnswersSound, TokenSpentFirst
  <2>2. TypeOK'
    BY <1>3, <2>1 DEF enroll_agent, Req
  <2>3. \A n \in Nodes : Creds(n)' = Creds(n)
    BY <1>3 DEF enroll_agent, Creds
  <2>4. \A p \in Reqs : /\ req'[p].token = req[p].token
                        /\ req'[p].agent = IF p = q THEN i ELSE req[p].agent
                        /\ req'[p].pc = IF p = q THEN "reply" ELSE req[p].pc
    BY <1>3 DEF enroll_agent, Req
  <2>5. \A j \in AgentIds : agents'[j] = IF j = i THEN req[q].token ELSE agents[j]
    BY <1>3 DEF enroll_agent
  <2>6. \A n \in Nodes : i \notin Creds(n)
    BY <1>3, ConstantsAssumption DEF enroll_agent, CredentialsSound
  <2>7. \A p \in Reqs : req[p].pc = "reply" => req[p].agent # i
    BY <1>3, ConstantsAssumption DEF enroll_agent, AnswersSound
  <2>8. TokenSpentFirst'
    BY <1>3, <2>1, <2>4, <2>5 DEF enroll_agent, TokenSpentFirst
  <2>9. AnswersSound'
    BY <2>1, <2>3, <2>4, <2>5, <2>6, <2>7 DEF AnswersSound
  <2>10. NodesSound'
    BY <1>3, <2>4 DEF enroll_agent, NodesSound
  <2>11. CredentialsSound'
    BY <2>3, <2>5, <2>6 DEF CredentialsSound, Creds
  <2> QED
    BY <2>2, <2>8, <2>9, <2>10, <2>11
<1>4. CASE enroll_reply(q)
  <2> DEFINE i == req[q].agent
  <2>1. /\ i \in AgentIds
        /\ agents[i] = req[q].token
        /\ \A n \in Nodes : i \notin Creds(n)
        /\ \A p \in Reqs \ {q} : req[p].pc = "reply" => req[p].agent # i
    BY <1>4 DEF enroll_reply, AnswersSound
  <2>2. \A n \in Nodes :
          \/ n \notin Waiting(q) /\ node'[n] = node[n]
          \/ /\ n \in Waiting(q)
             /\ node'[n] = [pc |-> "save", req |-> NoReq, agent |-> i]
    BY <1>4 DEF enroll_reply
  <2>3. \A p \in Reqs : req'[p] = IF p = q THEN IdleReq ELSE req[p]
    BY <1>4 DEF enroll_reply
  <2>4. UNCHANGED <<tokens, agents, disk, crashes>>
    BY <1>4 DEF enroll_reply
  <2>5. TypeOK'
    <3>1. node' \in [Nodes -> Node]
      BY <1>4, <2>1 DEF enroll_reply, Node
    <3> QED
      BY <1>4, <2>4, <3>1, RecordFacts DEF enroll_reply
  <2>6. \A n \in Nodes : n \in Waiting(q) => TokenOf[n] = req[q].token
    BY DEF Waiting, NodesSound
  <2>7. \A m, n \in Nodes : m \in Waiting(q) /\ n \in Waiting(q) => m = n
    BY DEF Waiting, NodesSound
  <2>8. \A n \in Nodes : Creds(n)' \subseteq
          Creds(n) \union (IF n \in Waiting(q) THEN {i} ELSE {})
    BY <2>2, <2>4 DEF Creds
  <2>9. TokenSpentFirst'
    BY <2>3, <2>4, RecordFacts DEF TokenSpentFirst
  <2>10. AnswersSound'
    BY <2>1, <2>3, <2>4, <2>8, RecordFacts DEF AnswersSound
  <2>11. NodesSound'
    BY <2>1, <2>2, <2>3, <2>4, RecordFacts, ConstantsAssumption
       DEF NodesSound, Waiting
  <2>12. CredentialsSound'
    BY <2>1, <2>4, <2>6, <2>7, <2>8 DEF CredentialsSound
  <2> QED
    BY <2>5, <2>9, <2>10, <2>11, <2>12
<1>5. CASE Refuse(q) /\ UNCHANGED <<tokens, agents, disk, crashes>>
  BY <1>5, RefuseKeeps
<1> QED
  BY <1>1, <1>2, <1>3, <1>4, <1>5
     DEF EnrollStep, consume_select, Abort

\* The steps of an agent.
LEMMA AgentKeeps ==
  ASSUME IInv, NEW n \in Nodes, Start(n) \/ Save(n) \/ Crash(n)
  PROVE  IInv'
<1> USE DEF TypeOK
<1>1. CASE StartPersisted(n)
  <2>1. \A m \in Nodes :
          node'[m] = IF m = n
                     THEN [pc |-> "running", req |-> NoReq, agent |-> disk[n]]
                     ELSE node[m]
    BY <1>1 DEF StartPersisted
  <2>2. UNCHANGED <<tokens, agents, req, disk, crashes>>
    BY <1>1 DEF StartPersisted
  <2>3. TypeOK'
    BY <1>1 DEF StartPersisted, Node
  <2>4. \A m \in Nodes : Creds(m)' \subseteq Creds(m)
    BY <2>1, <2>2 DEF Creds
  <2>5. TokenSpentFirst' /\ AnswersSound' /\ CredentialsSound'
    BY <2>2, <2>4 DEF TokenSpentFirst, AnswersSound, CredentialsSound
  <2>6. NodesSound'
    BY <1>1, <2>1, <2>2 DEF StartPersisted, NodesSound
  <2> QED
    BY <2>3, <2>5, <2>6
<1>2. ASSUME NEW q \in Reqs, StartEnroll(n, q)
      PROVE  IInv'
  <2>1. \A m \in Nodes :
          node'[m] = IF m = n
                     THEN [pc |-> "enrolling", req |-> q, agent |-> NoAgent]
                     ELSE node[m]
    BY <1>2 DEF StartEnroll
  <2>2. \A p \in Reqs :
          req'[p] = IF p = q
                    THEN [pc |-> "select", token |-> TokenOf[n],
                          agent |-> NoAgent]
                    ELSE req[p]
    BY <1>2 DEF StartEnroll
  <2>3. UNCHANGED <<tokens, agents, disk, crashes>>
    BY <1>2 DEF StartEnroll
  <2>4. TokenOf[n] \in Tokens
    BY ConstantsAssumption
  <2>5. TypeOK'
    BY <1>2, <2>4 DEF StartEnroll, Node, Req
  <2>6. \A m \in Nodes : Creds(m)' \subseteq Creds(m)
    BY <2>1, <2>3, ConstantsAssumption DEF Creds
  <2>7. TokenSpentFirst'
    BY <2>2, <2>3 DEF TokenSpentFirst
  <2>8. AnswersSound'
    BY <2>2, <2>3, <2>4, <2>6 DEF AnswersSound
  <2>9. \A m \in Nodes : node[m].pc = "enrolling" => node[m].req # q
    BY <1>2 DEF StartEnroll, NodesSound
  <2>10. NodesSound'
    BY <1>2, <2>1, <2>2, <2>3, <2>9 DEF StartEnroll, NodesSound
  <2>11. CredentialsSound'
    BY <2>3, <2>6 DEF CredentialsSound
  <2> QED
    BY <2>5, <2>7, <2>8, <2>10, <2>11
<1>3. CASE Save(n)
  <2>1. UNCHANGED <<tokens, agents, req, crashes>>
    BY <1>3 DEF Save, save_create, save_write
  <2>2. node[n].pc \in {"save", "write"}
    BY <1>3 DEF Save, save_create, save_write
  <2>3. node[n].agent \in AgentIds /\ disk[n] \notin AgentIds
    BY <2>2 DEF NodesSound
  <2>4. \A m \in Nodes :
          /\ node'[m].agent = node[m].agent
          /\ node'[m].req = node[m].req
          /\ m # n => node'[m].pc = node[m].pc /\ disk'[m] = disk[m]
    BY <1>3 DEF Save, save_create, save_write, Node
  <2>5. \/ node'[n].pc = "write" /\ disk'[n] = Torn
        \/ node'[n].pc = "running" /\ disk'[n] = node[n].agent
    BY <1>3 DEF Save, save_create, save_write, Node
  <2>6. TypeOK'
    BY <1>3, <2>3 DEF Save, save_create, save_write, Node
  <2>7. \A m \in Nodes : Creds(m)' \subseteq Creds(m)
    BY <2>3, <2>4, <2>5, ConstantsAssumption DEF Creds
  <2>8. TokenSpentFirst' /\ AnswersSound' /\ CredentialsSound'
    BY <2>1, <2>7 DEF TokenSpentFirst, AnswersSound, CredentialsSound
  <2>9. NodesSound'
    BY <2>1, <2>3, <2>4, <2>5, ConstantsAssumption DEF NodesSound
  <2> QED
    BY <2>6, <2>8, <2>9
<1>4. CASE Crash(n)
  <2>1. \A m \in Nodes : node'[m] = IF m = n THEN Down ELSE node[m]
    BY <1>4 DEF Crash
  <2>2. UNCHANGED <<tokens, agents, req, disk>>
    BY <1>4 DEF Crash
  <2>3. TypeOK'
    <3>1. crashes' \in 0..MaxCrashes
      BY <1>4, ConstantsAssumption DEF Crash
    <3> QED
      BY <1>4, <2>2, <3>1, RecordFacts DEF Crash
  <2>4. \A m \in Nodes : Creds(m)' \subseteq Creds(m)
    BY <2>1, <2>2, RecordFacts, ConstantsAssumption DEF Creds
  <2>5. TokenSpentFirst' /\ AnswersSound' /\ CredentialsSound'
    BY <2>2, <2>4 DEF TokenSpentFirst, AnswersSound, CredentialsSound
  <2>6. NodesSound'
    BY <2>1, <2>2, RecordFacts DEF NodesSound
  <2> QED
    BY <2>3, <2>5, <2>6
<1> QED
  BY <1>1, <1>2, <1>3, <1>4 DEF Start

\* Every step of agents and of the enroll handler keeps IInv.
LEMMA StepInv == IInv /\ [Next]_vars => IInv'
<1> SUFFICES ASSUME IInv, [Next]_vars
             PROVE  IInv'
  OBVIOUS
<1>1. ASSUME NEW t \in Tokens, create_enrollment_token(t)
      PROVE  IInv'
  <2>1. TypeOK'
    BY <1>1 DEF create_enrollment_token, TypeOK
  <2>2. UNCHANGED <<agents, req, node, disk>>
    BY <1>1 DEF create_enrollment_token
  <2>3. \A u \in Tokens : tokens[u] = "used" => tokens'[u] = "used"
    BY <1>1 DEF create_enrollment_token, TypeOK
  <2>4. TokenSpentFirst'
    <3>1. \A i \in AgentIds : agents'[i] # NoToken => tokens'[agents'[i]] = "used"
      BY <2>2, <2>3 DEF TokenSpentFirst, TypeOK
    <3>2. \A q \in Reqs : req'[q].pc = "insert" => tokens'[req'[q].token] = "used"
      BY <2>2, <2>3 DEF TokenSpentFirst, AnswersSound
    <3> QED
      BY <3>1, <3>2 DEF TokenSpentFirst
  <2>5. AnswersSound' /\ NodesSound' /\ CredentialsSound'
    BY <2>2 DEF AnswersSound, NodesSound, CredentialsSound, Creds
  <2> QED
    BY <2>1, <2>4, <2>5
<1>2. CASE UNCHANGED vars
  BY <1>2 DEF vars, TypeOK, TokenSpentFirst, AnswersSound, NodesSound,
              CredentialsSound, Creds
<1> QED
  BY <1>1, <1>2, HandlerKeeps, AgentKeeps DEF Next

-----------------------------------------------------------------------------
(* The theorems.                                                           *)

\* However many enroll requests run at once, fail or lose their agent, the
\* token of every agent row is spent, every answer is its handler's own, and
\* every agent holds what the tables say (enroll, consume_enrollment_token,
\* AgentRun::new).
THEOREM TokensSpentFirst == Spec => []EnrollmentInv
BY InitInv, StepInv, PTL DEF Spec

\* Two nodes never run under one agent id, though they may share a token, and
\* the row of a node's id was made with the token of that node (enroll).
THEOREM CredentialsAreSound == Spec => []CredentialsSound
BY InitInv, StepInv, PTL DEF Spec

\* No start, save or crash replaces a saved identity (agent_state::save is
\* called only after load has found no file).
THEOREM IdentityIsKept == Spec => IdentityKept
<1>1. IInv /\ [Next]_vars =>
        [\A n \in Nodes : disk[n] \in AgentIds => disk'[n] = disk[n]]_vars
  <2> SUFFICES ASSUME IInv, Next, NEW n \in Nodes, disk[n] \in AgentIds
               PROVE  disk'[n] = disk[n]
    BY DEF vars
  <2>1. ASSUME NEW m \in Nodes, Start(m) \/ Save(m) \/ Crash(m)
        PROVE  disk'[n] = disk[n]
    BY <2>1 DEF Start, StartPersisted, StartEnroll, Save, save_create,
                save_write, Crash, NodesSound, TypeOK
  <2>2. ASSUME NEW q \in Reqs, EnrollStep(q) \/ Abort(q)
        PROVE  disk'[n] = disk[n]
    BY <2>2 DEF EnrollStep, consume_select, consume_update, enroll_agent,
                enroll_reply, Abort
  <2> QED
    BY <2>1, <2>2 DEF Next, create_enrollment_token
<1> QED
  BY <1>1, InitInv, StepInv, PTL DEF Spec, IdentityKept

=============================================================================
