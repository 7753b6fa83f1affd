----------------------------- MODULE Enrollment -----------------------------
(***************************************************************************)
(* Enrolment of an agent: the enrollment_tokens and agents tables and the  *)
(* enroll handler of the controller, and, on every node, the start of the  *)
(* agent process, its request and the state file it keeps.  The handler    *)
(* runs concurrently for several requests, one SQL statement per step; an  *)
(* agent may crash between any two steps and is always restarted.          *)
(***************************************************************************)
EXTENDS Naturals, FiniteSets

CONSTANTS
  Nodes,       \* docker hosts, one agent each
  Tokens,      \* enrollment tokens
  TokenOf,     \* the enrollment token in a node's configuration
  AgentIds,    \* ids that enroll_agent can draw
  Reqs,        \* slots for enroll requests in flight at the controller
  NoAgent, NoToken, NoReq,
  NoFile,      \* there is no agent.json
  Torn,        \* agent.json exists and does not parse
  MaxCrashes   \* bound on agent crashes

ASSUME ConstantsAssumption ==
  /\ TokenOf \in [Nodes -> Tokens]
  /\ NoAgent \notin AgentIds
  /\ NoToken \notin Tokens
  /\ NoReq \notin Reqs
  /\ {NoFile, Torn} \intersect AgentIds = {}
  /\ MaxCrashes \in Nat

VARIABLES
  tokens,      \* enrollment_tokens: absent, unused or used
  agents,      \* agents: the token each row was created with, or NoToken
  req,         \* enroll handlers in flight
  node,        \* agent processes
  disk,        \* agent.json on each node
  crashes

vars == <<tokens, agents, req, node, disk, crashes>>

Req ==
  [pc : {"idle", "select", "update", "insert", "reply"},
   token : Tokens \union {NoToken},
   agent : AgentIds \union {NoAgent}]

IdleReq == [pc |-> "idle", token |-> NoToken, agent |-> NoAgent]

Node ==
  [pc : {"down", "enrolling", "save", "write", "running"},
   req : Reqs \union {NoReq},              \* the request it waits for
   agent : AgentIds \union {NoAgent}]      \* its credential

Down == [pc |-> "down", req |-> NoReq, agent |-> NoAgent]

TypeOK ==
  /\ tokens \in [Tokens -> {"absent", "unused", "used"}]
  /\ agents \in [AgentIds -> Tokens \union {NoToken}]
  /\ req \in [Reqs -> Req]
  /\ node \in [Nodes -> Node]
  /\ disk \in [Nodes -> AgentIds \union {NoFile, Torn}]
  /\ crashes \in 0..MaxCrashes

Init ==
  /\ tokens = [t \in Tokens |-> "absent"]
  /\ agents = [i \in AgentIds |-> NoToken]
  /\ req = [q \in Reqs |-> IdleReq]
  /\ node = [n \in Nodes |-> Down]
  /\ disk = [n \in Nodes |-> NoFile]
  /\ crashes = 0

-----------------------------------------------------------------------------
(* The controller.                                                         *)

create_enrollment_token(t) ==
  /\ tokens[t] = "absent"
  /\ tokens' = [tokens EXCEPT ![t] = "unused"]
  /\ UNCHANGED <<agents, req, node, disk, crashes>>

\* The nodes that wait for the answer to q, if the agent still runs.
Waiting(q) == {n \in Nodes : node[n].pc = "enrolling" /\ node[n].req = q}

\* The request ends without an answer that enrols: an agent that waits for
\* it exits with the error.
Refuse(q) ==
  /\ req' = [req EXCEPT ![q] = IdleReq]
  /\ node' = [n \in Nodes |-> IF n \in Waiting(q) THEN Down ELSE node[n]]

\* consume_enrollment_token: the SELECT of the unused tokens, and the search
\* among them.
consume_select(q) ==
  /\ req[q].pc = "select"
  /\ \/ /\ tokens[req[q].token] = "unused"
        /\ req' = [req EXCEPT ![q].pc = "update"]
        /\ UNCHANGED node
     \/ /\ tokens[req[q].token] # "unused"
        /\ Refuse(q)
  /\ UNCHANGED <<tokens, agents, disk, crashes>>

\* Mutant of consume_update: used_at is not set.
ConsumeWithoutUpdate(q) ==
  /\ req[q].pc = "update"
  /\ req' = [req EXCEPT ![q].pc = "insert"]
  /\ UNCHANGED <<tokens, agents, node, disk, crashes>>

\* The UPDATE, by hash: it does not look at used_at again.
consume_update(q) ==
  /\ req[q].pc = "update"
  /\ tokens' = [tokens EXCEPT ![req[q].token] = "used"]
  /\ req' = [req EXCEPT ![q].pc = "insert"]
  /\ UNCHANGED <<agents, node, disk, crashes>>

\* Mutant of enroll_agent: an id in use is taken over.
EnrollReusesId(q, i) ==
  /\ req[q].pc = "insert"
  /\ agents' = [agents EXCEPT ![i] = req[q].token]
  /\ req' = [req EXCEPT ![q] = [@ EXCEPT !.pc = "reply", !.agent = i]]
  /\ UNCHANGED <<tokens, node, disk, crashes>>

\* The INSERT of enroll_agent, under a fresh random id.
enroll_agent(q, i) ==
  /\ req[q].pc = "insert"
  /\ agents[i] = NoToken
  /\ agents' = [agents EXCEPT ![i] = req[q].token]
  /\ req' = [req EXCEPT ![q] = [@ EXCEPT !.pc = "reply", !.agent = i]]
  /\ UNCHANGED <<tokens, node, disk, crashes>>

\* The answer reaches the agent that waits for it, if there is one.
enroll_reply(q) ==
  /\ req[q].pc = "reply"
  /\ node' = [n \in Nodes |->
                IF n \in Waiting(q)
                THEN [pc |-> "save", req |-> NoReq, agent |-> req[q].agent]
                ELSE node[n]]
  /\ req' = [req EXCEPT ![q] = IdleReq]
  /\ UNCHANGED <<tokens, agents, disk, crashes>>

\* A statement fails, the controller stops, or the connection breaks.
Abort(q) ==
  /\ req[q].pc # "idle"
  /\ Refuse(q)
  /\ UNCHANGED <<tokens, agents, disk, crashes>>

-----------------------------------------------------------------------------
(* The agent: AgentRun::new and agent_state.                               *)

\* Mutant of StartPersisted: the enrollment token must still be good.
PersistedNeedsToken(n) ==
  /\ node[n].pc = "down"
  /\ disk[n] \in AgentIds
  /\ tokens[TokenOf[n]] = "unused"
  /\ node' = [node EXCEPT ![n] =
                [pc |-> "running", req |-> NoReq, agent |-> disk[n]]]
  /\ UNCHANGED <<tokens, agents, req, disk, crashes>>

\* Mutant of StartPersisted: the state is saved again at every start.
PersistedSavesAgain(n) ==
  /\ node[n].pc = "down"
  /\ disk[n] \in AgentIds
  /\ node' = [node EXCEPT ![n] =
                [pc |-> "save", req |-> NoReq, agent |-> disk[n]]]
  /\ UNCHANGED <<tokens, agents, req, disk, crashes>>

\* load finds a state file that parses.
StartPersisted(n) ==
  /\ node[n].pc = "down"
  /\ disk[n] \in AgentIds
  /\ node' = [node EXCEPT ![n] =
                [pc |-> "running", req |-> NoReq, agent |-> disk[n]]]
  /\ UNCHANGED <<tokens, agents, req, disk, crashes>>

\* load finds no state file: enrol with the configured token.  When load
\* fails on a file that does not parse, the process exits: no action.
StartEnroll(n, q) ==
  /\ node[n].pc = "down"
  /\ disk[n] = NoFile
  /\ req[q].pc = "idle"
  /\ req' = [req EXCEPT ![q] =
               [pc |-> "select", token |-> TokenOf[n], agent |-> NoAgent]]
  /\ node' = [node EXCEPT ![n] =
                [pc |-> "enrolling", req |-> q, agent |-> NoAgent]]
  /\ UNCHANGED <<tokens, agents, disk, crashes>>

\* save is fs::write: it creates the file empty ...
save_create(n) ==
  /\ node[n].pc = "save"
  /\ disk' = [disk EXCEPT ![n] = Torn]
  /\ node' = [node EXCEPT ![n].pc = "write"]
  /\ UNCHANGED <<tokens, agents, req, crashes>>

\* ... and then writes it.
save_write(n) ==
  /\ node[n].pc = "write"
  /\ disk' = [disk EXCEPT ![n] = node[n].agent]
  /\ node' = [node EXCEPT ![n].pc = "running"]
  /\ UNCHANGED <<tokens, agents, req, crashes>>

Crash(n) ==
  /\ node[n].pc # "down"
  /\ crashes < MaxCrashes
  /\ crashes' = crashes + 1
  /\ node' = [node EXCEPT ![n] = Down]
  /\ UNCHANGED <<tokens, agents, req, disk>>

-----------------------------------------------------------------------------

EnrollStep(q) ==
  \/ consume_select(q)
  \/ consume_update(q)
  \/ \E i \in AgentIds : enroll_agent(q, i)
  \/ enroll_reply(q)

Start(n) ==
  \/ StartPersisted(n)
  \/ \E q \in Reqs : StartEnroll(n, q)

Save(n) == save_create(n) \/ save_write(n)

Next ==
  \/ \E t \in Tokens : create_enrollment_token(t)
  \/ \E q \in Reqs : EnrollStep(q) \/ Abort(q)
  \/ \E n \in Nodes : Start(n) \/ Save(n) \/ Crash(n)

Spec == Init /\ [][Next]_vars

\* The service manager restarts the agent for ever (Restart=always), a
\* request is handled, and a running agent gets on with saving its state.
Fairness ==
  /\ \A q \in Reqs : WF_vars(EnrollStep(q))
  /\ \A n \in Nodes : WF_vars(StartPersisted(n))
  /\ \A n \in Nodes : SF_vars(\E q \in Reqs : StartEnroll(n, q))
  /\ \A n \in Nodes : WF_vars(Save(n))

FairSpec == Spec /\ Fairness

-----------------------------------------------------------------------------
(* Properties.                                                             *)

\* The token of an agent, and of a request about to insert one, is spent: a
\* controller that dies halfway through enroll loses a token, it never
\* leaves one that can enrol a second time.
TokenSpentFirst ==
  /\ \A i \in AgentIds : agents[i] # NoToken => tokens[agents[i]] = "used"
  /\ \A q \in Reqs : req[q].pc = "insert" => tokens[req[q].token] = "used"

\* The credentials a node has, in memory and on disk.
Creds(n) == {node[n].agent, disk[n]} \intersect AgentIds

\* A handler that answers has an agent row of its own, made with the token of
\* the request, that no other handler and no node has yet.
AnswersSound ==
  /\ \A q \in Reqs : req[q].pc # "idle" => req[q].token \in Tokens
  /\ \A q \in Reqs : req[q].pc = "reply" =>
       /\ req[q].agent \in AgentIds
       /\ agents[req[q].agent] = req[q].token
       /\ \A n \in Nodes : req[q].agent \notin Creds(n)
       /\ \A p \in Reqs \ {q} : req[p].pc = "reply" => req[p].agent # req[q].agent

\* A node waits for a request of its own that carries its token, only while
\* it has no state file; it saves a credential where none was saved before,
\* and it runs with the one that is saved.
NodesSound ==
  \A n \in Nodes :
    /\ node[n].pc = "enrolling" =>
         /\ node[n].agent = NoAgent
         /\ disk[n] = NoFile
         /\ node[n].req \in Reqs
         /\ req[node[n].req].pc # "idle"
         /\ req[node[n].req].token = TokenOf[n]
         /\ \A m \in Nodes \ {n} :
              node[m].pc = "enrolling" => node[m].req # node[n].req
    /\ node[n].pc \in {"save", "write"} =>
         node[n].agent \in AgentIds /\ disk[n] \notin AgentIds
    /\ node[n].pc = "running" => node[n].agent = disk[n] /\ disk[n] \in AgentIds

\* Every credential in use, in memory or on disk, is that of an agent row
\* made with the node's own token, and no two nodes have the same.
CredentialsSound ==
  /\ \A n \in Nodes : \A i \in Creds(n) : agents[i] = TokenOf[n]
  /\ \A m, n \in Nodes : m # n => Creds(m) \intersect Creds(n) = {}

\* In every state tokens are spent first, and what the handlers in flight and
\* the agents that wait for them hold agrees with the tables and with the
\* state files (consume_enrollment_token, enroll, AgentRun::new).
EnrollmentInv == TypeOK /\ TokenSpentFirst /\ AnswersSound /\ NodesSound

\* An identity once saved is kept for ever: no restart enrols again.
IdentityKept ==
  [][\A n \in Nodes : disk[n] \in AgentIds => disk'[n] = disk[n]]_vars

\* An agent whose state file is written runs again after every crash.
SavedAgentRecovers ==
  \A n \in Nodes : disk[n] \in AgentIds ~> [](node[n].pc = "running")

-----------------------------------------------------------------------------
(* Statements of the documentation that the code does not keep.            *)

\* SPEC-v1.md:1372, "Enrollment tokens must be one-time use.", and the test
\* enrollment_token_is_one_time: a token enrols at most one agent.
OneTimeToken ==
  \A i, j \in AgentIds :
    agents[i] # NoToken /\ agents[i] = agents[j] => i = j

\* SPEC-v1.md:1043, "The Agent must recover after restart without requiring
\* re-enrollment.": an agent that has been given its credential runs in the
\* end, whenever it is restarted.
EnrolledAgentRecovers ==
  \A n \in Nodes : node[n].pc = "save" ~> node[n].pc = "running"

=============================================================================
