SPECIFICATION FairSpec
CONSTANTS
  n1 = n1
  n2 = n2
  t1 = t1
  Nodes <- TwoNodes
  Tokens <- OneToken
  TokenOf <- SharedToken
  AgentIds = {i1, i2, i3}
  Reqs = {q1, q2}
  NoAgent = NoAgent
  NoToken = NoToken
  NoReq = NoReq
  NoFile = NoFile
  Torn = Torn
  MaxCrashes = 2
INVARIANTS EnrollmentInv CredentialsSound
PROPERTIES IdentityKept SavedAgentRecovers
CHECK_DEADLOCK FALSE
