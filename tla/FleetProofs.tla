----------------------------- MODULE FleetProofs ----------------------------
(***************************************************************************)
(* Proofs about Fleet, for any agents, hostnames, intervals, lease time    *)
(* above RenewalGap, and any number of failures.                           *)
(***************************************************************************)
EXTENDS Fleet, TLAPS

-----------------------------------------------------------------------------
(* Facts about the operators.                                              *)

\* The greater of two numbers.
LEMMA MaxOfTwo ==
  ASSUME NEW a \in Int, NEW b \in Int
  PROVE  Max({a, b}) = IF a >= b THEN a ELSE b
<1> DEFINE m == IF a >= b THEN a ELSE b
<1>1. m \in {a, b} /\ \A y \in {a, b} : m >= y
  OBVIOUS
<1>2. \A x \in {a, b} : (\A y \in {a, b} : x >= y) => x = m
  OBVIOUS
<1> HIDE DEF m
<1>3. Max({a, b}) = m
  BY <1>1, <1>2 DEF Max
<1> QED
  BY <1>3 DEF m

\* The lesser of two numbers.
LEMMA MinOfTwo ==
  ASSUME NEW a \in Int, NEW b \in Int
  PROVE  Min({a, b}) = IF a <= b THEN a ELSE b
<1> DEFINE m == IF a <= b THEN a ELSE b
<1>1. m \in {a, b} /\ \A y \in {a, b} : m <= y
  OBVIOUS
<1>2. \A x \in {a, b} : (\A y \in {a, b} : x <= y) => x = m
  OBVIOUS
<1> HIDE DEF m
<1>3. Min({a, b}) = m
  BY <1>1, <1>2 DEF Min
<1> QED
  BY <1>3 DEF m

\* The greatest of three numbers is one of them and bounds them all.
LEMMA MaxOfThree ==
  ASSUME NEW a \in Int, NEW b \in Int, NEW c \in Int
  PROVE  LET m == Max({a, b, c}) IN
         m \in {a, b, c} /\ a <= m /\ b <= m /\ c <= m
<1>1. \E x \in {a, b, c} : \A y \in {a, b, c} : x >= y
  <2>1. CASE a >= b /\ a >= c
    BY <2>1
  <2>2. CASE b >= a /\ b >= c
    BY <2>2
  <2>3. CASE c >= a /\ c >= b
    BY <2>3
  <2> QED
    BY <2>1, <2>2, <2>3
<1>2. /\ Max({a, b, c}) \in {a, b, c}
      /\ \A y \in {a, b, c} : Max({a, b, c}) >= y
  BY <1>1 DEF Max
<1> QED
  BY <1>2

\* The longest wait of the task and the longest pause before a reconcile.
Longest == Max({MaxBusy, MaxBackoff, MaxReconnect})
Pause == Max({Periodic, MaxReconnect})

\* The intervals, and how the derived times compare.
LEMMA Limits ==
  /\ {TTL, Heartbeat, Periodic, Cleanup, MaxReconnect} \subseteq Nat \ {0}
  /\ {MaxBackoff, MaxBusy, MaxChanges, MaxFaults} \subseteq Nat
  /\ Longest \in Nat
  /\ MaxBusy <= Longest /\ MaxBackoff <= Longest /\ MaxReconnect <= Longest
  /\ Pause \in Nat
  /\ Periodic <= Pause /\ MaxReconnect <= Pause
  /\ RenewalGap = Pause + MaxBusy
  /\ RenewalGap \in Nat /\ RenewalGap < TTL
  /\ Old = TTL + Cleanup /\ Old \in Nat
<1>1. /\ {TTL, Heartbeat, Periodic, Cleanup, MaxReconnect} \subseteq Nat \ {0}
      /\ {MaxBackoff, MaxBusy, MaxChanges, MaxFaults} \subseteq Nat
  BY ConstantsAssumption
<1>2. /\ Longest \in {MaxBusy, MaxBackoff, MaxReconnect}
      /\ MaxBusy <= Longest /\ MaxBackoff <= Longest /\ MaxReconnect <= Longest
  <2>1. MaxBusy \in Int /\ MaxBackoff \in Int /\ MaxReconnect \in Int
    BY <1>1
  <2> QED
    BY <2>1, MaxOfThree, Zenon DEF Longest
<1>3. Pause = IF Periodic >= MaxReconnect THEN Periodic ELSE MaxReconnect
  BY <1>1, MaxOfTwo DEF Pause
<1>4. RenewalGap = Pause + MaxBusy
  BY DEF RenewalGap, Pause
<1> QED
  BY <1>1, <1>2, <1>3, <1>4, LeaseAssumption DEF Old

\* The agent, its rivals and nobody are different.
LEMMA AgentFacts ==
  /\ Self \in Agents /\ Self \notin Rivals
  /\ Rivals \subseteq Agents
  /\ NoAgent \notin Agents
  /\ Owners = Agents \union {NoAgent}
BY ConstantsAssumption DEF Agents, Owners

\* What DNS is given: living owners only.
LEMMA RefreshFacts ==
  ASSUME NEW owners \in [Allowed -> Owners], NEW ages \in [Agents -> Nat]
  PROVE  /\ refresh_dns(owners, ages) \in [Allowed -> Owners]
         /\ \A h \in Allowed :
              LET a == refresh_dns(owners, ages)[h] IN
              a # NoAgent => a \in Agents /\ ages[a] < TTL
BY AgentFacts DEF refresh_dns, Alive

\* A PUT takes no hostname from another agent whose lease has not run out.
LEMMA PutFacts ==
  ASSUME TypeOK, NEW a \in Agents, NEW desired
  PROVE  /\ RoutesAfterPut(a, desired) \in [Allowed -> Owners]
         /\ \A h \in Allowed :
              owner[h] # a /\ Alive(age, owner[h]) =>
                RoutesAfterPut(a, desired)[h] = owner[h]
BY AgentFacts DEF RoutesAfterPut, TypeOK, Alive

\* A purge takes none from an agent within its lease.
LEMMA PurgeFacts ==
  ASSUME TypeOK
  PROVE  /\ RoutesAfterPurge \in [Allowed -> Owners]
         /\ \A h \in Allowed :
              owner[h] \in Agents /\ age[owner[h]] <= TTL =>
                RoutesAfterPurge[h] = owner[h]
BY AgentFacts, Limits DEF RoutesAfterPurge, PurgedAt, TypeOK

-----------------------------------------------------------------------------
(* Types.                                                                  *)

Timer == [hb : 0..Heartbeat, hbDue : BOOLEAN, per : 0..Periodic, perDue : BOOLEAN]

\* An interval falls due when its time has passed, and starts anew.
LEMMA AdvanceFacts ==
  ASSUME NEW t \in Timer, t # NoTimers => t.hb > 0 /\ t.per > 0
  PROVE  /\ Advance(t) \in Timer
         /\ t = NoTimers => Advance(t) = NoTimers
         /\ t # NoTimers =>
              /\ Advance(t).hb > 0 /\ Advance(t).per > 0
              /\ t.per = 1 => Advance(t).perDue
              /\ t.per # 1 => Advance(t).per = t.per - 1
              /\ t.perDue => Advance(t).perDue
<1>1. CASE t = NoTimers
  BY <1>1 DEF Advance
<1>2. CASE t # NoTimers
  <2> DEFINE a == IF t.hb = 1 THEN Heartbeat ELSE t.hb - 1
             b == t.hbDue \/ t.hb = 1
             c == IF t.per = 1 THEN Periodic ELSE t.per - 1
             d == t.perDue \/ t.per = 1
  <2>1. Advance(t) = [hb |-> a, hbDue |-> b, per |-> c, perDue |-> d]
    BY <1>2 DEF Advance
  <2>2. t.hb \in 0..Heartbeat /\ t.per \in 0..Periodic
    BY DEF Timer
  <2>3. a \in 0..Heartbeat /\ c \in 0..Periodic /\ a > 0 /\ c > 0
    BY <1>2, <2>2, Limits
  <2>4. b \in BOOLEAN /\ d \in BOOLEAN
    OBVIOUS
  <2>5. /\ t.per = 1 => d
        /\ t.per # 1 => c = t.per - 1
        /\ t.perDue => d
    OBVIOUS
  <2> HIDE DEF a, b, c, d
  <2>6. Advance(t) \in Timer
    BY <2>1, <2>3, <2>4 DEF Timer
  <2>7. Advance(t).hb = a /\ Advance(t).per = c /\ Advance(t).perDue = d
    BY <2>1
  <2>8. t.perDue => Advance(t).perDue
    BY <2>5, <2>7, Zenon
  <2>9. t.per = 1 => Advance(t).perDue
    BY <2>5, <2>7, Zenon
  <2> QED
    BY <1>2, <2>3, <2>5, <2>6, <2>7, <2>8, <2>9
<1> QED
  BY <1>1, <1>2

\* A step changes the tables by a PUT, a heartbeat, or one of the controller's
\* own steps; only a PUT sent from reconcile_once is the agent's.
LEMMA TableSteps ==
  ASSUME TypeOK, [Next]_vars
  PROVE  \/ UNCHANGED <<tables, controller>>
         \/ /\ UNCHANGED controller
            /\ \E a \in Agents, desired \in SUBSET Hosts :
                 PutApplied(a, desired) /\ (a = Self => pc = "put")
         \/ UNCHANGED controller /\ \E a \in Agents : HeartbeatApplied(a)
         \/ cleanup
         \/ ControllerCrash
         \/ boot
         \/ \E r \in Rivals : rival_fails(r)
         \/ Tick
<1> USE DEF At, Goto
<1>1. CASE put_routes
  <2>1. UNCHANGED controller /\ (UNCHANGED tables \/ PutApplied(Self, found))
    BY <1>1 DEF put_routes
  <2>2. found \in SUBSET Hosts /\ pc = "put"
    BY <1>1 DEF put_routes, TypeOK
  <2> QED
    BY <2>1, <2>2, AgentFacts
<1>2. CASE heartbeat \/ hb_tick
  BY <1>2, AgentFacts DEF heartbeat, hb_tick, Beat, BeatUnanswered
<1>3. CASE \/ start \/ connection_fails \/ AgentCrash \/ routes_replace
           \/ refresh_local_routes \/ refresh_local_replace \/ periodic_tick
           \/ debounce_elapsed \/ stream_ends \/ reconnect
  BY <1>3 DEF start, connection_fails, AgentCrash, routes_replace,
              refresh_local_routes, refresh_local_replace, periodic_tick,
              debounce_elapsed, stream_ends, reconnect, Begin
<1>4. ASSUME NEW r \in Rivals, rival_put(r)
      PROVE  /\ UNCHANGED controller
             /\ \E a \in Agents, desired \in SUBSET Hosts :
                  PutApplied(a, desired) /\ (a = Self => pc = "put")
  <2>1. rivalHosts[r] \in SUBSET Hosts
    BY ConstantsAssumption DEF TypeOK
  <2> QED
    BY <1>4, <2>1, AgentFacts DEF rival_put
<1>5. ASSUME NEW r \in Rivals, rival_heartbeat(r)
      PROVE  UNCHANGED controller /\ \E a \in Agents : HeartbeatApplied(a)
  BY <1>5, AgentFacts DEF rival_heartbeat
<1>6. ASSUME NEW r \in Rivals, NEW h \in Allowed, RivalChanges(r, h)
      PROVE  UNCHANGED <<tables, controller>>
  BY <1>6 DEF RivalChanges
<1>7. ASSUME NEW h \in Hosts, DockerChanges(h)
      PROVE  UNCHANGED <<tables, controller>>
  BY <1>7 DEF DockerChanges
<1>8. CASE UNCHANGED vars
  BY <1>8 DEF vars
<1> QED
  BY <1>1, <1>2, <1>3, <1>4, <1>5, <1>6, <1>7, <1>8 DEF Next, AgentStep

\* One tick ages a lease by one at most.
LEMMA AgeTick ==
  ASSUME TypeOK, Tick
  PROVE  /\ age' \in [Agents -> 0..Old]
         /\ \A a \in Agents : age'[a] <= age[a] + 1
<1>1. ASSUME NEW a \in Agents
      PROVE  age[a] \in Nat /\ Min({Old, age[a] + 1}) \in 0..Old
             /\ Min({Old, age[a] + 1}) <= age[a] + 1
  <2>1. age[a] \in 0..Old
    BY DEF TypeOK
  <2>2. Min({Old, age[a] + 1}) = IF Old <= age[a] + 1 THEN Old ELSE age[a] + 1
    BY <2>1, MinOfTwo, Limits
  <2> QED
    BY <2>1, <2>2, Limits
<1>2. age' = [a \in Agents |-> IF a \in steady THEN 0 ELSE Min({Old, age[a] + 1})]
  BY DEF Tick
<1> QED
  BY <1>1, <1>2, Limits

\* Ages, routes and registry keep their types.
LEMMA TablesType ==
  ASSUME TypeOK, [Next]_vars
  PROVE  age' \in [Agents -> 0..Old] /\ {owner', registry'} \subseteq [Allowed -> Owners]
<1> DEFINE Goal == age' \in [Agents -> 0..Old] /\ {owner', registry'} \subseteq [Allowed -> Owners]
<1>1. /\ age \in [Agents -> 0..Old] /\ age \in [Agents -> Nat]
      /\ owner \in [Allowed -> Owners] /\ registry \in [Allowed -> Owners]
      /\ 0 \in 0..Old
  BY Limits DEF TypeOK
<1>2. ASSUME NEW a \in Agents, NEW desired \in SUBSET Hosts, PutApplied(a, desired)
      PROVE  Goal
  <2>1. owner' \in [Allowed -> Owners] /\ UNCHANGED age
    BY <1>2, PutFacts DEF PutApplied
  <2> QED
    BY <1>1, <1>2, <2>1, RefreshFacts DEF PutApplied
<1>3. ASSUME NEW a \in Agents, HeartbeatApplied(a)
      PROVE  Goal
  <2>1. age' \in [Agents -> 0..Old] /\ age' \in [Agents -> Nat] /\ UNCHANGED owner
    BY <1>1, <1>3, Limits DEF HeartbeatApplied
  <2> QED
    BY <1>1, <1>3, <2>1, RefreshFacts DEF HeartbeatApplied
<1>4. CASE cleanup
  <2>1. owner' \in [Allowed -> Owners] /\ UNCHANGED age
    BY <1>1, <1>4, PurgeFacts DEF cleanup
  <2>2. \/ registry' = refresh_dns(owner', age)
        \/ registry' = refresh_dns(owner, age)
        \/ UNCHANGED registry
    BY <1>4 DEF cleanup
  <2> QED
    BY <1>1, <2>1, <2>2, RefreshFacts
<1>5. CASE ControllerCrash
  <2>1. UNCHANGED <<age, owner>> /\ registry' = [h \in Allowed |-> NoAgent]
    BY <1>5 DEF ControllerCrash
  <2> QED
    BY <1>1, <2>1, AgentFacts
<1>6. CASE boot
  BY <1>1, <1>6, RefreshFacts DEF boot
<1>7. ASSUME NEW r \in Rivals, rival_fails(r)
      PROVE  Goal
  <2>1. UNCHANGED <<owner, registry>>
    BY <1>7 DEF rival_fails
  <2>2. PICK time \in 0..RenewalGap : age' = [age EXCEPT ![r] = time]
    BY <1>7 DEF rival_fails
  <2>3. time \in 0..Old
    BY Limits
  <2> QED
    BY <1>1, <2>1, <2>2, <2>3
<1>8. CASE Tick
  <2>1. UNCHANGED <<owner, registry>>
    BY <1>8 DEF Tick
  <2> QED
    BY <1>1, <1>8, <2>1, AgeTick
<1>9. CASE UNCHANGED <<tables, controller>>
  <2>1. UNCHANGED <<age, owner, registry>>
    BY <1>9 DEF tables
  <2> QED
    BY <1>1, <2>1
<1> QED
  BY <1>2, <1>3, <1>4, <1>5, <1>6, <1>7, <1>8, <1>9, TableSteps

Sweep == [left : 1..Cleanup, due : BOOLEAN, ok : BOOLEAN]

\* The cleanup task and its timer keep their types.
LEMMA ControllerType ==
  ASSUME TypeOK, [Next]_vars
  PROVE  up' \in BOOLEAN /\ sweep' \in Sweep
<1>1. up \in BOOLEAN /\ sweep \in Sweep
  BY DEF TypeOK, Sweep
<1>2. CASE UNCHANGED controller
  <2>1. UNCHANGED <<up, sweep>>
    BY <1>2 DEF controller
  <2> QED
    BY <1>1, <2>1
<1>3. CASE cleanup
  <2>1. UNCHANGED up
    BY <1>3 DEF cleanup
  <2>2. \/ sweep' = [sweep EXCEPT !.due = FALSE, !.ok = TRUE]
        \/ sweep' = [sweep EXCEPT !.due = FALSE, !.ok = FALSE]
    BY <1>3 DEF cleanup
  <2> QED
    BY <1>1, <2>1, <2>2 DEF Sweep
<1>4. CASE ControllerCrash
  <2>1. up' = FALSE /\ UNCHANGED sweep
    BY <1>4 DEF ControllerCrash
  <2> QED
    BY <1>1, <2>1
<1>5. CASE boot
  <2>1. up' = TRUE /\ sweep' = [left |-> Cleanup, due |-> TRUE, ok |-> TRUE]
    BY <1>5 DEF boot
  <2> QED
    BY <2>1, Limits DEF Sweep
<1>6. ASSUME NEW r \in Rivals, rival_fails(r)
      PROVE  UNCHANGED controller
  BY <1>6 DEF rival_fails
<1>7. CASE Tick
  <2>1. UNCHANGED up
    BY <1>7 DEF Tick
  <2>2. \/ UNCHANGED sweep
        \/ sweep' = [sweep EXCEPT !.left = Cleanup, !.due = TRUE]
        \/ sweep.left # 1 /\ sweep' = [sweep EXCEPT !.left = @ - 1]
    BY <1>7 DEF Tick
  <2>3. CASE sweep.left # 1 /\ sweep' = [sweep EXCEPT !.left = @ - 1]
    <3>1. sweep.left - 1 \in 1..Cleanup
      BY <1>1, <2>3, Limits DEF Sweep
    <3>2. sweep' \in Sweep
      BY <1>1, <2>3, <3>1 DEF Sweep
    <3> QED
      BY <1>1, <2>1, <3>2
  <2>4. Cleanup \in 1..Cleanup
    BY Limits
  <2> QED
    BY <1>1, <2>1, <2>2, <2>3, <2>4 DEF Sweep
<1> QED
  BY <1>2, <1>3, <1>4, <1>5, <1>6, <1>7, TableSteps

-----------------------------------------------------------------------------
(* The registry.                                                           *)

\* A registry just refreshed is sound whatever the cleanup task is up to.
LEMMA RefreshIsSound ==
  ASSUME sweep' \in Sweep, up' = TRUE,
         \A h \in Allowed :
           registry'[h] # NoAgent => age'[registry'[h]] \in Nat /\ age'[registry'[h]] < TTL
  PROVE  RegistrySound'
<1>1. sweep'.left \in 1..Cleanup
  BY DEF Sweep
<1>2. ASSUME NEW n \in Nat, n < TTL
      PROVE  n < Old - (IF sweep'.due THEN 0 ELSE sweep'.left)
  BY <1>1, <1>2, Limits
<1> QED
  BY <1>2 DEF RegistrySound

\* What DNS says never gets older than the cleanup task allows.
LEMMA RegistryStep ==
  ASSUME TypeOK, RegistrySound, [Next]_vars
  PROVE  RegistrySound'
<1>1. /\ age \in [Agents -> Nat] /\ age' \in [Agents -> Nat]
      /\ owner \in [Allowed -> Owners] /\ owner' \in [Allowed -> Owners]
      /\ registry \in [Allowed -> Owners]
      /\ sweep \in Sweep /\ sweep' \in Sweep
  BY TablesType, ControllerType, Limits DEF TypeOK, Sweep
<1>2. ASSUME NEW owners \in [Allowed -> Owners], up' = TRUE,
             registry' = refresh_dns(owners, age')
      PROVE  RegistrySound'
  <2>1. \A h \in Allowed :
          registry'[h] # NoAgent => age'[registry'[h]] \in Nat /\ age'[registry'[h]] < TTL
    BY <1>1, <1>2, RefreshFacts
  <2> QED
    BY <1>1, <1>2, <2>1, RefreshIsSound
<1>3. up = TRUE \/ up = FALSE
  BY DEF TypeOK
<1>4. ASSUME NEW a \in Agents, NEW desired \in SUBSET Hosts, PutApplied(a, desired),
             UNCHANGED controller
      PROVE  RegistrySound'
  <2>1. up' = TRUE
    BY <1>3, <1>4 DEF PutApplied, controller
  <2>2. registry' = refresh_dns(owner', age')
    BY <1>4 DEF PutApplied
  <2> QED
    BY <1>1, <1>2, <2>1, <2>2
<1>5. ASSUME NEW a \in Agents, HeartbeatApplied(a), UNCHANGED controller
      PROVE  RegistrySound'
  <2>1. up' = TRUE
    BY <1>3, <1>5 DEF HeartbeatApplied, controller
  <2>2. registry' = refresh_dns(owner, age')
    BY <1>5 DEF HeartbeatApplied
  <2> QED
    BY <1>1, <1>2, <2>1, <2>2
<1>6. CASE cleanup
  <2>1. up' = TRUE /\ age' = age
    BY <1>3, <1>6 DEF cleanup
  <2>2. \/ registry' = refresh_dns(owner', age)
        \/ registry' = refresh_dns(owner, age)
        \/ sweep' = [sweep EXCEPT !.due = FALSE, !.ok = FALSE]
    BY <1>6 DEF cleanup
  <2>3. CASE sweep' = [sweep EXCEPT !.due = FALSE, !.ok = FALSE]
    <3>1. sweep'.ok = FALSE
      BY <1>1, <2>3 DEF Sweep
    <3> QED
      BY <2>1, <3>1 DEF RegistrySound
  <2> QED
    BY <1>1, <1>2, <2>1, <2>2, <2>3
<1>7. CASE ControllerCrash
  <2>1. up' = FALSE /\ registry' = [h \in Allowed |-> NoAgent]
    BY <1>7 DEF ControllerCrash
  <2> QED
    BY <2>1 DEF RegistrySound
<1>8. CASE boot
  <2>1. up' = TRUE /\ up = FALSE /\ age' = age
    BY <1>3, <1>8 DEF boot
  <2>2. registry' = refresh_dns(owner, age) \/ UNCHANGED registry
    BY <1>8 DEF boot
  <2>3. CASE UNCHANGED registry
    <3>1. \A h \in Allowed : registry'[h] = NoAgent
      BY <2>1, <2>3 DEF RegistrySound
    <3> QED
      BY <1>1, <2>1, <3>1, RefreshIsSound
  <2> QED
    BY <1>1, <1>2, <2>1, <2>2, <2>3
<1>9. ASSUME NEW r \in Rivals, rival_fails(r)
      PROVE  RegistrySound'
  <2>1. UNCHANGED <<up, sweep, registry>>
    BY <1>9 DEF rival_fails, controller
  <2>2. PICK time \in 0..RenewalGap : age' = [age EXCEPT ![r] = time]
    BY <1>9 DEF rival_fails
  <2>3. \A n \in Nat : n < TTL => n < Old - (IF sweep.due THEN 0 ELSE sweep.left)
    BY <1>1, Limits DEF Sweep
  <2>4. time < Old - (IF sweep.due THEN 0 ELSE sweep.left)
    BY <2>3, Limits
  <2>5. \A a \in Agents : age'[a] = age[a] \/ age'[a] = time
    BY <1>1, <2>2
  <2>6. \A h \in Allowed : registry[h] # NoAgent => registry[h] \in Agents
    BY <1>1, AgentFacts
  <2> QED
    BY <2>1, <2>4, <2>5, <2>6 DEF RegistrySound
<1>10. CASE Tick
  <2>1. UNCHANGED <<up, registry>> /\ \A a \in Agents : age'[a] <= age[a] + 1
    BY <1>10, AgeTick DEF Tick
  <2>2. \A h \in Allowed : registry[h] # NoAgent => registry[h] \in Agents
    BY <1>1, AgentFacts
  <2>3. CASE up = FALSE
    BY <2>1, <2>3 DEF RegistrySound
  <2>4. CASE up = TRUE /\ sweep.ok
    <3>1. ~sweep.due
      BY <1>10, <2>4 DEF Tick
    <3>2. \/ sweep.left = 1 /\ sweep'.due
          \/ sweep.left # 1 /\ sweep'.left = sweep.left - 1
      BY <1>1, <1>10, <2>4 DEF Tick, Sweep
    <3>3. \A m, n \in Nat : n < Old - sweep.left /\ m <= n + 1 =>
            m < Old - (IF sweep'.due THEN 0 ELSE sweep'.left)
      BY <1>1, <3>2, Limits DEF Sweep
    <3>4. \A h \in Allowed :
            registry[h] # NoAgent => age[registry[h]] < Old - sweep.left
      BY <2>4, <3>1 DEF RegistrySound
    <3>5. \A h \in Allowed :
            registry'[h] # NoAgent =>
              age'[registry'[h]] < Old - (IF sweep'.due THEN 0 ELSE sweep'.left)
      BY <1>1, <2>1, <2>2, <3>3, <3>4
    <3> QED
      BY <2>1, <2>4, <3>5 DEF RegistrySound
  <2>5. CASE up = TRUE /\ ~sweep.ok
    <3>1. sweep'.ok = sweep.ok
      BY <1>1, <1>10 DEF Tick, Sweep
    <3> QED
      BY <2>1, <2>5, <3>1 DEF RegistrySound
  <2> QED
    BY <1>3, <2>3, <2>4, <2>5
<1>11. CASE UNCHANGED <<tables, controller>>
  <2>1. UNCHANGED <<up, sweep, registry, age>>
    BY <1>11 DEF tables, controller
  <2> QED
    BY <2>1 DEF RegistrySound
<1> QED
  BY <1>4, <1>5, <1>6, <1>7, <1>8, <1>9, <1>10, <1>11, TableSteps

-----------------------------------------------------------------------------
(* The agent's loop.                                                       *)

Steps == {"down", "scan", "put", "heartbeat", "backoff", "refresh", "select",
          "sleep"} \union Silent

LoopType ==
  /\ pc \in Steps
  /\ left \in 0..Longest
  /\ found \subseteq Hosts
  /\ proxy \subseteq Hosts
  /\ timer \in Timer
  /\ stream \in {"open", "closed"}
  /\ event \in BOOLEAN
  /\ healthy \in BOOLEAN

\* A reconcile begins with probes that take a bounded time, or is not healthy.
LEMMA BeginFacts ==
  ASSUME TypeOK, Begin
  PROVE  /\ found' \subseteq Hosts
         /\ UNCHANGED <<proxy, age>>
         /\ \/ pc' = "scan" /\ left' \in 0..MaxBusy /\ healthy' = healthy
            \/ /\ pc' \in {"scan_silent", "backoff"}
               /\ left' \in 0..Longest
               /\ healthy' = FALSE
<1>1. found' \subseteq Hosts /\ UNCHANGED <<proxy, age>>
  BY DEF Begin, tables, TypeOK
<1>2. \/ pc' = "scan" /\ left' \in 0..MaxBusy /\ healthy' = healthy
      \/ /\ pc' \in {"scan_silent", "backoff"}
         /\ left' = 0 \/ left' \in 0..MaxBackoff
         /\ healthy' = FALSE
  BY DEF Begin, Goto, ProbeTimes, BackoffTimes
<1>3. \A n : n = 0 \/ n \in 0..MaxBackoff => n \in 0..Longest
  BY Limits
<1> QED
  BY <1>1, <1>2, <1>3

\* The loop is left for select or a pause, with its intervals running.
LEMMA ReturnFacts ==
  ASSUME LoopType, LoopSound, Return
  PROVE  /\ found' = {}
         /\ UNCHANGED <<stream, event>>
         /\ timer' \in Timer
         /\ timer' # NoTimers /\ timer'.hb > 0 /\ timer'.per > 0
         /\ \/ pc' = "select" /\ left' = 0
            \/ pc' = "sleep" /\ left' \in 0..MaxReconnect
         /\ left' \in 0..Longest
<1>1. /\ found' = {}
      /\ UNCHANGED <<stream, event>>
      /\ \/ pc' = "select" /\ left' = 0
         \/ pc' = "sleep" /\ left' \in 1..MaxReconnect
  BY DEF Return, Goto, ReconnectTimes
<1>2. left' \in 0..Longest /\ (left' \in 1..MaxReconnect => left' \in 0..MaxReconnect)
  BY <1>1, Limits
<1>3. CASE timer # NoTimers
  <2>1. timer' = timer
    BY <1>3 DEF Return
  <2> QED
    BY <1>1, <1>2, <1>3, <2>1 DEF LoopType, LoopSound
<1>4. CASE timer = NoTimers
  <2>1. timer' = [hb |-> Heartbeat, hbDue |-> TRUE, per |-> Periodic, perDue |-> TRUE]
    BY <1>4 DEF Return
  <2>2. timer' \in Timer /\ timer'.hb > 0 /\ timer'.per > 0 /\ NoTimers.hb = 0
    BY <2>1, Limits DEF Timer, NoTimers
  <2>3. timer' # NoTimers
    BY <2>2
  <2> QED
    BY <1>1, <1>2, <2>2, <2>3
<1> QED
  BY <1>3, <1>4

\* What a heartbeat does to the lease of the agent and to its health.
LEMMA BeatFacts ==
  ASSUME TypeOK, Beat
  PROVE  \/ healthy' = TRUE /\ age'[Self] = 0
         \/ healthy' = FALSE
BY AgentFacts DEF Beat, HeartbeatApplied, TypeOK

\* Back from a heartbeat that may have succeeded, or from a failure.
LEMMA ReturnIsSound ==
  ASSUME LoopType, LoopSound, Return,
         proxy' \subseteq Hosts,
         \/ healthy' = TRUE /\ age'[Self] = 0
         \/ healthy' = FALSE
  PROVE  LoopType' /\ LoopSound'
<1> USE ReturnFacts, Limits
<1>1. LoopType'
  BY DEF LoopType, Steps
<1>2. timer'.per \in 0..Periodic
  BY DEF Timer
<1>3. CASE healthy' = FALSE
  BY <1>1, <1>3 DEF LoopSound
<1>4. CASE healthy' = TRUE /\ age'[Self] = 0
  BY <1>1, <1>2, <1>4 DEF LoopSound, Pause
<1> QED
  BY <1>1, <1>3, <1>4

\* A reconcile begins in select, or in a process that just starts.
LEMMA BeginIsSound ==
  ASSUME TypeOK, LoopType, LoopSound, Begin,
         \/ pc = "select"
         \/ pc = "down",
         timer' \in Timer, stream' \in {"open", "closed"}, event' \in BOOLEAN,
         timer' # NoTimers => timer'.hb > 0 /\ timer'.per > 0
  PROVE  LoopType' /\ LoopSound'
<1>1. age[Self] \in Nat
  BY AgentFacts, Limits DEF TypeOK
<1>2. LoopType'
  <2>1. left' \in 0..Longest
    <3>1. \A n \in 0..MaxBusy : n \in 0..Longest
      BY Limits
    <3> QED
      BY <3>1, BeginFacts
  <2>2. healthy' \in BOOLEAN
    BY BeginFacts, Zenon DEF LoopType
  <2>3. pc' \in Steps
    BY BeginFacts DEF Steps, Silent
  <2> QED
    BY <2>1, <2>2, <2>3, BeginFacts DEF LoopType
<1>3. CASE healthy' = FALSE
  BY <1>2, <1>3, BeginFacts DEF LoopSound
<1>4. CASE healthy' # FALSE
  <2>1. pc' = "scan" /\ left' \in 0..MaxBusy /\ healthy' = healthy /\ age' = age
    BY <1>4, BeginFacts
  <2>2. pc = "select" /\ age[Self] <= Pause
    BY <1>4, <2>1 DEF LoopSound, LoopType, Pause
  <2>3. age'[Self] + left' <= RenewalGap
    BY <1>1, <2>1, <2>2, Limits
  <2> QED
    BY <1>2, <2>1, <2>3 DEF LoopSound
<1> QED
  BY <1>2, <1>3, <1>4

\* The task ends in a wait after a failure, or is not healthy as it was.
LEMMA UnhealthyIsSound ==
  ASSUME LoopType', UNCHANGED timer, LoopSound, healthy' = FALSE,
         pc' \in {"select", "sleep", "tick_silent"} => pc' = pc,
         pc' \in {"select", "put", "heartbeat"} => left' = 0
  PROVE  LoopSound'
BY DEF LoopSound

\* The steps of a reconcile keep a healthy agent on its way to a heartbeat.
LEMMA ReconcileStep ==
  ASSUME TypeOK, LoopType, LoopSound,
         \/ start \/ routes_replace \/ put_routes \/ heartbeat
         \/ refresh_local_routes \/ refresh_local_replace \/ connection_fails
  PROVE  LoopType' /\ LoopSound'
<1>1. age[Self] \in Nat
  BY AgentFacts, Limits DEF TypeOK
<1>2. CASE start
  BY <1>2, BeginIsSound DEF start, LoopType, LoopSound
<1>3. CASE routes_replace
  <2>1. /\ pc = "scan" /\ left = 0 /\ pc' = "put" /\ left' = 0 /\ proxy' = found
        /\ UNCHANGED <<age, found, timer, stream, event, healthy>>
    BY <1>3 DEF routes_replace, At, Goto, tables
  <2>2. LoopType'
    BY <2>1 DEF LoopType, Steps
  <2> QED
    BY <2>1, <2>2 DEF LoopSound
<1>4. CASE put_routes
  <2>1. pc = "put" /\ left = 0 /\ UNCHANGED <<found, proxy, timer, stream, event>>
    BY <1>4 DEF put_routes, At
  <2>2. CASE /\ UNCHANGED age /\ pc' = "heartbeat" /\ left' = 0
             /\ UNCHANGED healthy
    <3>1. LoopType'
      BY <2>1, <2>2 DEF LoopType, Steps
    <3> QED
      BY <2>1, <2>2, <3>1 DEF LoopSound
  <2>3. CASE /\ pc' \in {"backoff", "put_silent"} /\ left' \in 0..Longest
             /\ healthy' = FALSE
    <3>1. LoopType'
      BY <2>1, <2>3 DEF LoopType, Steps, Silent
    <3> QED
      BY <2>1, <2>3, <3>1, UnhealthyIsSound
  <2>4. 0 \in 0..Longest /\ \A n \in 0..MaxBackoff : n \in 0..Longest
    BY Limits
  <2> QED
    BY <1>4, <2>2, <2>3, <2>4 DEF put_routes, PutApplied, Goto, BackoffTimes
<1>5. CASE heartbeat
  <2>1. pc = "heartbeat" /\ left = 0 /\ UNCHANGED proxy
    BY <1>5 DEF heartbeat, At
  <2>2. CASE Beat /\ Return
    <3>1. proxy' \subseteq Hosts
      BY <2>1 DEF LoopType
    <3> QED
      BY <2>2, <3>1, BeatFacts, ReturnIsSound
  <2>3. CASE /\ BeatUnanswered("heartbeat_silent")
             /\ UNCHANGED <<found, timer, stream, event>>
    <3>1. pc' = "heartbeat_silent" /\ left' = 0 /\ healthy' = FALSE
      BY <2>3 DEF BeatUnanswered, Goto
    <3>2. LoopType'
      BY <2>1, <2>3, <3>1, Limits DEF LoopType, Steps, Silent
    <3> QED
      BY <2>3, <3>1, <3>2, UnhealthyIsSound
  <2> QED
    BY <1>5, <2>2, <2>3 DEF heartbeat
<1>6. ASSUME pc \in {"backoff", "refresh"} \union Silent
      PROVE  healthy = FALSE
  BY <1>6 DEF LoopSound, LoopType, Silent
<1>7. CASE refresh_local_routes
  <2>1. pc = "backoff" /\ UNCHANGED <<proxy, healthy>>
    BY <1>7 DEF refresh_local_routes, At
  <2>2. healthy' = FALSE
    BY <1>6, <2>1
  <2>3. CASE /\ pc' = "refresh" /\ left' \in 0..MaxBusy /\ found' = running
             /\ UNCHANGED <<timer, stream, event>>
    <3>1. left' \in 0..Longest /\ running \subseteq Hosts
      BY <2>3, Limits DEF TypeOK
    <3>2. LoopType'
      BY <2>1, <2>2, <2>3, <3>1 DEF LoopType, Steps
    <3> QED
      BY <2>2, <2>3, <3>2, UnhealthyIsSound
  <2>4. CASE Return
    <3>1. proxy' \subseteq Hosts
      BY <2>1 DEF LoopType
    <3> QED
      BY <2>2, <2>4, <3>1, ReturnIsSound
  <2> QED
    BY <1>7, <2>3, <2>4 DEF refresh_local_routes, Goto, ProbeTimes
<1>8. CASE refresh_local_replace
  <2>1. pc = "refresh" /\ proxy' = found /\ Return /\ UNCHANGED healthy
    BY <1>8 DEF refresh_local_replace, At
  <2>2. healthy' = FALSE /\ proxy' \subseteq Hosts
    BY <1>6, <2>1 DEF LoopType
  <2> QED
    BY <2>1, <2>2, ReturnIsSound
<1>9. CASE connection_fails
  <2>1. pc \in Silent /\ UNCHANGED <<proxy, healthy>>
    BY <1>9 DEF connection_fails, Silent
  <2>2. healthy' = FALSE /\ proxy' \subseteq Hosts
    BY <1>6, <2>1 DEF LoopType
  <2>3. CASE /\ pc' \in {"scan", "backoff"}
             /\ left' \in 0..MaxBusy \/ left' \in 0..MaxBackoff
             /\ UNCHANGED <<found, timer, stream, event>>
    <3>1. left' \in 0..Longest
      BY <2>3, Limits
    <3>2. LoopType'
      BY <2>1, <2>2, <2>3, <3>1 DEF LoopType, Steps
    <3> QED
      BY <2>2, <2>3, <3>2, UnhealthyIsSound
  <2>4. CASE Return
    BY <2>2, <2>4, ReturnIsSound
  <2>5. CASE /\ pc = "tick_silent" /\ pc' = "select" /\ left' = 0
             /\ UNCHANGED <<found, timer, stream, event>>
    <3>1. LoopType'
      BY <2>1, <2>2, <2>5, Limits DEF LoopType, Steps
    <3> QED
      BY <2>2, <2>5, <3>1 DEF LoopSound
  <2> QED
    BY <1>9, <2>3, <2>4, <2>5
       DEF connection_fails, Goto, ProbeTimes, BackoffTimes
<1> QED
  BY <1>2, <1>3, <1>4, <1>5, <1>7, <1>8, <1>9

\* The branches of select, and what follows a pause.
LEMMA SelectStep ==
  ASSUME TypeOK, LoopType, LoopSound,
         \/ hb_tick \/ periodic_tick \/ debounce_elapsed \/ stream_ends
         \/ reconnect
  PROVE  LoopType' /\ LoopSound'
<1>1. age[Self] \in Nat
  BY AgentFacts, Limits DEF TypeOK
<1>2. CASE hb_tick
  <2>1. /\ pc = "select" /\ left = 0
        /\ timer' = [timer EXCEPT !.hbDue = FALSE]
        /\ UNCHANGED <<found, proxy, stream, event>>
    BY <1>2 DEF hb_tick, At
  <2>2. timer # NoTimers /\ timer.hb > 0 /\ timer.per > 0
    BY <2>1 DEF LoopSound
  <2>3. /\ timer' \in Timer
        /\ timer'.hb = timer.hb /\ timer'.per = timer.per
        /\ timer'.perDue = timer.perDue
    BY <2>1 DEF LoopType, Timer
  <2>4. timer' # NoTimers /\ timer'.hb > 0 /\ timer'.per > 0
    BY <2>2, <2>3 DEF NoTimers
  <2>5. timer'.per \in 0..Periodic
    BY <2>3 DEF Timer
  <2>6. CASE Beat /\ UNCHANGED <<pc, left>>
    <3>1. (healthy' = TRUE /\ age'[Self] = 0) \/ healthy' = FALSE
      BY <2>6, BeatFacts
    <3>2. LoopType'
      BY <2>1, <2>3, <2>6, <3>1 DEF LoopType
    <3>3. CASE healthy' = FALSE
      BY <2>1, <2>4, <2>6, <3>2, <3>3 DEF LoopSound
    <3>4. CASE healthy' = TRUE /\ age'[Self] = 0
      BY <2>1, <2>4, <2>5, <2>6, <3>2, <3>4, Limits DEF LoopSound, Pause
    <3> QED
      BY <3>1, <3>3, <3>4
  <2>7. CASE BeatUnanswered("tick_silent")
    <3>1. pc' = "tick_silent" /\ left' = 0 /\ healthy' = FALSE
      BY <2>7 DEF BeatUnanswered, Goto
    <3>2. LoopType'
      BY <2>1, <2>3, <3>1, Limits DEF LoopType, Steps, Silent
    <3> QED
      BY <2>4, <3>1, <3>2 DEF LoopSound
  <2> QED
    BY <1>2, <2>6, <2>7 DEF hb_tick
<1>3. CASE periodic_tick
  <2>1. /\ pc = "select" /\ Begin /\ UNCHANGED <<stream, event>>
        /\ timer' = [timer EXCEPT !.perDue = FALSE]
    BY <1>3 DEF periodic_tick, At
  <2>2. timer'.hb > 0 /\ timer'.per > 0 /\ timer' \in Timer
    BY <2>1 DEF LoopSound, LoopType, Timer
  <2> QED
    BY <2>1, <2>2, BeginIsSound DEF LoopType
<1>4. CASE debounce_elapsed \/ stream_ends
  <2>1. /\ pc = "select" /\ Begin /\ UNCHANGED timer /\ event' = FALSE
        /\ stream' = stream \/ stream' = "closed"
    BY <1>4 DEF debounce_elapsed, stream_ends, At
  <2> QED
    BY <2>1, BeginIsSound DEF LoopType, LoopSound
<1>5. CASE reconnect
  <2>1. /\ pc = "sleep" /\ left = 0 /\ pc' = "select" /\ left' = 0
        /\ stream' = "open"
        /\ UNCHANGED <<age, found, proxy, timer, event, healthy>>
    BY <1>5 DEF reconnect, At, Goto, tables
  <2>2. LoopType'
    BY <2>1 DEF LoopType, Steps
  <2>3. healthy => age[Self] <= Pause
    BY <1>1, <2>1, Limits DEF LoopSound
  <2> QED
    BY <2>1, <2>2, <2>3 DEF LoopSound, Pause
<1> QED
  BY <1>2, <1>3, <1>4, <1>5

\* Time passes only where the task waits, and then the next heartbeat comes
\* nearer as the lease grows older.
LEMMA LoopTick ==
  ASSUME TypeOK, LoopType, LoopSound, Tick
  PROVE  LoopType' /\ LoopSound'
<1>1. /\ age[Self] \in Nat /\ age'[Self] \in Nat
      /\ age'[Self] <= age[Self] + 1
  BY AgeTick, AgentFacts, Limits DEF TypeOK
<1>2. UNCHANGED <<pc, found, proxy, stream, event, healthy>> /\ timer' = Advance(timer)
  BY DEF Tick
<1>3. left \in Nat /\ left <= Longest
  BY Limits DEF LoopType
<1>4. left' = IF left = 0 THEN 0 ELSE left - 1
  <2>1. left' = Max({0, left - 1})
    BY DEF Tick
  <2>2. Max({0, left - 1}) = IF 0 >= left - 1 THEN 0 ELSE left - 1
    BY <1>3, MaxOfTwo
  <2> QED
    BY <1>3, <2>1, <2>2
<1>5. left' \in 0..Longest
  BY <1>3, <1>4, Limits
<1>6. timer \in Timer /\ (timer # NoTimers => timer.hb > 0 /\ timer.per > 0)
  BY DEF LoopType, LoopSound
<1>7. /\ timer' \in Timer
      /\ timer = NoTimers => timer' = NoTimers
      /\ timer # NoTimers =>
           /\ timer'.hb > 0 /\ timer'.per > 0
           /\ timer.per = 1 => timer'.perDue
           /\ timer.per # 1 => timer'.per = timer.per - 1
           /\ timer.perDue => timer'.perDue
  BY <1>2, <1>6, AdvanceFacts
<1>8. LoopType'
  BY <1>2, <1>5, <1>7 DEF LoopType
<1>9. timer # NoTimers => timer' # NoTimers
  BY <1>7 DEF NoTimers
<1>10. timer.per \in Nat
  BY <1>6, Limits DEF Timer
<1>11. /\ timer' # NoTimers => timer'.hb > 0 /\ timer'.per > 0
       /\ pc' \in {"select", "sleep", "tick_silent"} => timer' # NoTimers
       /\ pc' \in {"select", "put", "heartbeat"} => left' = 0
  BY <1>2, <1>4, <1>7, <1>9 DEF LoopSound
<1>12. ASSUME healthy
       PROVE  /\ pc' \in {"scan", "put", "heartbeat", "select", "sleep"}
              /\ pc' \in {"scan", "put", "heartbeat"} => age'[Self] + left' <= RenewalGap
              /\ pc' \in {"select", "sleep"} =>
                   timer'.perDue \/ age'[Self] + timer'.per <= Periodic
              /\ pc' = "select" => age'[Self] <= Max({Periodic, MaxReconnect})
              /\ pc' = "sleep" => age'[Self] + left' <= MaxReconnect
  <2>1. /\ pc \in {"scan", "put", "heartbeat", "select", "sleep"}
        /\ pc \in {"scan", "put", "heartbeat"} => age[Self] + left <= RenewalGap
        /\ pc \in {"select", "sleep"} =>
             timer.perDue \/ age[Self] + timer.per <= Periodic
        /\ pc = "sleep" => age[Self] + left <= MaxReconnect
    BY <1>12 DEF LoopSound
  <2>2. \/ left > 0
        \/ pc = "select" /\ ~timer.perDue
    BY <2>1 DEF Tick, Waiting, Silent
  <2>3. pc \in {"scan", "put", "heartbeat"} => age'[Self] + left' <= RenewalGap
    BY <1>1, <1>3, <1>4, <2>1, <2>2, Limits
  <2>4. pc = "sleep" => age'[Self] + left' <= MaxReconnect
    BY <1>1, <1>3, <1>4, <2>1, <2>2, Limits
  <2>5. ASSUME pc \in {"select", "sleep"}
        PROVE  timer'.perDue \/ age'[Self] + timer'.per <= Periodic
    <3>1. timer # NoTimers
      BY <2>5 DEF LoopSound
    <3>2. CASE timer.perDue \/ timer.per = 1
      BY <1>7, <3>1, <3>2, Zenon
    <3>3. CASE ~timer.perDue /\ timer.per # 1
      <4>1. timer'.per = timer.per - 1 /\ age[Self] + timer.per <= Periodic
        BY <1>7, <2>1, <2>5, <3>1, <3>3
      <4>2. age'[Self] + timer'.per <= Periodic
        BY <1>1, <1>10, <4>1, Limits
      <4> QED
        BY <4>2
    <3> QED
      BY <3>2, <3>3
  <2>6. ASSUME pc = "select"
        PROVE  age'[Self] <= Pause
    <3>1. ~timer.perDue
      BY <2>2, <2>6 DEF LoopSound
    <3>2. age[Self] + timer.per <= Periodic /\ timer.per > 0
      BY <2>1, <2>6, <3>1 DEF LoopSound
    <3> QED
      BY <1>1, <1>10, <3>2, Limits
  <2> QED
    BY <1>2, <2>1, <2>3, <2>4, <2>5, <2>6 DEF Pause
<1> QED
  BY <1>2, <1>8, <1>11, <1>12 DEF LoopSound

\* The other steps leave the agent's task and lease alone, or lose them.
LEMMA LoopStep ==
  ASSUME TypeOK, LoopType, LoopSound, [Next]_vars
  PROVE  LoopType' /\ LoopSound'
<1>1. CASE UNCHANGED loop /\ age'[Self] = age[Self]
  <2>1. UNCHANGED <<pc, left, found, proxy, timer, stream, event, healthy>>
    BY <1>1 DEF loop
  <2> QED
    BY <1>1, <2>1 DEF LoopType, LoopSound
<1>2. CASE AgentCrash
  <2>1. /\ pc' = "down" /\ left' = 0 /\ found' = {} /\ proxy' = {}
        /\ timer' = NoTimers /\ stream' = "open" /\ event' = FALSE
        /\ healthy' = FALSE
    BY <1>2 DEF AgentCrash, Goto
  <2>2. NoTimers \in Timer
    BY Limits DEF NoTimers, Timer
  <2>3. 0 \in 0..Longest
    BY Limits
  <2>4. LoopType'
    BY <2>1, <2>2, <2>3 DEF LoopType, Steps
  <2> QED
    BY <2>1, <2>4 DEF LoopSound
<1>3. CASE ControllerCrash
  <2>1. /\ UNCHANGED <<pc, left, found, proxy, timer, stream, event>>
        /\ healthy' = FALSE
    BY <1>3 DEF ControllerCrash
  <2>2. LoopType'
    BY <2>1 DEF LoopType
  <2> QED
    BY <2>1, <2>2 DEF LoopSound
<1>4. ASSUME NEW h \in Hosts, DockerChanges(h)
      PROVE  LoopType' /\ LoopSound'
  <2>1. /\ UNCHANGED <<age, pc, left, found, proxy, timer, stream, healthy>>
        /\ event' = (timer # NoTimers /\ stream = "open")
    BY <1>4 DEF DockerChanges, tables
  <2>2. event' \in BOOLEAN
    BY <2>1, Zenon
  <2> QED
    BY <2>1, <2>2 DEF LoopType, LoopSound
<1>5. CASE cleanup \/ boot
  <2>1. UNCHANGED loop /\ UNCHANGED age
    BY <1>5 DEF cleanup, boot
  <2> QED
    BY <1>1, <2>1
<1>6. ASSUME NEW r \in Rivals,
             \/ rival_put(r) \/ rival_heartbeat(r) \/ rival_fails(r)
             \/ \E h \in Allowed : RivalChanges(r, h)
      PROVE  UNCHANGED loop /\ age'[Self] = age[Self]
  <2>1. UNCHANGED loop
    BY <1>6 DEF rival_put, rival_heartbeat, rival_fails, RivalChanges
  <2>2. \/ UNCHANGED age
        \/ \E n : age' = [age EXCEPT ![r] = n]
    BY <1>6 DEF rival_put, rival_heartbeat, rival_fails, RivalChanges,
                PutApplied, HeartbeatApplied, tables
  <2>3. age'[Self] = age[Self]
    BY <2>2, AgentFacts DEF TypeOK
  <2> QED
    BY <2>1, <2>3
<1>7. CASE UNCHANGED vars
  <2>1. UNCHANGED loop /\ UNCHANGED age
    BY <1>7 DEF vars, tables
  <2> QED
    BY <1>1, <2>1
<1> QED
  BY <1>1, <1>2, <1>3, <1>4, <1>5, <1>6, <1>7, ReconcileStep, SelectStep, LoopTick
     DEF Next, AgentStep

-----------------------------------------------------------------------------
(* The world and the bounds.                                               *)

WorldType ==
  /\ running \subseteq Hosts
  /\ steady \subseteq Rivals
  /\ rivalHosts \in [Rivals -> SUBSET Allowed]

\* Containers and rivals keep their types.
LEMMA WorldStep ==
  ASSUME WorldType, [Next]_vars
  PROVE  WorldType'
<1>1. CASE UNCHANGED <<running, others>>
  <2>1. UNCHANGED <<running, steady, rivalHosts>>
    BY <1>1 DEF others
  <2> QED
    BY <2>1 DEF WorldType
<1>2. CASE AgentStep \/ start \/ connection_fails \/ AgentCrash
  <2>1. UNCHANGED <<running, others>>
    BY <1>2 DEF AgentStep, start, connection_fails, AgentCrash, routes_replace,
                put_routes, heartbeat, refresh_local_routes,
                refresh_local_replace, hb_tick, periodic_tick,
                debounce_elapsed, stream_ends, reconnect, Begin
  <2> QED
    BY <1>1, <2>1
<1>3. CASE cleanup \/ boot \/ Tick
  BY <1>1, <1>3 DEF cleanup, boot, Tick
<1>4. CASE ControllerCrash
  <2>1. UNCHANGED <<running, rivalHosts>> /\ steady' = {}
    BY <1>4 DEF ControllerCrash
  <2> QED
    BY <2>1 DEF WorldType
<1>5. ASSUME NEW r \in Rivals,
             rival_put(r) \/ rival_heartbeat(r) \/ rival_fails(r)
      PROVE  WorldType'
  <2>1. /\ UNCHANGED <<running, rivalHosts>>
        /\ \/ UNCHANGED steady
           \/ steady' = steady \union {r}
           \/ steady' = steady \ {r}
    BY <1>5 DEF rival_put, rival_heartbeat, rival_fails, others
  <2> QED
    BY <2>1 DEF WorldType
<1>6. ASSUME NEW r \in Rivals, NEW h \in Allowed, RivalChanges(r, h)
      PROVE  WorldType'
  BY <1>6 DEF RivalChanges, Toggle, WorldType
<1>7. ASSUME NEW h \in Hosts, DockerChanges(h)
      PROVE  WorldType'
  BY <1>7 DEF DockerChanges, Toggle, WorldType, others
<1>8. CASE UNCHANGED vars
  BY <1>1, <1>8 DEF vars
<1> QED
  BY <1>2, <1>3, <1>4, <1>5, <1>6, <1>7, <1>8 DEF Next

BoundsType == changes \in 0..MaxChanges /\ faults \in 0..MaxFaults

\* Changes and faults stay within their bounds.
LEMMA BoundsStep ==
  ASSUME BoundsType, [Next]_vars
  PROVE  BoundsType'
<1>1. UNCHANGED bounds \/ Fault \/ Change
  <2>1. CASE AgentStep \/ start \/ connection_fails \/ AgentCrash
    BY <2>1 DEF AgentStep, start, connection_fails, AgentCrash, routes_replace,
                put_routes, heartbeat, refresh_local_routes,
                refresh_local_replace, hb_tick, periodic_tick,
                debounce_elapsed, stream_ends, reconnect, Begin, Beat,
                BeatUnanswered
  <2>2. CASE cleanup \/ boot \/ Tick \/ ControllerCrash
    BY <2>2 DEF cleanup, boot, Tick, ControllerCrash
  <2>3. ASSUME NEW r \in Rivals,
               \/ rival_put(r) \/ rival_heartbeat(r) \/ rival_fails(r)
               \/ \E h \in Allowed : RivalChanges(r, h)
        PROVE  UNCHANGED bounds \/ Fault \/ Change
    BY <2>3 DEF rival_put, rival_heartbeat, rival_fails, RivalChanges
  <2>4. ASSUME NEW h \in Hosts, DockerChanges(h)
        PROVE  Change
    BY <2>4 DEF DockerChanges
  <2>5. CASE UNCHANGED vars
    BY <2>5 DEF vars
  <2> QED
    BY <2>1, <2>2, <2>3, <2>4, <2>5 DEF Next
<1> QED
  BY <1>1, Limits DEF BoundsType, bounds, Fault, Change

-----------------------------------------------------------------------------
(* The theorems.                                                           *)

\* TypeOK is the types of the parts.
LEMMA TypeParts ==
  TypeOK <=>
    /\ LoopType /\ WorldType /\ BoundsType
    /\ up \in BOOLEAN /\ sweep \in Sweep
    /\ age \in [Agents -> 0..Old] /\ {owner, registry} \subseteq [Allowed -> Owners]
BY DEF TypeOK, LoopType, WorldType, BoundsType, Sweep, Timer, Steps, Longest

\* An agent that has not started and empty tables.
LEMMA InitInv == Init => FleetInv
<1> SUFFICES ASSUME Init
             PROVE  FleetInv
  OBVIOUS
<1>1. NoTimers \in Timer
  BY Limits DEF NoTimers, Timer
<1>2. LoopType
  <2>1. 0 \in 0..Longest
    BY Limits
  <2> QED
    BY <1>1, <2>1 DEF Init, LoopType, Steps
<1>3. WorldType /\ BoundsType
  BY Limits, ConstantsAssumption DEF Init, WorldType, BoundsType
<1>4. up \in BOOLEAN /\ sweep \in Sweep
  BY Limits DEF Init, Sweep
<1>5. age \in [Agents -> 0..Old] /\ {owner, registry} \subseteq [Allowed -> Owners]
  BY Limits, AgentFacts DEF Init
<1>6. LoopSound
  BY DEF Init, LoopSound
<1>7. RegistrySound
  BY DEF Init, RegistrySound
<1> QED
  BY <1>2, <1>3, <1>4, <1>5, <1>6, <1>7, TypeParts DEF FleetInv

\* Every step of agent, controller, rivals and time keeps FleetInv.
LEMMA StepInv == FleetInv /\ [Next]_vars => FleetInv'
<1> SUFFICES ASSUME FleetInv, [Next]_vars
             PROVE  FleetInv'
  OBVIOUS
<1>1. TypeOK /\ LoopType /\ WorldType /\ BoundsType /\ LoopSound /\ RegistrySound
  BY TypeParts DEF FleetInv
<1>2. LoopType' /\ LoopSound' /\ WorldType' /\ BoundsType'
  BY <1>1, LoopStep, WorldStep, BoundsStep
<1>3. up' \in BOOLEAN /\ sweep' \in Sweep
  BY <1>1, ControllerType
<1>4. age' \in [Agents -> 0..Old] /\ {owner', registry'} \subseteq [Allowed -> Owners]
  BY <1>1, TablesType
<1>5. RegistrySound'
  BY <1>1, RegistryStep
<1>6. TypeOK'
  BY <1>2, <1>3, <1>4
     DEF TypeOK, LoopType, WorldType, BoundsType, Sweep, Timer, Steps, Longest
<1> QED
  BY <1>2, <1>5, <1>6 DEF FleetInv

\* At all times the loop of an agent is on its way to the next heartbeat, and
\* the registry is as fresh as the cleanup task makes it (loop_forever, lease
\* cleanup).
THEOREM FleetIsSound == Spec => []FleetInv
BY InitInv, StepInv, PTL DEF Spec

\* Whatever select chooses and however long probes and pauses take within
\* their bounds, an agent that has had no failure since its last heartbeat
\* renews its lease within RenewalGap (loop_forever, reconcile_once).
THEOREM RenewalIsBounded == Spec => []RenewalBounded
<1>1. FleetInv => RenewalBounded
  <2> SUFFICES ASSUME FleetInv, healthy
               PROVE  age[Self] <= RenewalGap
    BY DEF RenewalBounded
  <2>1. age[Self] \in Nat /\ left \in Nat
    BY AgentFacts, Limits, TypeParts DEF FleetInv, LoopType
  <2> QED
    BY <2>1, Limits DEF FleetInv, LoopSound, Pause
<1> QED
  BY <1>1, FleetIsSound, PTL

\* Neither the cleanup task nor a rival takes a hostname from an agent that
\* renews its lease in time (put_routes, purge_expired_agents).
THEOREM HealthyOwnersKeep == Spec => HealthyOwnerKept
<1>1. FleetInv /\ RenewalBounded /\ [Next]_vars =>
        [\A h \in Allowed :
           healthy /\ owner[h] = Self /\ owner'[h] # Self => pc = "put"]_vars
  <2> SUFFICES ASSUME FleetInv, RenewalBounded, [Next]_vars, NEW h \in Allowed,
                      healthy, owner[h] = Self, owner'[h] # Self
               PROVE  pc = "put"
    OBVIOUS
  <2>1. TypeOK /\ age[Self] \in Nat /\ age[Self] < TTL
    BY AgentFacts, Limits DEF FleetInv, TypeOK, RenewalBounded
  <2>2. ~UNCHANGED owner
    OBVIOUS
  <2>3. ASSUME NEW a \in Agents, NEW desired \in SUBSET Hosts,
               PutApplied(a, desired), a # Self
        PROVE  FALSE
    <3>1. owner[h] # a /\ Alive(age, owner[h])
      BY <2>1, <2>3, AgentFacts DEF Alive
    <3> QED
      BY <2>1, <2>3, <3>1, PutFacts DEF PutApplied
  <2>4. CASE cleanup
    BY <2>1, <2>2, <2>4, PurgeFacts, AgentFacts, Limits DEF cleanup
  <2>5. ASSUME NEW a \in Agents, HeartbeatApplied(a)
        PROVE  FALSE
    BY <2>2, <2>5 DEF HeartbeatApplied
  <2>6. ASSUME NEW r \in Rivals, rival_fails(r)
        PROVE  FALSE
    BY <2>2, <2>6 DEF rival_fails
  <2> QED
    BY <2>1, <2>2, <2>3, <2>4, <2>5, <2>6, TableSteps
       DEF ControllerCrash, boot, Tick, tables
<1> QED
  BY <1>1, FleetIsSound, RenewalIsBounded, PTL DEF Spec, HealthyOwnerKept

\* DNS names no agent longer than its lease and one round of the cleanup task,
\* while the refreshes of the task succeed (main.rs, lease cleanup).
THEOREM DnsForgets == Spec => []DnsForgetsTheDead
<1>1. FleetInv => DnsForgetsTheDead
  <2> SUFFICES ASSUME FleetInv, up, sweep.ok, NEW h \in Allowed,
                      registry[h] # NoAgent
               PROVE  age[registry[h]] < TTL + Cleanup
    BY DEF DnsForgetsTheDead
  <2>1. registry[h] \in Agents /\ age[registry[h]] \in Nat
    BY AgentFacts, Limits, TypeParts DEF FleetInv
  <2>2. age[registry[h]] < Old - (IF sweep.due THEN 0 ELSE sweep.left)
    BY DEF FleetInv, RegistrySound
  <2>3. sweep.left \in 1..Cleanup
    BY TypeParts DEF FleetInv, Sweep
  <2> QED
    BY <2>1, <2>2, <2>3, Limits
<1> QED
  BY <1>1, FleetIsSound, PTL

\* The agent, its rivals and the controller, in time and with all their
\* failures, implement HostnameOwnership: a hostname passes to another agent
\* only when the lease of its owner has run out (put_routes,
\* purge_expired_agents).
THEOREM FleetImplementsOwnership == Spec => FleetOwnership
<1> DEFINE alive == {a \in Agents : Alive(age, a)}
<1>1. Init => Ownership!Init
  <2> SUFFICES ASSUME Init PROVE Ownership!Init
    OBVIOUS
  <2>1. \A a \in Agents : ~(age[a] < TTL)
    BY Limits DEF Init
  <2>2. alive = {}
    BY <2>1 DEF Alive
  <2> QED
    BY <2>2 DEF Init, Ownership!Init
<1>2. FleetInv /\ [Next]_vars => [Ownership!Next]_(Ownership!vars)
  <2> SUFFICES ASSUME FleetInv, [Next]_vars
               PROVE  Ownership!Next
    OBVIOUS
  <2>1. TypeOK
    BY DEF FleetInv
  <2>2. ASSUME UNCHANGED owner
        PROVE  Ownership!Next
    BY <2>2 DEF Ownership!Next, Ownership!LeasesChange
  <2>3. ASSUME UNCHANGED age
        PROVE  alive' = alive
    BY <2>3 DEF Alive
  <2>4. ASSUME NEW a \in Agents, NEW desired \in SUBSET Hosts, PutApplied(a, desired)
        PROVE  Ownership!Next
    <3> DEFINE asked == desired \intersect Allowed
    <3>1. owner' = [h \in Allowed |->
                      IF h \in asked
                      THEN IF owner[h] \in alive \ {a} THEN owner[h] ELSE a
                      ELSE IF owner[h] = a THEN NoAgent ELSE owner[h]]
      <4>1. ASSUME NEW h \in Allowed
            PROVE  (owner[h] # a /\ Alive(age, owner[h])) <=> owner[h] \in alive \ {a}
        BY DEF Alive
      <4> QED
        BY <2>4, <4>1 DEF PutApplied, RoutesAfterPut
    <3>2. alive' = alive
      BY <2>3, <2>4 DEF PutApplied
    <3>3. Ownership!Claim(a, asked)
      BY <3>1, <3>2 DEF Ownership!Claim
    <3>4. asked \in SUBSET Allowed
      OBVIOUS
    <3> HIDE DEF asked
    <3> QED
      BY <3>3, <3>4 DEF Ownership!Next
  <2>5. ASSUME cleanup, owner' # owner
        PROVE  Ownership!Next
    <3> DEFINE freed == {h \in Allowed : owner[h] \in Agents /\ age[owner[h]] > TTL}
    <3>1. owner' = [h \in Allowed |-> IF h \in freed THEN NoAgent ELSE owner[h]]
      BY <2>5 DEF cleanup, RoutesAfterPurge, PurgedAt
    <3>2. \A h \in freed : owner[h] \notin alive
      <4>1. \A a \in Agents : age[a] \in Nat
        BY <2>1, Limits DEF TypeOK
      <4> QED
        BY <4>1, Limits DEF Alive
    <3>3. alive' = alive
      BY <2>3, <2>5 DEF cleanup
    <3>4. Ownership!Reclaim(freed)
      BY <3>1, <3>2, <3>3 DEF Ownership!Reclaim
    <3>5. freed \in SUBSET Allowed
      OBVIOUS
    <3> HIDE DEF freed
    <3> QED
      BY <3>4, <3>5 DEF Ownership!Next
  <2>6. \/ UNCHANGED owner
        \/ \E a \in Agents, desired \in SUBSET Hosts : PutApplied(a, desired)
        \/ cleanup
    BY <2>1, TableSteps
       DEF tables, HeartbeatApplied, ControllerCrash, boot, rival_fails, Tick
  <2> QED
    BY <2>2, <2>4, <2>5, <2>6
<1> QED
  BY FleetIsSound, <1>1, <1>2, PTL DEF Spec, FleetOwnership, Ownership!Spec

=============================================================================
