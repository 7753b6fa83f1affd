------------------------ MODULE AgentReconcileProofs ------------------------
(***************************************************************************)
(* Proofs about AgentReconcile, for any hostnames, containers, services,   *)
(* labels and orders of them: the loops of the merge compute what the      *)
(* priorities of the three sources say, and so what is served and          *)
(* published.                                                              *)
(***************************************************************************)
EXTENDS AgentReconcile, TLAPS, WellFoundedInduction, FiniteSetTheorems

-----------------------------------------------------------------------------
(* Induction, stated with sets.                                            *)

\* Every set of natural numbers that is not empty has a least element.
LEMMA LeastNumber ==
  ASSUME NEW T, T \subseteq Nat, T # {}
  PROVE  \E m \in T : \A k \in T : m <= k
<1> DEFINE R == OpToRel(<, Nat)
<1>1. IsWellFoundedOn(R, Nat)
  BY NatLessThanWellFounded, Zenon
<1>2. \A i, j \in Nat : i < j => <<i, j>> \in R
  BY DEF OpToRel
<1> HIDE DEF R
<1>3. PICK m \in T : \A k \in T : ~(<<k, m>> \in R)
  BY <1>1, WFMin, Zenon
<1>4. ASSUME NEW k \in T
      PROVE  m <= k
  <2>1. m \in Nat /\ k \in Nat /\ ~(<<k, m>> \in R)
    BY <1>3
  <2>2. ~(k < m)
    BY <1>2, <2>1
  <2> QED
    BY <2>1, <2>2
<1> QED
  BY <1>4

\* A set that has 0 and every successor has every natural number.
LEMMA SetInduction ==
  ASSUME NEW T, 0 \in T, \A n \in Nat : n \in T => n + 1 \in T
  PROVE  Nat \subseteq T
<1> SUFFICES ASSUME Nat \ T # {}
             PROVE  FALSE
  OBVIOUS
<1>1. PICK m \in Nat \ T : \A k \in Nat \ T : m <= k
  BY LeastNumber, Zenon
<1> QED
  BY <1>1

\* A loop of N passes over a state in S, and the states it goes through.
Loop(S, N, base, step) ==
  N \in Nat /\ base \in S /\ step \in [1..N -> [S -> S]]

Passes(f, S, N, base, step) ==
  /\ f \in [0..N -> S]
  /\ f[0] = base
  /\ \A n \in 1..N : f[n] = step[n][f[n-1]]

\* Such a loop computes something.
LEMMA Iteration ==
  ASSUME NEW S, NEW N, NEW base, NEW step, Loop(S, N, base, step)
  PROVE  \E f : Passes(f, S, N, base, step)
<1> USE DEF Loop
<1> DEFINE Upto(n, f) ==
             f[0] = base /\ \A i \in 1..n : f[i] = step[i][f[i-1]]
           T == {n \in Nat : n <= N => \E f \in [0..n -> S] : Upto(n, f)}
<1>1. 0 \in T
  <2>1. [i \in 0..0 |-> base] \in [0..0 -> S] /\ Upto(0, [i \in 0..0 |-> base])
    OBVIOUS
  <2> QED
    BY <2>1, Zenon
<1>2. ASSUME NEW n \in Nat, n \in T, n + 1 <= N
      PROVE  \E g \in [0..(n+1) -> S] : Upto(n + 1, g)
  <2>1. PICK f \in [0..n -> S] : Upto(n, f)
    BY <1>2
  <2> DEFINE g == [i \in 0..(n+1) |-> IF i = n + 1 THEN step[n+1][f[n]] ELSE f[i]]
  <2>2. n \in 0..n /\ f[n] \in S /\ n + 1 \in 1..N
    BY <1>2
  <2>3. step[n+1][f[n]] \in S
    BY <2>2
  <2>4. g \in [0..(n+1) -> S]
    BY <2>3
  <2>5. g[0] = base
    BY <2>1
  <2>6. ASSUME NEW i \in 1..(n+1)
        PROVE  g[i] = step[i][g[i-1]]
    <3>1. CASE i = n + 1
      <4>1. i - 1 = n /\ n # n + 1 /\ n \in 0..(n+1)
        BY <3>1
      <4>2. g[i] = step[n+1][f[n]] /\ g[n] = f[n]
        BY <3>1, <4>1
      <4> QED
        BY <3>1, <4>1, <4>2
    <3>2. CASE i \in 1..n
      <4>1. g[i] = f[i] /\ g[i-1] = f[i-1]
        BY <3>2
      <4>2. f[i] = step[i][f[i-1]]
        BY <2>1, <3>2
      <4> QED
        BY <4>1, <4>2
    <3> QED
      BY <3>1, <3>2
  <2> QED
    BY <2>4, <2>5, <2>6, Zenon
<1> HIDE DEF Upto
<1>3. N \in T
  <2>1. \A n \in Nat : n \in T => n + 1 \in T
    BY <1>2
  <2> HIDE DEF T
  <2> QED
    BY <1>1, <2>1, SetInduction
<1> QED
  BY <1>3 DEF Upto, Passes

\* The greatest of a set of numbers, if it has one.
LEMMA MaxIs ==
  ASSUME NEW S, S \subseteq Int, NEW m \in S, \A k \in S : k <= m
  PROVE  Max(S) = m
<1>1. \A x \in S : (\A k \in S : x >= k) => x = m
  OBVIOUS
<1>2. \A k \in S : m >= k
  OBVIOUS
<1> QED
  BY <1>1, <1>2, Zenon DEF Max

\* A loop in which the passes of P each store a value, and the others leave it
\* as it is, ends with the value of the last pass of P.
Stores(N, P, v, w) ==
  /\ N \in Nat
  /\ P \subseteq 1..N
  /\ \A n \in 1..N : v[n] = IF n \in P THEN w[n] ELSE v[n-1]

LEMMA LastWins ==
  ASSUME NEW N, NEW P, NEW v, NEW w, Stores(N, P, v, w)
  PROVE  /\ v[N] = IF P = {} THEN v[0] ELSE w[Max(P)]
         /\ P # {} => Max(P) \in P
<1> USE DEF Stores
<1> DEFINE Q(n) == P \intersect (1..n)
           T == {n \in Nat : n <= N =>
                   IF Q(n) = {} THEN v[n] = v[0]
                   ELSE \E m \in Q(n) : v[n] = w[m] /\ \A k \in Q(n) : k <= m}
<1>1. 0 \in T
  BY DEF T
<1>2. ASSUME NEW n \in Nat, n \in T
      PROVE  n + 1 \in T
  <2> SUFFICES ASSUME n + 1 <= N
               PROVE  IF Q(n + 1) = {} THEN v[n+1] = v[0]
                      ELSE \E m \in Q(n + 1) :
                             v[n+1] = w[m] /\ \A k \in Q(n + 1) : k <= m
    OBVIOUS
  <2>1. n + 1 \in 1..N /\ (n + 1) - 1 = n
    OBVIOUS
  <2>2. v[n+1] = IF n + 1 \in P THEN w[n+1] ELSE v[n]
    BY <2>1
  <2>3. CASE n + 1 \in P
    <3>1. n + 1 \in Q(n + 1) /\ \A k \in Q(n + 1) : k <= n + 1
      BY <2>3
    <3> QED
      BY <2>2, <2>3, <3>1
  <2>4. CASE n + 1 \notin P
    <3>1. Q(n + 1) = Q(n)
      BY <2>4
    <3>2. IF Q(n) = {} THEN v[n] = v[0]
          ELSE \E m \in Q(n) : v[n] = w[m] /\ \A k \in Q(n) : k <= m
      BY <1>2
    <3> HIDE DEF Q
    <3> QED
      BY <2>2, <2>4, <3>1, <3>2
  <2> QED
    BY <2>3, <2>4
<1>3. N \in T
  <2> HIDE DEF T
  <2> QED
    BY <1>1, <1>2, SetInduction
<1>4. Q(N) = P
  BY Zenon
<1>5. CASE P = {}
  BY <1>3, <1>4, <1>5
<1>6. CASE P # {}
  <2>1. PICK m \in P : v[N] = w[m] /\ \A k \in P : k <= m
    <3>1. IF Q(N) = {} THEN v[N] = v[0]
          ELSE \E m \in Q(N) : v[N] = w[m] /\ \A k \in Q(N) : k <= m
      BY <1>3
    <3> HIDE DEF Q
    <3> QED
      BY <1>4, <1>6, <3>1, Zenon
  <2>2. Max(P) = m
    <3>1. P \subseteq Int
      OBVIOUS
    <3> QED
      BY <2>1, <3>1, MaxIs, Zenon
  <2> QED
    BY <1>6, <2>1, <2>2
<1> QED
  BY <1>5, <1>6

-----------------------------------------------------------------------------
(* The merge.                                                              *)

\* What is built so far is well typed and its two parts agree.
Good(b) == b \in Build /\ Stored(b.api) = b.local

\* The lists of containers and services, and the backends that are none.
LEMMA ListFacts ==
  /\ Len(Containers) \in Nat /\ Len(Services) \in Nat
  /\ \A n \in 1..Len(Containers) : Containers[n] \in ContainerSet
  /\ \A n \in 1..Len(Services) : Services[n] \in ServiceSet
  /\ ContainerSet \subseteq Backends /\ ServiceSet \subseteq Backends
  /\ Static \in Backends /\ NoRoute \notin Backends
BY ConstantsAssumption DEF Backends

\* Nothing is built at first.
LEMMA EmptyIsGood == Good(Empty)
BY DEF Good, Empty, Build, NoRoutes, RouteMaps, Stored

\* A labelled container's entries keep the parts in agreement.
LEMMA AddLabelsFacts ==
  ASSUME NEW b, Good(b), NEW c \in ContainerSet
  PROVE  /\ Good(AddLabels(b, c))
         /\ \A h \in Hosts :
              AddLabels(b, c).local[h] = IF h \in LabelHosts[c] THEN c ELSE b.local[h]
<1> DEFINE d == AddLabels(b, c)
<1>1. b.local \in RouteMaps /\ b.api \in [Hosts -> Seq(Backends)]
  BY DEF Good, Build
<1>2. \A h \in Hosts : b.local[h] = IF b.api[h] = <<>> THEN NoRoute ELSE Last(b.api[h])
  BY DEF Good, Stored
<1>3. d.local = [h \in Hosts |-> IF h \in LabelHosts[c] THEN c ELSE b.local[h]]
  BY DEF AddLabels, Insert
<1>4. d.api = [h \in Hosts |-> IF h \in LabelHosts[c] THEN Append(b.api[h], c) ELSE b.api[h]]
  BY DEF AddLabels
<1>5. c \in Backends
  BY ListFacts
<1>6. d.local \in RouteMaps
  BY <1>1, <1>3, <1>5 DEF RouteMaps
<1>7. d.api \in [Hosts -> Seq(Backends)]
  BY <1>1, <1>4, <1>5
<1>8. d \in Build
  BY <1>6, <1>7 DEF AddLabels, Build
<1>9. ASSUME NEW h \in Hosts
      PROVE  d.local[h] = IF d.api[h] = <<>> THEN NoRoute ELSE Last(d.api[h])
  <2>1. b.api[h] \in Seq(Backends)
    BY <1>1
  <2>2. Append(b.api[h], c) # <<>> /\ Last(Append(b.api[h], c)) = c
    BY <2>1, <1>5 DEF Last
  <2> QED
    BY <1>2, <1>3, <1>4, <2>2
<1>10. Stored(d.api) = d.local
  BY <1>3, <1>9 DEF Stored
<1> QED
  BY <1>3, <1>8, <1>10 DEF Good

\* So do those of an enabled service or a static route.
LEMMA OverrideFacts ==
  ASSUME NEW b, Good(b), NEW hosts \in SUBSET Hosts, NEW x \in Backends
  PROVE  /\ Good(Override(b, hosts, x))
         /\ \A h \in Hosts :
              Override(b, hosts, x).local[h] = IF h \in hosts THEN x ELSE b.local[h]
<1> DEFINE d == Override(b, hosts, x)
<1>1. b.local \in RouteMaps /\ b.api \in [Hosts -> Seq(Backends)]
  BY DEF Good, Build
<1>2. \A h \in Hosts : b.local[h] = IF b.api[h] = <<>> THEN NoRoute ELSE Last(b.api[h])
  BY DEF Good, Stored
<1>3. d.local = [h \in Hosts |-> IF h \in hosts THEN x ELSE b.local[h]]
  BY DEF Override, Insert
<1>4. d.api = [h \in Hosts |-> IF h \notin hosts THEN b.api[h]
                               ELSE IF b.local[h] # NoRoute THEN <<x>>
                               ELSE Append(b.api[h], x)]
  BY DEF Override
<1>5. d.local \in RouteMaps
  BY <1>1, <1>3 DEF RouteMaps
<1>6. d.api \in [Hosts -> Seq(Backends)]
  BY <1>1, <1>4
<1>7. d \in Build
  BY <1>5, <1>6 DEF Override, Build
<1>8. ASSUME NEW h \in Hosts
      PROVE  d.local[h] = IF d.api[h] = <<>> THEN NoRoute ELSE Last(d.api[h])
  <2>1. b.api[h] \in Seq(Backends)
    BY <1>1
  <2>2. Append(b.api[h], x) # <<>> /\ Last(Append(b.api[h], x)) = x
    BY <2>1 DEF Last
  <2>3. <<x>> # <<>> /\ Last(<<x>>) = x
    BY DEF Last
  <2> QED
    BY <1>2, <1>3, <1>4, <2>2, <2>3
<1>9. Stored(d.api) = d.local
  BY <1>3, <1>8 DEF Stored
<1> QED
  BY <1>3, <1>7, <1>9 DEF Good

\* What labels alone lead to: the last container found that asks for h.
LastLabel(found, h) ==
  LET S == {n \in DOMAIN Containers : /\ Containers[n] \in found
                                      /\ h \in LabelHosts[Containers[n]]}
  IN  IF S = {} THEN NoRoute ELSE Containers[Max(S)]

\* The loop over the listed containers computes the last one that asks, for
\* every hostname and every list (reconcile_once, refresh_local_routes).
LEMMA FromServicesFacts ==
  ASSUME NEW found
  PROVE  /\ Good(FromServices(found))
         /\ \A h \in Hosts : /\ FromServices(found).local[h] = LastLabel(found, h)
                           /\ \/ LastLabel(found, h) = NoRoute
                              \/ /\ LastLabel(found, h) \in ContainerSet \intersect found
                                 /\ h \in LabelHosts[LastLabel(found, h)]
<1> DEFINE N == Len(Containers)
           Step(n, b) == IF Containers[n] \in found THEN AddLabels(b, Containers[n]) ELSE b
           merged[n \in 0..N] ==
             IF n = 0 THEN Empty
             ELSE IF Containers[n] \in found THEN AddLabels(merged[n-1], Containers[n])
             ELSE merged[n-1]
           GoodOnes == {b \in Build : Good(b)}
           step == [n \in 1..N |-> [b \in GoodOnes |-> Step(n, b)]]
<1>1. N \in Nat /\ \A n \in 1..N : Containers[n] \in ContainerSet
  BY ListFacts
<1>2. \A n \in 1..N, b \in GoodOnes : Step(n, b) \in GoodOnes
  BY <1>1, AddLabelsFacts DEF Good
<1>3. Empty \in GoodOnes
  BY EmptyIsGood DEF Good
<1>4. step \in [1..N -> [GoodOnes -> GoodOnes]]
  BY <1>2
<1>5. PICK f : Passes(f, GoodOnes, N, Empty, step)
  <2>1. Loop(GoodOnes, N, Empty, step)
    BY <1>1, <1>3, <1>4 DEF Loop
  <2> HIDE DEF N, GoodOnes, step
  <2> QED
    BY <2>1, Iteration
<1>6. f = [n \in 0..N |->
             IF n = 0 THEN Empty
             ELSE IF Containers[n] \in found THEN AddLabels(f[n-1], Containers[n])
             ELSE f[n-1]]
  <2>1. ASSUME NEW n \in 1..N
        PROVE  step[n][f[n-1]] = Step(n, f[n-1])
    <3>1. n - 1 \in 0..N
      BY <1>1
    <3>2. f[n-1] \in GoodOnes
      BY <1>5, <3>1 DEF Passes
    <3> QED
      BY <3>2
  <2>2. ASSUME NEW n \in 0..N
        PROVE  f[n] = IF n = 0 THEN Empty
                      ELSE IF Containers[n] \in found THEN AddLabels(f[n-1], Containers[n])
                      ELSE f[n-1]
    <3>1. n # 0 => n \in 1..N
      BY <1>1
    <3> HIDE DEF step
    <3> QED
      BY <1>5, <2>1, <3>1 DEF Passes
  <2>3. f \in [0..N -> GoodOnes]
    BY <1>5 DEF Passes
  <2> HIDE DEF GoodOnes
  <2> QED
    BY <2>2, <2>3
<1>7. merged = [n \in 0..N |->
             IF n = 0 THEN Empty
             ELSE IF Containers[n] \in found THEN AddLabels(merged[n-1], Containers[n])
             ELSE merged[n-1]]
  BY <1>6
<1> HIDE DEF merged
<1>8. merged[0] = Empty /\ \A n \in 1..N : merged[n] = Step(n, merged[n-1])
  <2>1. 0 \in 0..N /\ \A n \in 1..N : n \in 0..N /\ n # 0
    BY <1>1
  <2>2. merged[0] = Empty
    BY <2>1, <1>7
  <2>3. ASSUME NEW n \in 1..N
        PROVE  merged[n] = Step(n, merged[n-1])
    BY <2>1, <1>7
  <2> QED
    BY <2>2, <2>3
<1>9. \A n \in 0..N : Good(merged[n])
  <2> DEFINE T == {n \in Nat : n <= N => Good(merged[n])}
  <2>1. 0 \in T
    BY <1>8, EmptyIsGood
  <2>2. ASSUME NEW n \in Nat, n \in T
        PROVE  n + 1 \in T
    <3> SUFFICES ASSUME n + 1 <= N
                 PROVE  Good(merged[n+1])
      OBVIOUS
    <3>1. Good(merged[n]) /\ n + 1 \in 1..N /\ (n + 1) - 1 = n
      BY <1>1, <2>2
    <3>2. merged[n+1] = Step(n + 1, merged[n])
      BY <1>8, <3>1
    <3> QED
      BY <1>1, <3>1, <3>2, AddLabelsFacts
  <2>3. Nat \subseteq T
    <3> HIDE DEF T
    <3> QED
      BY <2>1, <2>2, SetInduction
  <2> QED
    BY <1>1, <2>3
<1>10. ASSUME NEW h \in Hosts
       PROVE  /\ merged[N].local[h] = LastLabel(found, h)
              /\ \/ LastLabel(found, h) = NoRoute
                 \/ /\ LastLabel(found, h) \in ContainerSet \intersect found
                    /\ h \in LabelHosts[LastLabel(found, h)]
  <2> DEFINE P == {n \in DOMAIN Containers : /\ Containers[n] \in found
                                             /\ h \in LabelHosts[Containers[n]]}
             v == [n \in 0..N |-> merged[n].local[h]]
  <2>1. P \subseteq 1..N
    BY ConstantsAssumption
  <2>2. ASSUME NEW n \in 1..N
        PROVE  v[n] = IF n \in P THEN Containers[n] ELSE v[n-1]
    <3>1. n \in 0..N /\ n - 1 \in 0..N /\ n \in DOMAIN Containers
      BY <1>1, ConstantsAssumption
    <3>2. v[n] = merged[n].local[h] /\ v[n-1] = merged[n-1].local[h]
      BY <3>1
    <3>3. merged[n] = Step(n, merged[n-1]) /\ Good(merged[n-1])
          /\ Containers[n] \in ContainerSet
      BY <1>1, <1>8, <1>9, <3>1
    <3> QED
      BY <3>1, <3>2, <3>3, AddLabelsFacts
  <2>3. /\ v[N] = IF P = {} THEN v[0] ELSE Containers[Max(P)]
        /\ P # {} => Max(P) \in P
    <3>1. Stores(N, P, v, Containers)
      BY <1>1, <2>1, <2>2, Zenon DEF Stores
    <3> HIDE DEF v, P, N
    <3> QED
      BY <3>1, LastWins
  <2>4. v[N] = merged[N].local[h] /\ v[0] = NoRoute
    BY <1>1, <1>8 DEF Empty, NoRoutes
  <2>5. LastLabel(found, h) = IF P = {} THEN NoRoute ELSE Containers[Max(P)]
    BY DEF LastLabel
  <2>6. P # {} => /\ Containers[Max(P)] \in ContainerSet \intersect found
                  /\ h \in LabelHosts[Containers[Max(P)]]
    <3>1. \A n \in P : /\ Containers[n] \in ContainerSet \intersect found
                      /\ h \in LabelHosts[Containers[n]]
      BY <1>1, <2>1
    <3> HIDE DEF P
    <3> QED
      BY <2>3, <3>1
  <2> HIDE DEF P, v
  <2> QED
    BY <2>3, <2>4, <2>5, <2>6
<1>11. FromServices(found) = merged[N]
  BY DEF FromServices, merged
<1> QED
  BY <1>1, <1>9, <1>10, <1>11

\* What the enabled services make of a hostname: the last one that asks takes
\* it, whatever it led to before.
LastIntent(h, before) ==
  LET S == {n \in DOMAIN Services : h \in intents[Services[n]]}
  IN  IF S = {} THEN before ELSE Services[Max(S)]

\* The loop over the enabled services gives each hostname to the last one that
\* asks for it and leaves the others alone, for every list (reconcile_once).
LEMMA AddDesiredFacts ==
  ASSUME NEW b, Good(b), intents \in [ServiceSet -> SUBSET Hosts]
  PROVE  /\ Good(AddDesired(b))
         /\ \A h \in Hosts : /\ AddDesired(b).local[h] = LastIntent(h, b.local[h])
                             /\ AddDesired(b).local[h] \in {b.local[h]} \union ServiceSet
<1> DEFINE N == Len(Services)
           Step(n, d) == Override(d, intents[Services[n]], Services[n])
           merged[n \in 0..N] ==
             IF n = 0 THEN b
             ELSE Override(merged[n-1], intents[Services[n]], Services[n])
           GoodOnes == {d \in Build : Good(d)}
           step == [n \in 1..N |-> [d \in GoodOnes |-> Step(n, d)]]
<1>1. /\ N \in Nat
      /\ \A n \in 1..N : /\ Services[n] \in ServiceSet
                         /\ Services[n] \in Backends
                         /\ intents[Services[n]] \in SUBSET Hosts
  BY ListFacts DEF N
<1> HIDE DEF N
<1>0. ASSUME NEW n \in 1..N, NEW d, Good(d)
      PROVE  /\ Good(Step(n, d))
             /\ \A h \in Hosts : Step(n, d).local[h] =
                  IF h \in intents[Services[n]] THEN Services[n] ELSE d.local[h]
  <2> DEFINE hosts == intents[Services[n]]
             x == Services[n]
  <2>1. hosts \in SUBSET Hosts /\ x \in Backends
    BY <1>1
  <2> HIDE DEF hosts, x
  <2>2. /\ Good(Override(d, hosts, x))
        /\ \A h \in Hosts : Override(d, hosts, x).local[h] =
             IF h \in hosts THEN x ELSE d.local[h]
    BY <1>0, <2>1, OverrideFacts
  <2> QED
    BY <2>2 DEF hosts, x
<1>2. \A n \in 1..N, d \in GoodOnes : Step(n, d) \in GoodOnes
  <2>1. \A d : Good(d) => d \in Build
    BY DEF Good
  <2> HIDE DEF Step
  <2> QED
    BY <1>0, <2>1
<1>3. b \in GoodOnes
  BY DEF Good
<1>4. step \in [1..N -> [GoodOnes -> GoodOnes]]
  BY <1>2
<1>5. PICK f : Passes(f, GoodOnes, N, b, step)
  <2>1. Loop(GoodOnes, N, b, step)
    BY <1>1, <1>3, <1>4 DEF Loop
  <2> HIDE DEF N, GoodOnes, step
  <2> QED
    BY <2>1, Iteration
<1>6. f = [n \in 0..N |->
             IF n = 0 THEN b
             ELSE Override(f[n-1], intents[Services[n]], Services[n])]
  <2>1. ASSUME NEW n \in 1..N
        PROVE  step[n][f[n-1]] = Step(n, f[n-1])
    <3>1. n - 1 \in 0..N
      BY <1>1
    <3>2. f[n-1] \in GoodOnes
      BY <1>5, <3>1 DEF Passes
    <3> QED
      BY <3>2
  <2>2. ASSUME NEW n \in 0..N
        PROVE  f[n] = IF n = 0 THEN b
                      ELSE Override(f[n-1], intents[Services[n]], Services[n])
    <3>1. n # 0 => n \in 1..N
      BY <1>1
    <3> HIDE DEF step
    <3> QED
      BY <1>5, <2>1, <3>1 DEF Passes
  <2>3. f \in [0..N -> GoodOnes]
    BY <1>5 DEF Passes
  <2> HIDE DEF GoodOnes
  <2> QED
    BY <2>2, <2>3
<1>7. merged = [n \in 0..N |->
             IF n = 0 THEN b
             ELSE Override(merged[n-1], intents[Services[n]], Services[n])]
  BY <1>6 DEF N
<1> HIDE DEF merged
<1>8. merged[0] = b /\ \A n \in 1..N : merged[n] = Step(n, merged[n-1])
  <2>1. 0 \in 0..N /\ \A n \in 1..N : n \in 0..N /\ n # 0
    BY <1>1
  <2>2. merged[0] = b
    BY <2>1, <1>7
  <2>3. ASSUME NEW n \in 1..N
        PROVE  merged[n] = Step(n, merged[n-1])
    BY <2>1, <1>7, Zenon
  <2> QED
    BY <2>2, <2>3
<1>9. \A n \in 0..N : Good(merged[n])
  <2> DEFINE T == {n \in Nat : n <= N => Good(merged[n])}
  <2>1. 0 \in T
    BY <1>8
  <2>2. ASSUME NEW n \in Nat, n \in T
        PROVE  n + 1 \in T
    <3> SUFFICES ASSUME n + 1 <= N
                 PROVE  Good(merged[n+1])
      OBVIOUS
    <3>1. Good(merged[n]) /\ n + 1 \in 1..N /\ (n + 1) - 1 = n
      BY <1>1, <2>2
    <3>2. merged[n+1] = Step(n + 1, merged[n])
      BY <1>8, <3>1
    <3> QED
      BY <1>0, <3>1, <3>2
  <2>3. Nat \subseteq T
    <3> HIDE DEF T
    <3> QED
      BY <2>1, <2>2, SetInduction
  <2> QED
    BY <1>1, <2>3
<1>10. ASSUME NEW h \in Hosts
       PROVE  /\ merged[N].local[h] = LastIntent(h, b.local[h])
              /\ merged[N].local[h] \in {b.local[h]} \union ServiceSet
  <2> DEFINE P == {n \in DOMAIN Services : h \in intents[Services[n]]}
             v == [n \in 0..N |-> merged[n].local[h]]
  <2>1. P \subseteq 1..N
    BY ConstantsAssumption DEF N
  <2>2. ASSUME NEW n \in 1..N
        PROVE  v[n] = IF n \in P THEN Services[n] ELSE v[n-1]
    <3>1. n \in 0..N /\ n - 1 \in 0..N /\ n \in DOMAIN Services
      BY <1>1, ConstantsAssumption DEF N
    <3>2. v[n] = merged[n].local[h] /\ v[n-1] = merged[n-1].local[h]
      BY <3>1
    <3>3. merged[n] = Step(n, merged[n-1]) /\ Good(merged[n-1])
      BY <1>1, <1>8, <1>9, <3>1
    <3> QED
      BY <1>0, <3>1, <3>2, <3>3
  <2>3. /\ v[N] = IF P = {} THEN v[0] ELSE Services[Max(P)]
        /\ P # {} => Max(P) \in P
    <3>1. Stores(N, P, v, Services)
      BY <1>1, <2>1, <2>2, Zenon DEF Stores
    <3> HIDE DEF v, P, N
    <3> QED
      BY <3>1, LastWins
  <2>4. v[N] = merged[N].local[h] /\ v[0] = b.local[h]
    BY <1>1, <1>8
  <2>5. LastIntent(h, b.local[h]) = IF P = {} THEN b.local[h] ELSE Services[Max(P)]
    BY DEF LastIntent
  <2>6. P # {} => Services[Max(P)] \in ServiceSet
    <3>1. \A n \in P : Services[n] \in ServiceSet
      BY <1>1, <2>1
    <3> HIDE DEF P
    <3> QED
      BY <2>3, <3>1
  <2> HIDE DEF P, v
  <2> QED
    BY <2>3, <2>4, <2>5, <2>6
<1>11. AddDesired(b) = merged[N]
  BY DEF AddDesired, merged, N
<1> QED
  BY <1>1, <1>9, <1>10, <1>11

-----------------------------------------------------------------------------
(* The invariant.                                                          *)

\* Docker has neither failed nor changed.
Quiet == changes.docker = 0 /\ faults.docker = 0

Faults == [docker : 0..MaxFaults, controller : 0..MaxFaults]
Changes == [docker : 0..MaxChanges, intents : 0..MaxChanges]

\* A failure stays within its bound, and one of Docker shows.
LEMMA FaultFacts ==
  ASSUME faults \in Faults, NEW what \in {"docker", "controller"}, Fault(what)
  PROVE  /\ faults' \in Faults
         /\ what = "docker" => faults'.docker # 0
         /\ what = "controller" => faults'.docker = faults.docker
<1>1. MaxFaults \in Nat
  BY ConstantsAssumption
<1>2. /\ faults.docker \in Nat /\ faults.controller \in Nat
      /\ faults.docker + faults.controller < MaxFaults
      /\ faults' = [faults EXCEPT ![what] = @ + 1]
  BY <1>1 DEF Fault, Faults
<1>3. CASE what = "docker"
  <2>1. faults' = [docker |-> faults.docker + 1, controller |-> faults.controller]
    BY <1>2, <1>3, Zenon DEF Faults
  <2> QED
    BY <1>1, <1>2, <1>3, <2>1 DEF Faults
<1>4. CASE what = "controller"
  <2>1. faults' = [docker |-> faults.docker, controller |-> faults.controller + 1]
    BY <1>2, <1>4, Zenon DEF Faults
  <2> QED
    BY <1>1, <1>2, <1>4, <2>1 DEF Faults
<1> QED
  BY <1>3, <1>4

\* A list that is not what runs is a failure of Docker.
LEMMA ListedFacts ==
  ASSUME faults \in Faults, NEW found, Listed(found)
  PROVE  /\ faults' \in Faults
         /\ faults'.docker = 0 => found = running /\ faults.docker = 0
BY FaultFacts DEF Listed

\* A change stays within its bound, and one of the containers shows.
LEMMA ChangeFacts ==
  ASSUME changes \in Changes, NEW what \in {"docker", "intents"}, Change(what)
  PROVE  /\ changes' \in Changes
         /\ what = "docker" => changes'.docker # 0
         /\ what = "intents" => changes'.docker = changes.docker
<1>1. MaxChanges \in Nat
  BY ConstantsAssumption
<1>2. /\ changes.docker \in Nat /\ changes.intents \in Nat
      /\ changes.docker + changes.intents < MaxChanges
      /\ changes' = [changes EXCEPT ![what] = @ + 1]
  BY <1>1 DEF Change, Changes
<1>3. CASE what = "docker"
  <2>1. changes' = [docker |-> changes.docker + 1, intents |-> changes.intents]
    BY <1>2, <1>3, Zenon DEF Changes
  <2> QED
    BY <1>1, <1>2, <1>3, <2>1 DEF Changes
<1>4. CASE what = "intents"
  <2>1. changes' = [docker |-> changes.docker, intents |-> changes.intents + 1]
    BY <1>2, <1>4, Zenon DEF Changes
  <2> QED
    BY <1>1, <1>2, <1>4, <2>1 DEF Changes
<1> QED
  BY <1>3, <1>4

\* What the invariant says besides the types.
RoutesInv == MergeSound /\ RoutesJustified /\ LabelsServed

\* The steps at which the routes in build matter.
Building == {"desired", "replace", "put", "refresh"}

\* LabelBackend is what the labels of the running containers lead to.
LEMMA LabelBackendIs == \A h : LabelBackend(h) = LastLabel(running, h)
BY DEF LabelBackend, LastLabel

\* The routes stay right in a step that changes neither them nor, unseen, the
\* containers.
LEMMA RoutesKept ==
  ASSUME RoutesInv, build' = build, proxy' = proxy,
         pc' = pc \/ pc' \notin Building,
         Quiet' => Quiet /\ running' = running
  PROVE  RoutesInv'
<1>1. MergeSound'
  BY DEF RoutesInv, MergeSound, Building, Stored
<1>2. RoutesJustified'
  BY DEF RoutesInv, RoutesJustified, Building, Justified, NoRoutes
<1>3. ASSUME Quiet' PROVE \A h : LabelBackend(h)' = LabelBackend(h)
  BY <1>3 DEF LabelBackend
<1>4. LabelsServed'
  <2> SUFFICES ASSUME Quiet'
               PROVE  \A h \in Hosts :
                        /\ pc' \in Building =>
                             build.local[h] \in {LabelBackend(h), Static} \union ServiceSet
                        /\ proxy[h] \in ContainerSet => proxy[h] = LabelBackend(h)
    BY <1>3 DEF LabelsServed, Quiet, Building
  <2> QED
    BY DEF RoutesInv, LabelsServed, Quiet, Building
<1> QED
  BY <1>1, <1>2, <1>4 DEF RoutesInv

\* The routes are right at first.
LEMMA RoutesInitially == Init => RoutesInv
<1> SUFFICES ASSUME Init PROVE RoutesInv
  OBVIOUS
<1>1. build = Empty /\ proxy = NoRoutes /\ pc = "discover"
  BY DEF Init
<1>2. MergeSound
  BY <1>1, EmptyIsGood DEF MergeSound, Good
<1>3. \A h \in Hosts : build.local[h] = NoRoute /\ proxy[h] = NoRoute
  BY <1>1 DEF Empty, NoRoutes
<1>4. NoRoute \notin ContainerSet /\ NoRoute # Static
  BY ListFacts
<1>5. StaticHosts \subseteq Hosts
  BY ConstantsAssumption
<1>6. RoutesJustified
  BY <1>1, <1>3, <1>4, <1>5 DEF RoutesJustified, Justified
<1>7. LabelsServed
  BY <1>1, <1>3, <1>4 DEF LabelsServed
<1> QED
  BY <1>2, <1>6, <1>7 DEF RoutesInv

\* The backends of the three sources differ, and none of them is no route.
LEMMA BackendFacts ==
  /\ NoRoute \notin ContainerSet /\ NoRoute \notin ServiceSet /\ NoRoute # Static
  /\ Static \notin ContainerSet /\ Static \notin ServiceSet
  /\ \A x \in ServiceSet : x \notin ContainerSet
  /\ StaticHosts \subseteq Hosts
BY ConstantsAssumption DEF Backends

\* The routes the labels lead to are justified.
LEMMA LabelsJustified ==
  ASSUME NEW found
  PROVE  Justified(FromServices(found).local)
BY FromServicesFacts, BackendFacts DEF Justified

\* Static routes take their hostnames and leave the others.
LEMMA StaticFacts ==
  ASSUME NEW b, Good(b), Justified(b.local)
  PROVE  /\ Good(apply_static_routes(b))
         /\ Justified(apply_static_routes(b).local)
         /\ \A h \in Hosts : apply_static_routes(b).local[h] =
              IF h \in StaticHosts THEN Static ELSE b.local[h]
<1>1. StaticHosts \in SUBSET Hosts /\ Static \in Backends
  BY BackendFacts, ListFacts
<1>2. /\ Good(apply_static_routes(b))
      /\ \A h \in Hosts : apply_static_routes(b).local[h] =
           IF h \in StaticHosts THEN Static ELSE b.local[h]
  BY <1>1, OverrideFacts DEF apply_static_routes
<1> QED
  BY <1>2, BackendFacts DEF Justified

\* So do the enabled services.
LEMMA DesiredFacts ==
  ASSUME NEW b, Good(b), Justified(b.local), intents \in [ServiceSet -> SUBSET Hosts]
  PROVE  /\ Good(AddDesired(b))
         /\ Justified(AddDesired(b).local)
         /\ \A h \in Hosts : AddDesired(b).local[h] \in {b.local[h]} \union ServiceSet
<1>1. /\ Good(AddDesired(b))
      /\ \A h \in Hosts : AddDesired(b).local[h] \in {b.local[h]} \union ServiceSet
  BY AddDesiredFacts
<1> QED
  BY <1>1, BackendFacts DEF Justified

\* A step that builds routes and leaves the proxy alone.
LEMMA Built ==
  ASSUME RoutesInv, NEW b, build' = b, proxy' = proxy, running' = running,
         Good(b), Justified(b.local), pc' # "put",
         pc' = "refresh" => \A h \in StaticHosts : b.local[h] = Static,
         Quiet' => /\ Quiet
                   /\ \A h \in Hosts :
                        b.local[h] \in {LabelBackend(h), Static} \union ServiceSet
  PROVE  RoutesInv'
<1>1. MergeSound'
  BY DEF RoutesInv, MergeSound, Good, Stored
<1>2. RoutesJustified'
  BY DEF RoutesInv, RoutesJustified, Justified, NoRoutes
<1>3. \A h : LabelBackend(h)' = LabelBackend(h)
  BY DEF LabelBackend
<1>4. ASSUME Quiet', NEW h \in Hosts
      PROVE  /\ b.local[h] \in {LabelBackend(h), Static} \union ServiceSet
             /\ proxy[h] \in ContainerSet => proxy[h] = LabelBackend(h)
  BY <1>4 DEF RoutesInv, LabelsServed, Quiet
<1>5. LabelsServed'
  BY <1>3, <1>4 DEF LabelsServed, Quiet
<1> QED
  BY <1>1, <1>2, <1>5 DEF RoutesInv

\* A step that gives the proxy the routes that are built, static ones
\* included, and keeps or drops them.
LEMMA Replaced ==
  ASSUME RoutesInv, NEW b, proxy' = b.local, build' \in {b, Empty}, running' = running,
         pc' \in {"put", "select", "sleep"}, pc' = "put" => build' = b,
         Good(b), Justified(b.local),
         \A h \in StaticHosts : b.local[h] = Static,
         Quiet' => /\ Quiet
                   /\ \A h \in Hosts :
                        b.local[h] \in {LabelBackend(h), Static} \union ServiceSet
  PROVE  RoutesInv'
<1>1. Good(build') /\ Justified(build'.local)
  <2>1. Justified(Empty.local)
    BY BackendFacts DEF Empty, NoRoutes, Justified
  <2> QED
    BY <2>1, EmptyIsGood
<1>2. MergeSound'
  <2>1. Stored(build'.api) = build'.local
    BY <1>1 DEF Good
  <2> QED
    BY <2>1 DEF MergeSound, Stored
<1>3. RoutesJustified'
  BY <1>1 DEF RoutesJustified, Justified, NoRoutes
<1>4. \A h : LabelBackend(h)' = LabelBackend(h)
  BY DEF LabelBackend
<1>5. LabelsServed'
  <2> SUFFICES ASSUME Quiet', NEW h \in Hosts
               PROVE  /\ pc' \in Building =>
                           build'.local[h] \in {LabelBackend(h), Static} \union ServiceSet
                      /\ proxy'[h] \in ContainerSet => proxy'[h] = LabelBackend(h)
    BY <1>4 DEF LabelsServed, Quiet, Building
  <2>1. b.local[h] \in {LabelBackend(h), Static} \union ServiceSet
    OBVIOUS
  <2> QED
    BY <2>1, BackendFacts DEF Building
<1> QED
  BY <1>2, <1>3, <1>5 DEF RoutesInv

\* The types, with the parts the steps below speak of by name.
LEMMA TypeFacts ==
  ASSUME ReconcileInv
  PROVE  /\ TypeOK /\ RoutesInv
         /\ faults \in Faults /\ changes \in Changes
         /\ Good(build) /\ Justified(build.local)
         /\ build.local \in RouteMaps
         /\ intents \in [ServiceSet -> SUBSET Hosts]
BY DEF ReconcileInv, RoutesInv, TypeOK, Faults, Changes, Good, MergeSound,
       RoutesJustified, Build

\* reconcile_with_backoff returns with nothing built.
LEMMA ReturnFacts ==
  ASSUME Return
  PROVE  /\ pc' \in {"select", "sleep"} /\ cands' = {} /\ build' = Empty
         /\ initialReconcile' = TRUE /\ stream' = stream /\ event' = event
         /\ debounce' = debounce
BY DEF Return

\* The candidates and their report touch no route.
LEMMA DiscoveryStep ==
  ASSUME ReconcileInv, list_candidates \/ put_discovery
  PROVE  ReconcileInv'
<1> USE TypeFacts
<1>1. CASE list_candidates
  <2>1. /\ faults' \in Faults /\ cands' \subseteq ContainerSet
        /\ pc' \in {"report", "list"}
        /\ faults'.docker = 0 => faults.docker = 0
    BY <1>1, ListedFacts, FaultFacts DEF list_candidates, TypeOK
  <2>2. TypeOK'
    BY <1>1, <2>1 DEF list_candidates, TypeOK, world, loop, Faults
  <2>3. RoutesInv'
    <3>1. Quiet' => Quiet /\ running' = running
      BY <1>1, <2>1 DEF list_candidates, Quiet, world
    <3> QED
      BY <1>1, <2>1, <3>1, RoutesKept DEF list_candidates, Building
  <2> QED
    BY <2>2, <2>3 DEF ReconcileInv, RoutesInv
<1>2. CASE put_discovery
  <2>1. TypeOK'
    BY <1>2 DEF put_discovery, TypeOK, world, loop
  <2>2. RoutesInv'
    <3>1. Quiet' => Quiet /\ running' = running
      BY <1>2 DEF put_discovery, Quiet, world
    <3> QED
      BY <1>2, <3>1, RoutesKept DEF put_discovery, Building
  <2> QED
    BY <2>1, <2>2 DEF ReconcileInv, RoutesInv
<1> QED
  BY <1>1, <1>2

\* The list of the labelled containers starts what is built.
LEMMA ListStep ==
  ASSUME ReconcileInv, list_services
  PROVE  ReconcileInv'
<1> USE TypeFacts
<1>1. ASSUME NEW found \in SUBSET running, Listed(found),
             build' = FromServices(found), pc' = "desired"
      PROVE  ReconcileInv'
  <2>1. /\ faults' \in Faults
        /\ faults'.docker = 0 => found = running /\ faults.docker = 0
    BY <1>1, ListedFacts
  <2>2. Good(FromServices(found)) /\ Justified(FromServices(found).local)
    BY FromServicesFacts, LabelsJustified
  <2>3. build' \in Build
    BY <1>1, <2>2 DEF Good
  <2>4. TypeOK'
    BY <1>1, <2>1, <2>3 DEF list_services, TypeOK, world, loop, Faults
  <2>5. Quiet' => /\ Quiet
                  /\ \A h \in Hosts : FromServices(found).local[h]
                       \in {LabelBackend(h), Static} \union ServiceSet
    <3>1. changes' = changes
      BY DEF list_services
    <3> QED
      BY <2>1, <3>1, FromServicesFacts, LabelBackendIs DEF Quiet
  <2>6. RoutesInv'
    <3>1. proxy' = proxy /\ running' = running
      BY DEF list_services, world
    <3> QED
      BY <1>1, <2>2, <2>5, <3>1, Built
  <2> QED
    BY <2>4, <2>6 DEF ReconcileInv, RoutesInv
<1>2. ASSUME Fault("docker"), pc' = "backoff", build' = build
      PROVE  ReconcileInv'
  <2>1. faults' \in Faults /\ faults'.docker # 0
    BY <1>2, FaultFacts
  <2>2. TypeOK'
    BY <1>2, <2>1 DEF list_services, TypeOK, world, loop, Faults
  <2>3. RoutesInv'
    BY <1>2, <2>1, RoutesKept DEF list_services, Quiet, Building
  <2> QED
    BY <2>2, <2>3 DEF ReconcileInv, RoutesInv
<1> QED
  BY <1>1, <1>2 DEF list_services

\* The enabled services are merged in, if the controller answers.
LEMMA DesiredStep ==
  ASSUME ReconcileInv, desired_services
  PROVE  ReconcileInv'
<1> USE TypeFacts
<1> DEFINE b == IF reachable THEN AddDesired(build) ELSE build
<1>1. /\ Good(b) /\ Justified(b.local)
      /\ \A h \in Hosts : b.local[h] \in {build.local[h]} \union ServiceSet
  BY DesiredFacts
<1>2. build' = b /\ pc = "desired" /\ pc' = "replace" /\ proxy' = proxy
      /\ running' = running /\ changes' = changes /\ faults' = faults
  BY DEF desired_services, world
<1>3. b \in Build
  BY <1>1 DEF Good
<1> HIDE DEF b
<1>4. TypeOK'
  BY <1>2, <1>3 DEF desired_services, TypeOK, world, loop
<1>5. Quiet' => /\ Quiet
                /\ \A h \in Hosts :
                     b.local[h] \in {LabelBackend(h), Static} \union ServiceSet
  BY <1>1, <1>2 DEF Quiet, RoutesInv, LabelsServed
<1>6. RoutesInv'
  BY <1>1, <1>2, <1>5, Built
<1> QED
  BY <1>4, <1>6 DEF ReconcileInv, RoutesInv

\* The proxy gets the routes with the static ones merged in.
LEMMA ReplaceStep ==
  ASSUME ReconcileInv, routes_replace
  PROVE  ReconcileInv'
<1> USE TypeFacts
<1> DEFINE b == apply_static_routes(build)
<1>1. /\ Good(b) /\ Justified(b.local)
      /\ \A h \in Hosts : b.local[h] = IF h \in StaticHosts THEN Static ELSE build.local[h]
  BY StaticFacts
<1>2. build' = b /\ pc = "replace" /\ pc' = "put" /\ proxy' = b.local
      /\ running' = running /\ changes' = changes /\ faults' = faults
  BY DEF routes_replace, world
<1>3. b \in Build /\ b.local \in RouteMaps
  BY <1>1 DEF Good, Build
<1> HIDE DEF b
<1>4. TypeOK'
  BY <1>2, <1>3 DEF routes_replace, TypeOK, world, loop
<1>5. Quiet' => /\ Quiet
                /\ \A h \in Hosts :
                     b.local[h] \in {LabelBackend(h), Static} \union ServiceSet
  BY <1>1, <1>2 DEF Quiet, RoutesInv, LabelsServed
<1>6. RoutesInv'
  BY <1>1, <1>2, <1>5, Replaced, BackendFacts
<1> QED
  BY <1>4, <1>6 DEF ReconcileInv, RoutesInv

\* A return drops what was built and leaves the routes served alone.
LEMMA ReturnStep ==
  ASSUME ReconcileInv, Return, proxy' = proxy, running' = running, Quiet' => Quiet
  PROVE  RoutesInv'
<1> USE TypeFacts
<1>1. Good(Empty) /\ Justified(Empty.local)
  BY EmptyIsGood, BackendFacts DEF Empty, NoRoutes, Justified
<1>2. build' = Empty /\ pc' \in {"select", "sleep"}
  BY ReturnFacts
<1>3. MergeSound'
  <2>1. Stored(build'.api) = build'.local
    BY <1>1, <1>2 DEF Good
  <2> QED
    BY <1>2, <2>1 DEF MergeSound, Stored
<1>4. RoutesJustified'
  BY <1>1, <1>2 DEF RoutesInv, RoutesJustified, Justified, NoRoutes
<1>5. \A h : LabelBackend(h)' = LabelBackend(h)
  BY DEF LabelBackend
<1>6. LabelsServed'
  BY <1>2, <1>5 DEF RoutesInv, LabelsServed, Quiet
<1> QED
  BY <1>3, <1>4, <1>6 DEF RoutesInv

\* What is published is what was built and is served.
LEMMA PutStep ==
  ASSUME ReconcileInv, put_routes
  PROVE  ReconcileInv'
<1> USE TypeFacts
<1>1. /\ pc = "put" /\ proxy' = proxy /\ running' = running /\ changes' = changes
      /\ intents' = intents /\ reachable' = reachable /\ discovery' = discovery
  BY DEF put_routes, world
<1>2. Stored(build.api) \in RouteMaps
  BY DEF Good
<1>3. CASE reachable /\ published' = Stored(build.api) /\ Return /\ faults' = faults
  <2>1. TypeOK'
    <3>1. Empty \in Build
      BY EmptyIsGood DEF Good
    <3> QED
      BY <1>1, <1>2, <1>3, <3>1, ReturnFacts DEF TypeOK
  <2>2. RoutesInv'
    BY <1>1, <1>3, ReturnStep DEF Quiet
  <2> QED
    BY <2>1, <2>2 DEF ReconcileInv, RoutesInv
<1>4. ASSUME published' \in {published, Stored(build.api)}, pc' = "backoff",
             build' = build, cands' = cands, loop' = loop,
             faults' = faults \/ Fault("controller")
      PROVE  ReconcileInv'
  <2>1. faults' \in Faults /\ faults'.docker = faults.docker
    BY <1>4, FaultFacts
  <2>2. TypeOK'
    BY <1>1, <1>2, <1>4, <2>1 DEF TypeOK, loop, Faults
  <2>3. RoutesInv'
    BY <1>1, <1>4, <2>1, RoutesKept DEF Quiet, Building
  <2> QED
    BY <2>2, <2>3 DEF ReconcileInv, RoutesInv
<1> QED
  <2>1. CASE reachable /\ published' = Stored(build.api) /\ Return /\ UNCHANGED faults
    BY <1>3, <2>1
  <2>2. CASE /\ reachable /\ Fault("controller")
             /\ published' \in {published, Stored(build.api)}
             /\ pc' = "backoff" /\ UNCHANGED <<build, cands, loop>>
    BY <1>4, <2>2
  <2>3. CASE /\ ~reachable /\ pc' = "backoff"
             /\ UNCHANGED <<published, build, cands, loop, faults>>
    BY <1>4, <2>3
  <2> QED
    BY <2>1, <2>2, <2>3 DEF put_routes

\* After the backoff: labels and static routes alone.
LEMMA RefreshListStep ==
  ASSUME ReconcileInv, refresh_local_list
  PROVE  ReconcileInv'
<1> USE TypeFacts
<1>1. /\ proxy' = proxy /\ running' = running /\ changes' = changes
      /\ intents' = intents /\ reachable' = reachable /\ discovery' = discovery
      /\ published' = published
  BY DEF refresh_local_list, world
<1>2. ASSUME NEW found \in SUBSET running, Listed(found),
             build' = apply_static_routes(FromServices(found)),
             pc' = "refresh", UNCHANGED <<cands, loop>>
      PROVE  ReconcileInv'
  <2> DEFINE b == apply_static_routes(FromServices(found))
  <2>1. /\ faults' \in Faults
        /\ faults'.docker = 0 => found = running /\ faults.docker = 0
    BY <1>2, ListedFacts
  <2>2. /\ Good(b) /\ Justified(b.local)
        /\ \A h \in Hosts : b.local[h] =
             IF h \in StaticHosts THEN Static ELSE FromServices(found).local[h]
    BY FromServicesFacts, LabelsJustified, StaticFacts
  <2>3. b \in Build /\ build' = b
    BY <1>2, <2>2 DEF Good
  <2> HIDE DEF b
  <2>4. TypeOK'
    BY <1>1, <1>2, <2>1, <2>3 DEF TypeOK, loop, Faults
  <2>5. Quiet' => /\ Quiet
                  /\ \A h \in Hosts :
                       b.local[h] \in {LabelBackend(h), Static} \union ServiceSet
    BY <1>1, <2>1, <2>2, FromServicesFacts, LabelBackendIs DEF Quiet
  <2>6. RoutesInv'
    BY <1>1, <1>2, <2>2, <2>3, <2>5, Built, BackendFacts
  <2> QED
    BY <2>4, <2>6 DEF ReconcileInv, RoutesInv
<1>3. ASSUME Fault("docker"), Return
      PROVE  ReconcileInv'
  <2>1. faults' \in Faults /\ faults'.docker # 0
    BY <1>3, FaultFacts
  <2>2. TypeOK'
    <3>1. Empty \in Build
      BY EmptyIsGood DEF Good
    <3> QED
      BY <1>1, <1>3, <2>1, <3>1, ReturnFacts DEF TypeOK, Faults
  <2>3. RoutesInv'
    BY <1>1, <1>3, <2>1, ReturnStep DEF Quiet
  <2> QED
    BY <2>2, <2>3 DEF ReconcileInv, RoutesInv
<1> QED
  BY <1>2, <1>3 DEF refresh_local_list

\* The proxy gets them.
LEMMA RefreshReplaceStep ==
  ASSUME ReconcileInv, refresh_local_replace
  PROVE  ReconcileInv'
<1> USE TypeFacts
<1>1. /\ pc = "refresh" /\ proxy' = build.local /\ running' = running
      /\ changes' = changes /\ faults' = faults /\ intents' = intents
      /\ reachable' = reachable /\ discovery' = discovery /\ published' = published
      /\ Return
  BY DEF refresh_local_replace, world
<1>2. Empty \in Build
  BY EmptyIsGood DEF Good
<1>3. TypeOK'
  BY <1>1, <1>2, ReturnFacts DEF TypeOK
<1>4. Quiet' => /\ Quiet
                /\ \A h \in Hosts :
                     build.local[h] \in {LabelBackend(h), Static} \union ServiceSet
  BY <1>1 DEF Quiet, RoutesInv, LabelsServed
<1>5. \A h \in StaticHosts : build.local[h] = Static
  BY <1>1 DEF RoutesInv, RoutesJustified
<1>6. RoutesInv'
  BY <1>1, <1>4, <1>5, ReturnFacts, Replaced
<1> QED
  BY <1>3, <1>6 DEF ReconcileInv, RoutesInv

\* The steps of loop_forever touch no route.
LEMMA LoopStep ==
  ASSUME ReconcileInv,
         \/ watch_events \/ event_next \/ stream_ends \/ reconnect
         \/ debounce_elapsed \/ periodic_tick
  PROVE  ReconcileInv'
<1> USE TypeFacts
<1>1. /\ running' = running /\ intents' = intents /\ reachable' = reachable
      /\ discovery' = discovery /\ published' = published /\ proxy' = proxy
      /\ cands' = cands /\ build' = build /\ changes' = changes
      /\ initialReconcile' = initialReconcile
      /\ pc' = pc \/ pc' \in {"discover", "select"}
  BY DEF watch_events, event_next, stream_ends, reconnect, debounce_elapsed,
         periodic_tick, world, loop
<1>2. faults' = faults \/ Fault("docker")
  BY DEF watch_events, event_next, stream_ends, reconnect, debounce_elapsed,
         periodic_tick
<1>3. faults' \in Faults /\ (faults'.docker = 0 => faults.docker = 0)
  BY <1>2, FaultFacts
<1>4. event' \in BOOLEAN /\ debounce' \in BOOLEAN
  BY Zenon DEF watch_events, event_next, stream_ends, reconnect, debounce_elapsed,
         periodic_tick, loop, TypeOK
<1>5. stream' \in {"new", "open", "closed"}
  BY DEF watch_events, event_next, stream_ends, reconnect, debounce_elapsed,
         periodic_tick, loop, TypeOK
<1>6. TypeOK'
  BY <1>1, <1>3, <1>4, <1>5 DEF TypeOK, Faults
<1>7. RoutesInv'
  BY <1>1, <1>3, RoutesKept DEF Quiet, Building
<1> QED
  BY <1>6, <1>7 DEF ReconcileInv, RoutesInv

\* Nor do the changes of the world, but for what the controller drops.
LEMMA WorldInv ==
  ASSUME ReconcileInv, WorldStep
  PROVE  ReconcileInv'
<1> USE TypeFacts
<1>1. /\ discovery' = discovery /\ proxy' = proxy /\ pc' = pc /\ cands' = cands
      /\ build' = build /\ stream' = stream /\ debounce' = debounce
      /\ initialReconcile' = initialReconcile
  BY Zenon DEF WorldStep, DockerChanges, IntentChanges, ControllerLost, ControllerBack,
         RouteDropped, loop
<1>2. /\ faults' \in Faults /\ changes' \in Changes
      /\ faults'.docker = faults.docker
      /\ changes'.docker = 0 => changes.docker = 0 /\ running' = running
  BY FaultFacts, ChangeFacts
     DEF WorldStep, DockerChanges, IntentChanges, ControllerLost, ControllerBack,
         RouteDropped, world
<1>3. running' \subseteq ContainerSet
  BY DEF WorldStep, DockerChanges, IntentChanges, ControllerLost, ControllerBack,
         RouteDropped, world, TypeOK
<1>4. intents' \in [ServiceSet -> SUBSET Hosts]
  BY DEF WorldStep, DockerChanges, IntentChanges, ControllerLost, ControllerBack,
         RouteDropped, world
<1>5. published' \in RouteMaps
  BY DEF WorldStep, DockerChanges, IntentChanges, ControllerLost, ControllerBack,
         RouteDropped, TypeOK, RouteMaps
<1>6. event' \in BOOLEAN /\ reachable' \in BOOLEAN
  BY Zenon DEF WorldStep, DockerChanges, IntentChanges, ControllerLost, ControllerBack,
         RouteDropped, world, loop, TypeOK
<1>7. TypeOK'
  BY <1>1, <1>2, <1>3, <1>4, <1>5, <1>6 DEF TypeOK, Faults, Changes
<1>8. RoutesInv'
  BY <1>1, <1>2, RoutesKept DEF Quiet
<1> QED
  BY <1>7, <1>8 DEF ReconcileInv, RoutesInv

\* The first states have the invariant.
LEMMA ReconcileInit == Init => ReconcileInv
<1> SUFFICES ASSUME Init PROVE ReconcileInv
  OBVIOUS
<1>1. NoRoutes \in RouteMaps /\ Empty \in Build
  BY EmptyIsGood DEF Good, NoRoutes, RouteMaps
<1>2. MaxChanges \in Nat /\ MaxFaults \in Nat
  BY ConstantsAssumption
<1>3. TypeOK
  <2>1. intents \in [ServiceSet -> SUBSET Hosts] /\ running \subseteq ContainerSet
    BY DEF Init
  <2>2. reachable \in BOOLEAN /\ {event, debounce, initialReconcile} \subseteq BOOLEAN
    BY Zenon DEF Init
  <2>3. changes \in Changes /\ faults \in Faults
    BY <1>2 DEF Init, Changes, Faults
  <2>4. /\ discovery = {} /\ cands = {} /\ published = NoRoutes /\ proxy = NoRoutes
        /\ build = Empty /\ pc = "discover" /\ stream = "new"
    BY DEF Init
  <2> QED
    BY <1>1, <2>1, <2>2, <2>3, <2>4 DEF TypeOK, Changes, Faults
<1> QED
  BY <1>3, RoutesInitially DEF ReconcileInv, RoutesInv

\* Every step keeps it.
LEMMA ReconcileStep == ReconcileInv /\ [Next]_vars => ReconcileInv'
<1> SUFFICES ASSUME ReconcileInv, [Next]_vars PROVE ReconcileInv'
  OBVIOUS
<1>1. CASE AgentStep
  BY <1>1, DiscoveryStep, ListStep, DesiredStep, ReplaceStep, PutStep,
     RefreshListStep, RefreshReplaceStep, LoopStep DEF AgentStep
<1>2. CASE WorldStep
  BY <1>2, WorldInv
<1>3. CASE UNCHANGED vars
  <2>1. TypeOK'
    BY <1>3, TypeFacts DEF vars, world, loop, TypeOK
  <2>2. Quiet' => Quiet /\ running' = running
    BY <1>3 DEF vars, world, Quiet
  <2>3. RoutesInv'
    BY <1>3, <2>2, TypeFacts, RoutesKept DEF vars
  <2> QED
    BY <2>1, <2>3 DEF ReconcileInv, RoutesInv
<1> QED
  BY <1>1, <1>2, <1>3 DEF Next

\* In every state the routes built, served and published are the merge of
\* labels, enabled services and static routes by their priorities, whatever
\* fails and for every list of containers and services (reconcile_once and
\* refresh_local_routes of reconcile.rs).
THEOREM ReconcileIsSound == Spec => []ReconcileInv
BY ReconcileInit, ReconcileStep, PTL DEF Spec

\* What the agent publishes is what its proxy serves at that moment
\* (reconcile.rs:373, "Update local proxy first").
THEOREM PublishesServed == Spec => PublishesWhatItServes
<1> DEFINE A == pc = "put" /\ published' # published /\ pc' # "put"
                  => published' = proxy'
<1>1. ReconcileInv /\ [Next]_vars => [A]_vars
  <2> SUFFICES ASSUME ReconcileInv, Next, pc = "put", published' # published, pc' # "put"
               PROVE  published' = proxy'
    OBVIOUS
  <2>1. put_routes
    BY DEF Next, AgentStep, WorldStep, list_candidates, put_discovery, list_services,
           desired_services, routes_replace, refresh_local_list, refresh_local_replace,
           watch_events, event_next, stream_ends, reconnect, debounce_elapsed,
           periodic_tick, DockerChanges, IntentChanges, ControllerLost,
           ControllerBack, RouteDropped
  <2>2. published' = Stored(build.api) /\ proxy' = proxy
    BY <2>1 DEF put_routes
  <2>3. Stored(build.api) = build.local /\ proxy = build.local
    BY DEF ReconcileInv, MergeSound
  <2> QED
    BY <2>2, <2>3
<1> QED
  BY <1>1, ReconcileIsSound, PTL DEF Spec, PublishesWhatItServes

\* While Docker neither fails nor changes, nothing else takes a label route or
\* a static route away from the proxy (reconcile.rs, refresh_local_routes).
THEOREM LocalRoutesStay == Spec => LocalRoutesKept
<1> DEFINE A == changes'.docker = 0 /\ faults'.docker = 0
                  => \A h \in Hosts : proxy[h] \in ContainerSet \union {Static}
                                      => proxy'[h] # NoRoute
<1>1. ReconcileInv /\ [Next]_vars => [A]_vars
  <2> SUFFICES ASSUME ReconcileInv, Next, Quiet', NEW h \in Hosts,
                      proxy[h] \in ContainerSet \union {Static}
               PROVE  proxy'[h] # NoRoute
    BY DEF Quiet
  <2> USE TypeFacts
  <2>1. CASE proxy' = proxy
    BY <2>1, BackendFacts
  <2>2. CASE proxy' # proxy
    <3>1. routes_replace \/ refresh_local_replace
      BY <2>2 DEF Next, AgentStep, WorldStep, list_candidates, put_discovery,
         list_services, desired_services, put_routes, refresh_local_list,
         watch_events, event_next, stream_ends, reconnect, debounce_elapsed,
         periodic_tick, DockerChanges, IntentChanges, ControllerLost,
         ControllerBack, RouteDropped
    <3>2. changes' = changes /\ faults' = faults
      BY <3>1, Zenon DEF routes_replace, refresh_local_replace
    <3>3. Quiet
      BY <3>2 DEF Quiet
    <3>4. proxy'[h] \in {build.local[h], Static} /\ pc \in {"replace", "refresh"}
      BY <3>1, StaticFacts DEF routes_replace, refresh_local_replace
    <3>5. h \in StaticHosts => proxy'[h] = Static
      BY <3>1, StaticFacts
         DEF routes_replace, refresh_local_replace, RoutesInv, RoutesJustified
    <3>6. CASE proxy[h] = Static
      <4>1. h \in StaticHosts
        BY <3>6 DEF RoutesInv, RoutesJustified, Justified
      <4> QED
        BY <4>1, <3>5, BackendFacts
    <3>7. CASE proxy[h] \in ContainerSet
      <4>1. /\ build.local[h] \in {LabelBackend(h), Static} \union ServiceSet
            /\ proxy[h] = LabelBackend(h)
        BY <3>3, <3>4, <3>7 DEF RoutesInv, LabelsServed, Quiet
      <4> QED
        BY <3>4, <3>7, <4>1, BackendFacts
    <3> QED
      BY <3>6, <3>7
  <2> QED
    BY <2>1, <2>2
<1> QED
  BY <1>1, ReconcileIsSound, PTL DEF Spec, LocalRoutesKept

\* One pass in which nothing fails or changes serves and publishes exactly
\* what is wanted, for every list of containers and services; the refresh
\* after a backoff serves the label and static routes (reconcile_once,
\* refresh_local_routes, apply_static_routes and put_routes).
THEOREM MergeIsWanted ==
  ASSUME intents \in [ServiceSet -> SUBSET Hosts]
  PROVE  LET merged == apply_static_routes(AddDesired(FromServices(running)))
         IN  /\ merged.local = Wanted
             /\ Stored(merged.api) = Wanted
             /\ apply_static_routes(FromServices(running)).local = LocalWanted
<1> DEFINE labels == FromServices(running)
           asked == AddDesired(labels)
           merged == apply_static_routes(asked)
           refreshed == apply_static_routes(labels)
<1>1. /\ Good(labels) /\ Justified(labels.local)
      /\ \A h \in Hosts : labels.local[h] = LabelBackend(h)
  BY FromServicesFacts, LabelsJustified, LabelBackendIs
<1> HIDE DEF labels
<1>2. /\ Good(asked) /\ Justified(asked.local)
      /\ \A h \in Hosts : asked.local[h] = LastIntent(h, labels.local[h])
  BY <1>1, AddDesiredFacts, DesiredFacts
<1>3. \A h \in Hosts : asked.local[h] = IntentBackend(h)
  <2> SUFFICES ASSUME NEW h \in Hosts
               PROVE  LastIntent(h, LabelBackend(h)) = IntentBackend(h)
    BY <1>1, <1>2
  <2> QED
    BY DEF LastIntent, IntentBackend
<1> HIDE DEF asked
<1>4. /\ Good(merged)
      /\ \A h \in Hosts : merged.local[h] = Wanted[h]
  BY <1>2, <1>3, StaticFacts DEF Wanted
<1>5. /\ Good(refreshed)
      /\ \A h \in Hosts : refreshed.local[h] = LocalWanted[h]
  BY <1>1, StaticFacts DEF LocalWanted
<1> HIDE DEF merged, refreshed
<1>6. merged.local = Wanted
  BY <1>4 DEF Good, Build, RouteMaps, Wanted
<1>7. refreshed.local = LocalWanted
  BY <1>5 DEF Good, Build, RouteMaps, LocalWanted
<1>8. Stored(merged.api) = Wanted
  BY <1>4, <1>6 DEF Good
<1> QED
  BY <1>6, <1>7, <1>8 DEF merged, refreshed, asked, labels

=============================================================================
