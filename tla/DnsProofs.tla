----------------------------- MODULE DnsProofs ------------------------------
(***************************************************************************)
(* Proofs about the controller's DNS.  DnsServer, for any names, requests  *)
(* in flight, upstream zone, TTLs, caps and timeout: the registry comes    *)
(* first, a failure is reported as such, what is said of upstream is       *)
(* fresh, and a server that is its own upstream asks itself only for names *)
(* it knew.                                                                *)
(* DnsSupervisor, for any number of errors of accept and of recv_from and  *)
(* of times another process takes the port.                                *)
(***************************************************************************)
EXTENDS DnsServer, DnsSupervisor, TLAPS

\* The age of the answers to one request, as in UpstreamAnswersFresh.
AnswersFresh(s) ==
  \A o \in req[s].outcomes : o.age <= Life(o.kind, o.ttl) + QueryTimeout

\* A question that is over has an outcome or has left its mark, and a response
\* that is ready says so if none of its questions has a record.
FailureSound(s) ==
  LET r == req[s] IN
  /\ \A k \in Asked(s) \ Elems(r.todo) :
       r.anyFail \/ \E o \in r.outcomes : o.key = k
  /\ r.pc = "done" =>
       \/ r.rcode = "ServFail"
       \/ /\ r.todo = <<>>
          /\ r.anyFail => \E o \in r.outcomes : o.kind = "records"

SlotInv(s) ==
  RequestSound(s) /\ ResponseSound(s) /\ AnswersFresh(s) /\ FailureSound(s)

\* The inductive invariant.
IInv == TypeOK /\ CacheSound /\ \A s \in Slots : SlotInv(s)

-----------------------------------------------------------------------------
(* Facts about questions and requests.                                     *)

\* The questions left are the one at hand and the rest.
LEMMA QuestionFacts ==
  ASSUME NEW q \in Seq(Keys), q # <<>>
  PROVE  /\ Head(q) \in Keys
         /\ Tail(q) \in Seq(Keys)
         /\ Head(q) \in Elems(q)
         /\ Elems(Tail(q)) \subseteq Elems(q)
         /\ Elems(q) \subseteq Elems(Tail(q)) \union {Head(q)}
<1>1. Len(q) \in Nat \ {0} /\ DOMAIN q = 1..Len(q) /\ Head(q) = q[1]
  OBVIOUS
<1>2. /\ Tail(q) \in Seq(Keys)
      /\ DOMAIN Tail(q) = 1..(Len(q) - 1)
      /\ \A i \in 1..(Len(q) - 1) : Tail(q)[i] = q[i + 1]
  BY <1>1
<1>3. Head(q) \in Keys /\ Head(q) \in Elems(q)
  BY <1>1 DEF Elems
<1>4. Elems(Tail(q)) \subseteq Elems(q)
  <2>1. SUFFICES ASSUME NEW i \in 1..(Len(q) - 1)
                 PROVE  q[i + 1] \in Elems(q)
    BY <1>2 DEF Elems
  <2>2. i + 1 \in 1..Len(q)
    BY <1>1
  <2> QED
    BY <2>2, <1>1 DEF Elems
<1>5. Elems(q) \subseteq Elems(Tail(q)) \union {Head(q)}
  <2>1. SUFFICES ASSUME NEW i \in 1..Len(q)
                 PROVE  q[i] \in Elems(Tail(q)) \union {Head(q)}
    BY <1>1 DEF Elems
  <2>2. CASE i = 1
    BY <2>2, <1>1
  <2>3. CASE i # 1
    <3>1. i - 1 \in 1..(Len(q) - 1) /\ (i - 1) + 1 = i
      BY <2>3, <1>1
    <3>2. Tail(q)[i - 1] = q[i]
      BY <3>1, <1>2
    <3> QED
      BY <3>1, <3>2, <1>2 DEF Elems
  <2> QED
    BY <2>2, <2>3
<1> QED
  BY <1>2, <1>3, <1>4, <1>5

\* The keys of a request are keys.
LEMMA ElemsAreKeys ==
  ASSUME NEW q \in Seq(Keys)
  PROVE  Elems(q) \subseteq Keys
BY DEF Elems

\* A key is a name and a type.
LEMMA KeyFacts ==
  ASSUME NEW k \in Keys
  PROVE  k[1] \in Names /\ k[2] \in Types
BY DEF Keys

\* A lifetime is a number.
LEMMA LifeType ==
  ASSUME NEW kind, NEW ttl \in Nat
  PROVE  Life(kind, ttl) \in Nat
BY ConstantsAssumption DEF Life

\* Finished sets the place, the start and the code and drops the reply; the
\* rest of the request stays (the end of the loop of handle_request).
LEMMA FinishedFacts ==
  ASSUME now \in Nat, NEW r \in Request
  PROVE  /\ Finished(r) \in Request
         /\ Finished(r).asked = r.asked
         /\ Finished(r).todo = r.todo
         /\ Finished(r).outcomes = r.outcomes
         /\ Finished(r).anyFail = r.anyFail
         /\ Finished(r).rcode \in {r.rcode, "ServFail"}
         /\ r.todo = <<>> /\ r.anyFail =>
              \/ Finished(r).rcode = "ServFail"
              \/ \E o \in r.outcomes : o.kind = "records"
         /\ r.todo # <<>> => Finished(r).pc = "answer" /\ Finished(r).start = now
         /\ r.todo = <<>> => Finished(r).pc = "done"
<1>1. CASE r.todo # <<>>
  BY <1>1 DEF Finished, Request
<1>2. CASE r.todo = <<>>
  <2> DEFINE c == IF /\ r.anyFail
                     /\ \A o \in r.outcomes : o.kind # "records"
                  THEN "ServFail" ELSE r.rcode
             f == [r EXCEPT !.pc = "done", !.start = 0, !.reply = NoEntry,
                            !.rcode = c]
  <2>1. Finished(r) = f
    BY <1>2 DEF Finished
  <2>2. c \in Rcodes /\ c \in {r.rcode, "ServFail"}
    BY DEF Request, Rcodes
  <2>5. r.anyFail => c = "ServFail" \/ \E o \in r.outcomes : o.kind = "records"
    OBVIOUS
  <2> HIDE DEF c
  <2>3. f \in Request /\ f.asked = r.asked /\ f.todo = r.todo
    BY <2>2 DEF Request
  <2>4. /\ f.outcomes = r.outcomes /\ f.rcode = c /\ f.pc = "done"
        /\ f.anyFail = r.anyFail
    BY DEF Request
  <2> QED
    BY <1>2, <2>1, <2>2, <2>3, <2>4, <2>5
<1> QED
  BY <1>1, <1>2

-----------------------------------------------------------------------------
(* What a step of one request does to the others, and to itself.           *)

\* A request that a step leaves alone stays sound: what is said of it depends
\* on its record, on what it saw and on the clock, the zone and the registry
\* only (requests are tasks of their own, server.rs).
LEMMA OtherSlot ==
  ASSUME IInv, NEW t \in Slots, req'[t] = req[t], seen'[t] = seen[t],
         UNCHANGED <<selfUpstream, zone, now, registry>>
  PROVE  SlotInv(t)'
<1>1. RequestSound(t) /\ ResponseSound(t) /\ AnswersFresh(t) /\ FailureSound(t)
  BY DEF IInv, SlotInv
<1>2. RequestSound(t)'
  BY <1>1 DEF RequestSound, Asked, Registered, Question
<1>3. ResponseSound(t)'
  BY <1>1 DEF ResponseSound, Asked, Registered
<1>4. AnswersFresh(t)'
  BY <1>1 DEF AnswersFresh
<1>5. FailureSound(t)'
  BY <1>1 DEF FailureSound, Asked
<1> QED
  BY <1>2, <1>3, <1>4, <1>5 DEF SlotInv

\* A step of the request in s that leaves the registry, the clock and the
\* history alone is one of IInv if it is for s and for the cache.
LEMMA OneRequest ==
  ASSUME IInv, NEW s \in Slots, NEW r \in Request,
         req' = [req EXCEPT ![s] = r],
         UNCHANGED <<selfUpstream, zone, now, registry, replaced, seen>>,
         cache' \in [Keys -> Entry \union {NoEntry}], CacheSound',
         SlotInv(s)'
  PROVE  IInv'
<1>1. TypeOK'
  BY DEF IInv, TypeOK
<1>2. ASSUME NEW t \in Slots, t # s
      PROVE  SlotInv(t)'
  <2>1. req'[t] = req[t]
    BY <1>2 DEF IInv, TypeOK
  <2> QED
    BY <2>1, OtherSlot
<1> QED
  BY <1>1, <1>2 DEF IInv

\* The cache stays sound when it stays as it is.
LEMMA CacheKept ==
  ASSUME IInv, UNCHANGED <<zone, cache>>
  PROVE  cache' \in [Keys -> Entry \union {NoEntry}] /\ CacheSound'
BY DEF IInv, TypeOK, CacheSound

\* The question of a request that is busy.
LEMMA BusyFacts ==
  ASSUME IInv, NEW s \in Slots, req[s].pc \in Busy
  PROVE  /\ req[s] \in Request
         /\ req[s].todo \in Seq(Keys)
         /\ req[s].todo # <<>>
         /\ Question(s) \in Keys
         /\ Question(s)[1] \in Names
         /\ Question(s) \in Elems(req[s].todo)
         /\ Question(s) \in Asked(s)
         /\ registry[Question(s)[1]] \in seen[s][Question(s)[1]]
         /\ req[s].start \in Nat /\ now \in Nat
         /\ req[s].start <= now /\ now <= req[s].start + QueryTimeout
<1>1. req[s] \in Request /\ now \in Nat
  BY ConstantsAssumption DEF IInv, TypeOK
<1>2. req[s].todo \in Seq(Keys) /\ req[s].start \in Nat
  BY <1>1 DEF Request
<1>3. RequestSound(s)
  BY DEF IInv, SlotInv
<1>4. /\ req[s].todo # <<>>
      /\ req[s].start <= now /\ now <= req[s].start + QueryTimeout
      /\ Elems(req[s].todo) \subseteq Asked(s)
      /\ \A n \in Names : registry[n] \in seen[s][n]
  BY <1>3 DEF RequestSound, Busy
<1>5. Question(s) \in Keys /\ Question(s) \in Elems(req[s].todo)
  BY <1>2, <1>4, QuestionFacts DEF Question
<1>6. Question(s)[1] \in Names
  BY <1>5, KeyFacts
<1> QED
  BY <1>1, <1>2, <1>4, <1>5, <1>6

\* A request goes on with the same question.
LEMMA SameQuestion ==
  ASSUME IInv, NEW s \in Slots, req[s].pc \in Busy,
         NEW p \in Busy, NEW rep \in Reply \union {NoEntry},
         req' = [req EXCEPT ![s] = [req[s] EXCEPT !.pc = p, !.reply = rep]],
         UNCHANGED <<selfUpstream, zone, now, registry, replaced, seen>>,
         cache' \in [Keys -> Entry \union {NoEntry}], CacheSound',
         p \in Forwarding /\ Question(s)[2] \in {"A", "AAAA"}
           => ~Registered(s, Question(s)[1]),
         p = "arrived" => /\ rep \in Reply
                          /\ rep.kind \in {zone[Question(s)], "error"}
                          /\ rep.asOf \in req[s].start..now
  PROVE  IInv'
<1> DEFINE r == [req[s] EXCEPT !.pc = p, !.reply = rep]
<1>1. req[s] \in Request
  BY BusyFacts
<1>2. r \in Request
  BY <1>1 DEF Request, Busy
<1>3. /\ req'[s] = r
      /\ r.pc = p /\ r.reply = rep /\ r.asked = req[s].asked
      /\ r.todo = req[s].todo /\ r.outcomes = req[s].outcomes
      /\ r.rcode = req[s].rcode /\ r.start = req[s].start
      /\ r.anyFail = req[s].anyFail
  BY <1>1 DEF IInv, TypeOK, Request
<1> HIDE DEF r
<1>4. RequestSound(s) /\ ResponseSound(s) /\ AnswersFresh(s) /\ FailureSound(s)
  BY DEF IInv, SlotInv
<1>5. p # "idle" /\ p # "check" /\ p # "done"
  BY DEF Busy
<1>6. req[s].pc # "idle"
  BY DEF Busy
<1>7. RequestSound(s)'
  BY <1>3, <1>4, <1>5, <1>6 DEF RequestSound, Asked, Registered, Question
<1>8. ResponseSound(s)'
  BY <1>3, <1>4 DEF ResponseSound, Asked, Registered
<1>9. AnswersFresh(s)' /\ FailureSound(s)'
  BY <1>3, <1>4, <1>5 DEF AnswersFresh, FailureSound, Asked
<1> QED
  BY <1>2, <1>7, <1>8, <1>9, OneRequest DEF SlotInv, r

\* A request goes on to the next question, or is done: the outcomes grow by
\* sound ones only, and the question at hand is accounted for.
LEMMA NextQuestion ==
  ASSUME IInv, NEW s \in Slots, req[s].pc \in Busy, NEW r \in Request,
         req' = [req EXCEPT ![s] = Finished(r)],
         UNCHANGED <<selfUpstream, zone, now, registry, replaced, seen>>,
         cache' \in [Keys -> Entry \union {NoEntry}], CacheSound',
         r.asked = req[s].asked, r.todo = Tail(req[s].todo),
         req[s].outcomes \subseteq r.outcomes,
         r.anyFail \in {req[s].anyFail, TRUE},
         r.anyFail \/ \E o \in r.outcomes : o.key = Question(s),
         Question(s)[2] = "A" /\ Registered(s, Question(s)[1])
           => \E o \in r.outcomes : o.key = Question(s),
         \A o \in r.outcomes \ req[s].outcomes :
            /\ o.key[2] = "A" /\ Registered(s, o.key[1])
                 => o.kind = "records" /\ o.addr \in seen[s][o.key[1]]
            /\ o.age <= Life(o.kind, o.ttl) + QueryTimeout,
         \/ r.rcode = req[s].rcode
         \/ \E o \in r.outcomes :
              /\ o.kind = "nxdomain"
              /\ o.key[2] \in {"A", "AAAA"} => ~Registered(s, o.key[1])
  PROVE  IInv'
<1> DEFINE f == Finished(r)
<1>1. now \in Nat /\ req[s] \in Request
  BY BusyFacts
<1>2. /\ f \in Request
      /\ f.asked = req[s].asked /\ f.todo = Tail(req[s].todo)
      /\ f.outcomes = r.outcomes /\ f.rcode \in {r.rcode, "ServFail"}
      /\ f.todo # <<>> => f.pc = "answer" /\ f.start = now
      /\ f.todo = <<>> => f.pc = "done"
  BY <1>1, FinishedFacts
<1>3. req'[s] = f
  BY DEF IInv, TypeOK
<1>11. /\ f.anyFail \in {req[s].anyFail, TRUE}
       /\ f.anyFail \/ \E o \in f.outcomes : o.key = Question(s)
       /\ f.todo = <<>> /\ f.anyFail =>
            f.rcode = "ServFail" \/ \E o \in f.outcomes : o.kind = "records"
  <2>1. /\ f.anyFail = r.anyFail /\ f.outcomes = r.outcomes /\ f.todo = r.todo
        /\ r.todo = <<>> /\ r.anyFail =>
             f.rcode = "ServFail" \/ \E o \in r.outcomes : o.kind = "records"
    BY <1>1, FinishedFacts
  <2> HIDE DEF f
  <2> QED
    BY <2>1, Zenon
<1> HIDE DEF f
<1>4. /\ Elems(f.todo) \subseteq Elems(req[s].todo)
      /\ Elems(req[s].todo) \subseteq Elems(f.todo) \union {Question(s)}
      /\ Question(s) \in Asked(s)
  BY <1>2, BusyFacts, QuestionFacts DEF Question
<1>5. RequestSound(s) /\ ResponseSound(s) /\ AnswersFresh(s) /\ FailureSound(s)
  BY DEF IInv, SlotInv
<1>6. now <= now + QueryTimeout
  BY <1>1, ConstantsAssumption
<1>7. f.pc # "idle" /\ f.pc # "check" /\ f.pc # "arrived" /\ f.pc \notin Forwarding
  BY <1>2 DEF Forwarding
<1>8. RequestSound(s)'
  <2>1. f.pc \in Busy => f.todo # <<>> /\ f.start = now
    BY <1>2 DEF Busy
  <2>2. f.pc = "done" => f.todo = <<>>
    BY <1>2
  <2>3. \A n \in Names : registry[n] \in seen[s][n]
    BY <1>5 DEF RequestSound, Busy
  <2>4. selfUpstream => \A k \in Asked(s) : seen[s][k[1]] \intersect Addrs # {}
    BY <1>5 DEF RequestSound
  <2>5. Elems(f.todo) \subseteq Asked(s)
    BY <1>4, <1>5 DEF RequestSound
  <2>6. Asked(s)' = Asked(s)
    BY <1>2, <1>3 DEF Asked
  <2>7. (selfUpstream => \A k \in Asked(s) : seen[s][k[1]] \intersect Addrs # {})'
    BY <2>4, <2>6
  <2>8. (/\ \A n \in Names : registry[n] \in seen[s][n]
         /\ Elems(req[s].todo) \subseteq Asked(s)
         /\ req[s].pc # "check" /\ req[s].pc # "arrived"
         /\ req[s].pc \notin Forwarding
         /\ req[s].pc = "done" => req[s].todo = <<>>
         /\ req[s].pc \in Busy => /\ req[s].todo # <<>>
                                  /\ req[s].start <= now
                                  /\ now <= req[s].start + QueryTimeout)'
    BY <1>1, <1>3, <1>6, <1>7, <2>1, <2>2, <2>3, <2>5, <2>6
  <2> QED
    BY <2>7, <2>8 DEF RequestSound
<1>9. ResponseSound(s)'
  <2>1. ASSUME NEW k \in Asked(s), k \notin Elems(f.todo), k[2] = "A",
               Registered(s, k[1])
        PROVE  \E o \in f.outcomes : o.key = k
    <3>1. CASE k = Question(s)
      BY <2>1, <3>1, <1>2
    <3>2. CASE k # Question(s)
      BY <2>1, <3>2, <1>2, <1>4, <1>5 DEF ResponseSound
    <3> QED
      BY <3>1, <3>2
  <2>2. ASSUME NEW o \in f.outcomes, o.key[2] = "A", Registered(s, o.key[1])
        PROVE  o.kind = "records" /\ o.addr \in seen[s][o.key[1]]
    BY <2>2, <1>2, <1>5 DEF ResponseSound
  <2>3. ASSUME f.rcode = "NXDomain"
        PROVE  \E o \in f.outcomes :
                  /\ o.kind = "nxdomain"
                  /\ o.key[2] \in {"A", "AAAA"} => ~Registered(s, o.key[1])
    BY <2>3, <1>2, <1>5 DEF ResponseSound
  <2> QED
    BY <1>2, <1>3, <2>1, <2>2, <2>3 DEF ResponseSound, Asked, Registered
<1>10. AnswersFresh(s)'
  BY <1>2, <1>3, <1>5 DEF AnswersFresh, Life
<1>12. FailureSound(s)'
  <2>1. ASSUME NEW k \in Asked(s), k \notin Elems(f.todo)
        PROVE  f.anyFail \/ \E o \in f.outcomes : o.key = k
    <3>1. CASE k = Question(s)
      BY <1>11, <3>1
    <3>2. CASE k # Question(s)
      BY <2>1, <3>2, <1>2, <1>4, <1>5, <1>11 DEF FailureSound
    <3> QED
      BY <3>1, <3>2
  <2>2. f.pc = "done" => f.todo = <<>>
    BY <1>2
  <2> QED
    BY <1>2, <1>3, <1>11, <2>1, <2>2 DEF FailureSound, Asked
<1> QED
  BY <1>2, <1>8, <1>9, <1>10, <1>12, OneRequest DEF SlotInv, f

-----------------------------------------------------------------------------
(* The actions.                                                            *)

\* answer_query returns an answer.
LEMMA AnsweredKeeps ==
  ASSUME IInv, NEW s \in Slots, req[s].pc \in Busy,
         NEW kind \in Kinds, NEW addr \in Addrs \union {NoAddr},
         NEW ttl \in Nat, NEW asOf \in Nat,
         Answered(s, kind, addr, ttl, asOf),
         UNCHANGED <<selfUpstream, zone, now, registry, replaced, seen>>,
         cache' \in [Keys -> Entry \union {NoEntry}], CacheSound',
         Question(s)[2] = "A" /\ Registered(s, Question(s)[1])
           => kind = "records" /\ addr \in seen[s][Question(s)[1]],
         now - asOf <= Life(kind, ttl) + QueryTimeout,
         kind = "nxdomain" /\ Question(s)[2] \in {"A", "AAAA"}
           => ~Registered(s, Question(s)[1])
  PROVE  IInv'
<1> DEFINE o == [key |-> Question(s), kind |-> kind, addr |-> addr, ttl |-> ttl,
                 age |-> now - asOf]
           c == IF kind = "nxdomain" THEN "NXDomain" ELSE req[s].rcode
           r == [req[s] EXCEPT !.todo = Tail(@), !.outcomes = @ \union {o},
                               !.rcode = c]
<1>1. /\ req[s] \in Request /\ req[s].todo # <<>> /\ req[s].todo \in Seq(Keys)
      /\ Question(s) \in Keys /\ now \in Nat
  BY BusyFacts
<1>2. req' = [req EXCEPT ![s] = Finished(r)]
  BY DEF Answered, Set
<1>3. o \in Outcome /\ c \in Rcodes
  BY <1>1 DEF Outcome, Request, Rcodes
<1>4. /\ o.key = Question(s) /\ o.kind = kind /\ o.addr = addr
      /\ o.ttl = ttl /\ o.age = now - asOf
  OBVIOUS
<1>5. c = req[s].rcode \/ kind = "nxdomain"
  OBVIOUS
<1> HIDE DEF o, c
<1>6. Tail(req[s].todo) \in Seq(Keys)
  BY <1>1, QuestionFacts
<1>7. /\ r \in Request /\ r.asked = req[s].asked /\ r.todo = Tail(req[s].todo)
      /\ r.outcomes = req[s].outcomes \union {o} /\ r.rcode = c
      /\ r.anyFail = req[s].anyFail
  BY <1>1, <1>3, <1>6 DEF Request
<1> HIDE DEF r
<1>8. \/ r.rcode = req[s].rcode
      \/ \E x \in r.outcomes :
           /\ x.kind = "nxdomain"
           /\ x.key[2] \in {"A", "AAAA"} => ~Registered(s, x.key[1])
  BY <1>4, <1>5, <1>7
<1> QED
  BY <1>2, <1>4, <1>7, <1>8, NextQuestion

\* answer_query returns an error: the question is given up.
LEMMA FailedKeeps ==
  ASSUME IInv, NEW s \in Slots, req[s].pc \in Busy, Failed(s),
         UNCHANGED <<selfUpstream, zone, now, registry, replaced, cache, seen>>,
         Question(s)[2] = "A" => ~Registered(s, Question(s)[1])
  PROVE  IInv'
<1> DEFINE r == [req[s] EXCEPT !.todo = Tail(@), !.anyFail = TRUE]
<1>1. req[s] \in Request /\ req[s].todo # <<>> /\ req[s].todo \in Seq(Keys)
  BY BusyFacts
<1>2. req' = [req EXCEPT ![s] = Finished(r)]
  BY DEF Failed, Set
<1>3. Tail(req[s].todo) \in Seq(Keys)
  BY <1>1, QuestionFacts
<1>4. /\ r \in Request /\ r.asked = req[s].asked /\ r.todo = Tail(req[s].todo)
      /\ r.outcomes = req[s].outcomes /\ r.rcode = req[s].rcode
      /\ r.anyFail = TRUE
  BY <1>1, <1>3 DEF Request
<1> HIDE DEF r
<1> QED
  BY <1>2, <1>4, CacheKept, NextQuestion

\* A request is refused as a whole, or its first question is next
\* (check_upstream).
LEMMA CheckKeeps ==
  ASSUME IInv, NEW s \in Slots, check_upstream(s)
  PROVE  IInv'
<1> DEFINE asks == {req[s].asked[i][1] : i \in DOMAIN req[s].asked}
<1>1. /\ req[s].pc = "check"
      /\ UNCHANGED <<selfUpstream, zone, now, registry, replaced, cache, seen>>
  BY DEF check_upstream
<1>2. req[s] \in Request /\ now \in Nat /\ now <= now + QueryTimeout
  BY ConstantsAssumption DEF IInv, TypeOK
<1>3. RequestSound(s) /\ ResponseSound(s) /\ AnswersFresh(s) /\ FailureSound(s)
  BY DEF IInv, SlotInv
<1>4. /\ \A n \in Names : registry[n] \in seen[s][n]
      /\ Elems(req[s].todo) \subseteq Asked(s)
      /\ req[s].todo = req[s].asked
  BY <1>1, <1>3 DEF RequestSound
<1>5. CASE selfUpstream /\ \E n \in asks : ~contains(n)
  <2> DEFINE r == [req[s] EXCEPT !.pc = "done", !.rcode = "ServFail"]
  <2>1. req' = [req EXCEPT ![s] = r]
    BY <1>5 DEF check_upstream, Set
  <2>2. /\ r \in Request /\ r.pc = "done" /\ r.rcode = "ServFail"
        /\ r.asked = req[s].asked /\ r.todo = req[s].todo
        /\ r.outcomes = req[s].outcomes /\ r.anyFail = req[s].anyFail
    BY <1>2 DEF Request, Rcodes
  <2>3. req'[s] = r
    BY <2>1 DEF IInv, TypeOK
  <2> HIDE DEF r
  <2>4. RequestSound(s)'
    <3>1. selfUpstream'
      BY <1>1, <1>5
    <3>2. (/\ \A n \in Names : registry[n] \in seen[s][n]
           /\ Elems(req[s].todo) \subseteq Asked(s)
           /\ req[s].pc = "done")'
      BY <1>1, <1>4, <2>2, <2>3 DEF Asked
    <3> QED
      BY <3>1, <3>2 DEF RequestSound, Busy, Forwarding
  <2>5. ResponseSound(s)' /\ AnswersFresh(s)'
    BY <1>1, <1>3, <2>2, <2>3 DEF ResponseSound, AnswersFresh, Asked, Registered
  <2>6. FailureSound(s)'
    BY <1>3, <2>2, <2>3 DEF FailureSound, Asked
  <2> QED
    BY <1>1, <2>1, <2>2, <2>4, <2>5, <2>6, CacheKept, OneRequest DEF SlotInv
<1>6. CASE ~(selfUpstream /\ \E n \in asks : ~contains(n))
  <2> DEFINE f == Finished(req[s])
  <2>1. req' = [req EXCEPT ![s] = f]
    BY <1>6 DEF check_upstream, Set
  <2>2. /\ f \in Request /\ f.asked = req[s].asked /\ f.todo = req[s].todo
        /\ f.outcomes = req[s].outcomes /\ f.rcode \in {req[s].rcode, "ServFail"}
        /\ f.todo = <<>> /\ f.anyFail =>
             f.rcode = "ServFail" \/ \E o \in f.outcomes : o.kind = "records"
        /\ f.todo # <<>> => f.pc = "answer" /\ f.start = now
        /\ f.todo = <<>> => f.pc = "done"
    BY <1>2, FinishedFacts
  <2>3. req'[s] = f
    BY <2>1 DEF IInv, TypeOK
  <2> HIDE DEF f
  <2>4. ASSUME selfUpstream, NEW k \in Asked(s)
        PROVE  seen[s][k[1]] \intersect Addrs # {}
    <3>1. k[1] \in asks
      BY <2>4 DEF Asked, Elems
    <3>2. k[1] \in Names
      BY <1>2, <2>4, ElemsAreKeys, KeyFacts DEF Asked, Request
    <3>3. registry[k[1]] # NoAddr /\ registry[k[1]] \in Addrs \union {NoAddr}
      BY <1>6, <2>4, <3>1, <3>2 DEF contains, IInv, TypeOK
    <3> QED
      BY <1>4, <3>2, <3>3
  <2>5. RequestSound(s)'
    <3>1. Asked(s)' = Asked(s)
      BY <2>2, <2>3 DEF Asked
    <3>2. (selfUpstream => \A k \in Asked(s) : seen[s][k[1]] \intersect Addrs # {})'
      BY <1>1, <2>4, <3>1
    <3>3. (/\ \A n \in Names : registry[n] \in seen[s][n]
           /\ Elems(req[s].todo) \subseteq Asked(s)
           /\ req[s].pc # "check" /\ req[s].pc # "arrived"
           /\ req[s].pc \notin Forwarding
           /\ req[s].pc = "done" => req[s].todo = <<>>
           /\ req[s].pc \in Busy => /\ req[s].todo # <<>>
                                    /\ req[s].start <= now
                                    /\ now <= req[s].start + QueryTimeout)'
      BY <1>1, <1>2, <1>4, <2>2, <2>3, <3>1 DEF Forwarding, Busy
    <3> QED
      BY <3>2, <3>3 DEF RequestSound
  <2>6. ResponseSound(s)' /\ AnswersFresh(s)'
    BY <1>1, <1>3, <2>2, <2>3 DEF ResponseSound, AnswersFresh, Asked, Registered
  <2>7. FailureSound(s)'
    BY <1>4, <2>2, <2>3 DEF FailureSound, Asked
  <2> QED
    BY <1>1, <2>1, <2>2, <2>5, <2>6, <2>7, CacheKept, OneRequest DEF SlotInv
<1> QED
  BY <1>5, <1>6

\* pc moves on, the reply stays.
LEMMA PcOnly ==
  ASSUME IInv, NEW s \in Slots, NEW p \in Busy
  PROVE  /\ [req[s] EXCEPT !.pc = p]
              = [req[s] EXCEPT !.pc = p, !.reply = req[s].reply]
         /\ req[s].reply \in Reply \union {NoEntry}
<1>1. req[s] \in Request
  BY DEF IInv, TypeOK
<1> QED
  BY <1>1 DEF Request

\* A question is for the registry or for upstream (answer_query).
LEMMA AnswerKeeps ==
  ASSUME IInv, NEW s \in Slots, answer_query(s)
  PROVE  IInv'
<1> DEFINE k == Question(s)
<1>1. /\ req[s].pc = "answer"
      /\ UNCHANGED <<selfUpstream, zone, now, registry, replaced, cache, seen>>
  BY DEF answer_query
<1>2. req[s].pc \in Busy /\ "lookup_a" \in Busy /\ "forward" \in Busy
  BY <1>1 DEF Busy
<1>3. k[1] \in Names /\ registry[k[1]] \in seen[s][k[1]] /\ now \in Nat
  BY <1>2, BusyFacts
<1>4. CASE Set(s, [req[s] EXCEPT !.pc = "lookup_a"])
  <2>1. "lookup_a" \notin Forwarding
    BY DEF Forwarding
  <2> QED
    BY <1>1, <1>2, <1>4, <2>1, PcOnly, CacheKept, SameQuestion DEF Set
<1>5. CASE contains(k[1]) /\ k[2] = "AAAA" /\ Answered(s, "nodata", NoAddr, 0, now)
  <2>1. now - now <= Life("nodata", 0) + QueryTimeout
    BY <1>3, LifeType, ConstantsAssumption
  <2> QED
    BY <1>1, <1>2, <1>3, <1>5, <2>1, CacheKept, AnsweredKeeps DEF Kinds
<1>6. CASE /\ ~contains(k[1]) \/ k[2] \notin {"A", "AAAA"}
           /\ Set(s, [req[s] EXCEPT !.pc = "forward"])
  <2>1. k[2] \in {"A", "AAAA"} => ~Registered(s, k[1])
    BY <1>3, <1>6 DEF contains, Registered
  <2> QED
    BY <1>1, <1>2, <1>6, <2>1, PcOnly, CacheKept, SameQuestion DEF Set
<1> QED
  BY <1>4, <1>5, <1>6 DEF answer_query

\* The registry is read again for the address, which may be gone by then.
LEMMA LookupAKeeps ==
  ASSUME IInv, NEW s \in Slots, lookup_a(s)
  PROVE  IInv'
<1> DEFINE k == Question(s)
           addr == registry[k[1]]
<1>1. /\ req[s].pc = "lookup_a"
      /\ UNCHANGED <<selfUpstream, zone, now, registry, replaced, cache, seen>>
  BY DEF lookup_a
<1>2. req[s].pc \in Busy
  BY <1>1 DEF Busy
<1>3. k[1] \in Names /\ addr \in seen[s][k[1]] /\ now \in Nat
  BY <1>2, BusyFacts
<1>4. CASE addr = NoAddr
  <2>1. ~Registered(s, k[1]) /\ Failed(s)
    BY <1>3, <1>4 DEF Registered, lookup_a
  <2> QED
    BY <1>1, <1>2, <2>1, FailedKeeps
<1>5. CASE addr # NoAddr
  <2>1. Answered(s, "records", addr, ServiceTtl, now)
    BY <1>5 DEF lookup_a
  <2>2. addr \in Addrs \union {NoAddr} /\ ServiceTtl \in Nat
    BY <1>3, ConstantsAssumption DEF IInv, TypeOK
  <2>3. now - now <= Life("records", ServiceTtl) + QueryTimeout
    BY <1>3, <2>2, LifeType, ConstantsAssumption
  <2> QED
    BY <1>1, <1>2, <1>3, <2>1, <2>2, <2>3, CacheKept, AnsweredKeeps DEF Kinds
<1> QED
  BY <1>4, <1>5

\* A question that is being forwarded: an address only of a name that was
\* missing at some time.
LEMMA ForwardingFacts ==
  ASSUME IInv, NEW s \in Slots, req[s].pc \in Forwarding
  PROVE  /\ req[s].pc \in Busy
         /\ Question(s)[2] \in {"A", "AAAA"} => ~Registered(s, Question(s)[1])
<1>1. RequestSound(s)
  BY DEF IInv, SlotInv
<1> QED
  BY <1>1 DEF RequestSound, Forwarding, Busy

\* A cached answer is used only while it lasts (cache_get).
LEMMA CacheGetKeeps ==
  ASSUME IInv, NEW s \in Slots, cache_get(s)
  PROVE  IInv'
<1> DEFINE k == Question(s)
           hit == cache[k]
<1>1. /\ req[s].pc = "forward"
      /\ UNCHANGED <<selfUpstream, zone, now, registry, replaced, seen>>
  BY DEF cache_get
<1>2. req[s].pc \in Forwarding /\ "lookup" \in Busy /\ "lookup" # "arrived"
  BY <1>1 DEF Forwarding, Busy
<1>3. /\ req[s].pc \in Busy
      /\ k[2] \in {"A", "AAAA"} => ~Registered(s, k[1])
      /\ k \in Keys /\ now \in Nat
  BY <1>2, ForwardingFacts, BusyFacts
<1>4. CASE /\ ~Expired(hit)
           /\ Answered(s, hit.kind, NoAddr, hit.ttl, hit.asOf)
           /\ UNCHANGED cache
  <2>1. hit # NoEntry /\ ~(now >= hit.expires)
    BY <1>4 DEF Expired
  <2>2. hit \in Entry
    BY <1>3, <2>1 DEF IInv, TypeOK
  <2>3. /\ hit.kind \in Kinds /\ hit.ttl \in Nat /\ hit.asOf \in Nat
        /\ hit.expires \in Nat
    BY <2>2, ConstantsAssumption DEF Entry
  <2>4. hit.expires <= hit.asOf + Life(hit.kind, hit.ttl) + QueryTimeout
    BY <1>3, <2>1 DEF IInv, CacheSound
  <2>5. Life(hit.kind, hit.ttl) \in Nat
    BY <2>3, LifeType
  <2>6. now - hit.asOf <= Life(hit.kind, hit.ttl) + QueryTimeout
    <3>1. \A end, from, life, wait, t \in Nat :
            ~(t >= end) /\ end <= from + life + wait => t - from <= life + wait
      OBVIOUS
    <3>2. QueryTimeout \in Nat
      BY ConstantsAssumption
    <3> HIDE DEF hit, k
    <3> QED
      BY <1>3, <2>1, <2>3, <2>4, <2>5, <3>1, <3>2
  <2> HIDE DEF hit
  <2> QED
    BY <1>1, <1>3, <1>4, <2>3, <2>6, CacheKept, AnsweredKeeps
<1>5. CASE /\ cache' = [cache EXCEPT ![k] = NoEntry]
           /\ Set(s, [req[s] EXCEPT !.pc = "lookup"])
  <2>1. cache' \in [Keys -> Entry \union {NoEntry}] /\ CacheSound'
    BY <1>1, <1>3, <1>5 DEF IInv, TypeOK, CacheSound
  <2>2. /\ [req[s] EXCEPT !.pc = "lookup"]
             = [req[s] EXCEPT !.pc = "lookup", !.reply = req[s].reply]
        /\ req[s].reply \in Reply \union {NoEntry}
    BY <1>2, PcOnly
  <2>3. req' = [req EXCEPT ![s] = [req[s] EXCEPT !.pc = "lookup",
                                                 !.reply = req[s].reply]]
    BY <1>5, <2>2 DEF Set
  <2> QED
    BY <1>1, <1>2, <1>3, <2>1, <2>2, <2>3, SameQuestion
<1> QED
  BY <1>4, <1>5 DEF cache_get

\* Upstream's reply is as of now.
LEMMA UpstreamKeeps ==
  ASSUME IInv, NEW s \in Slots, NEW kind \in Replies, NEW ttl \in Ttls,
         UpstreamAnswers(s, kind, ttl)
  PROVE  IInv'
<1> DEFINE rep == [kind |-> kind, ttl |-> ttl, asOf |-> now]
<1>1. /\ req[s].pc = "lookup"
      /\ req' = [req EXCEPT ![s] = [req[s] EXCEPT !.pc = "arrived", !.reply = rep]]
      /\ UNCHANGED <<selfUpstream, zone, now, registry, replaced, cache, seen>>
  BY DEF UpstreamAnswers, Set
<1>2. req[s].pc \in Forwarding /\ "arrived" \in Busy
  BY <1>1 DEF Forwarding, Busy
<1>3. /\ req[s].pc \in Busy
      /\ Question(s)[2] \in {"A", "AAAA"} => ~Registered(s, Question(s)[1])
  BY <1>2, ForwardingFacts
<1>4. /\ Question(s) \in Keys /\ now \in Nat
      /\ req[s].start \in Nat /\ req[s].start <= now
  BY <1>3, BusyFacts
<1>5. /\ rep \in Reply /\ rep.kind \in {zone[Question(s)], "error"}
      /\ rep.asOf \in req[s].start..now
  BY <1>4, ConstantsAssumption DEF Reply, UpstreamAnswers
<1> HIDE DEF rep
<1> QED
  BY <1>1, <1>2, <1>3, <1>5, CacheKept, SameQuestion

\* The answer is given, and cached with its capped lifetime.
LEMMA LookupReturnsKeeps ==
  ASSUME IInv, NEW s \in Slots, lookup_returns(s)
  PROVE  IInv'
<1> DEFINE k == Question(s)
           r == req[s].reply
           kind == IF r.kind = "records" THEN "records" ELSE "nxdomain"
<1>1. /\ req[s].pc = "arrived"
      /\ Put(k, kind, r.ttl, r.asOf)
      /\ Answered(s, kind, NoAddr, r.ttl, r.asOf)
      /\ UNCHANGED <<selfUpstream, zone, now, registry, replaced, seen>>
  BY DEF lookup_returns
<1>2. req[s].pc \in Forwarding
  BY <1>1 DEF Forwarding
<1>3. /\ req[s].pc \in Busy
      /\ k[2] \in {"A", "AAAA"} => ~Registered(s, k[1])
  BY <1>2, ForwardingFacts
<1>4. /\ k \in Keys /\ now \in Nat /\ req[s].start \in Nat
      /\ now <= req[s].start + QueryTimeout
  BY <1>3, BusyFacts
<1>5. /\ r \in Reply /\ r.kind \in {zone[k], "error"}
      /\ r.asOf \in req[s].start..now
  <2>1. RequestSound(s)
    BY DEF IInv, SlotInv
  <2> QED
    BY <1>1, <2>1 DEF RequestSound
<1>6. r.ttl \in Ttls /\ r.ttl \in Nat /\ r.asOf \in Nat
  BY <1>5, ConstantsAssumption DEF Reply
<1>7. /\ kind \in Kinds /\ kind \in {"records", "nxdomain"}
      /\ kind = "records" => zone[k] = "records"
  BY <1>5 DEF Kinds
<1> HIDE DEF kind, r
<1>9. Life(kind, r.ttl) \in Nat
  BY <1>6, LifeType
<1>10. /\ now + Life(kind, r.ttl) <= r.asOf + Life(kind, r.ttl) + QueryTimeout
       /\ now - r.asOf <= Life(kind, r.ttl) + QueryTimeout
       /\ now + Life(kind, r.ttl) \in Nat
  <2> DEFINE life == Life(kind, r.ttl)
             asOf == r.asOf
             start == req[s].start
  <2>1. /\ now \in Nat /\ life \in Nat /\ asOf \in Nat /\ start \in Nat
        /\ now <= start + QueryTimeout /\ start <= asOf
    BY <1>4, <1>5, <1>6, <1>9
  <2>2. QueryTimeout \in Nat
    BY ConstantsAssumption
  <2> HIDE DEF life, asOf, start
  <2>3. /\ now + life <= asOf + life + QueryTimeout
        /\ now - asOf <= life + QueryTimeout
        /\ now + life \in Nat
    BY <2>1, <2>2
  <2> QED
    BY <2>3 DEF life, asOf
<1>11. cache' \in [Keys -> Entry \union {NoEntry}] /\ CacheSound'
  <2> DEFINE e == [kind |-> kind, ttl |-> r.ttl, asOf |-> r.asOf,
                   expires |-> now + Life(kind, r.ttl)]
  <2>1. CASE UNCHANGED cache
    BY <1>1, <2>1, CacheKept
  <2>2. CASE cache' = [cache EXCEPT ![k] = e]
    <3>1. e \in Entry
      BY <1>6, <1>7, <1>10 DEF Entry
    <3>2. e.kind = kind /\ e.ttl = r.ttl /\ e.asOf = r.asOf
          /\ e.expires = now + Life(kind, r.ttl)
      OBVIOUS
    <3> HIDE DEF e
    <3>3. cache' \in [Keys -> Entry \union {NoEntry}]
      BY <1>4, <2>2, <3>1 DEF IInv, TypeOK
    <3>4. ASSUME NEW j \in Keys, cache'[j] # NoEntry
          PROVE  /\ cache'[j].kind \in {"records", "nxdomain"}
                 /\ cache'[j].kind = "records" => zone[j] = "records"
                 /\ cache'[j].expires
                      <= cache'[j].asOf + Life(cache'[j].kind, cache'[j].ttl)
                           + QueryTimeout
      <4>1. CASE j = k
        <5>1. cache'[j] = e
          BY <4>1, <1>4, <2>2 DEF IInv, TypeOK
        <5> QED
          BY <4>1, <5>1, <3>2, <1>7, <1>10
      <4>2. CASE j # k
        <5>1. cache'[j] = cache[j]
          BY <4>2, <1>4, <2>2 DEF IInv, TypeOK
        <5> QED
          BY <5>1, <3>4 DEF IInv, CacheSound
      <4> QED
        BY <4>1, <4>2
    <3> QED
      BY <1>1, <3>3, <3>4 DEF CacheSound, Life
  <2> QED
    BY <1>1, <2>1, <2>2 DEF Put
<1>12. k[2] = "A" => ~Registered(s, k[1])
  BY <1>3
<1> HIDE DEF k
<1> QED
  BY <1>1, <1>3, <1>6, <1>7, <1>10, <1>11, <1>12, AnsweredKeeps DEF k

\* A lookup that fails or takes too long is answered as a failure.
LEMMA GiveUpKeeps ==
  ASSUME IInv, NEW s \in Slots, lookup_fails(s) \/ query_timeout(s)
  PROVE  IInv'
<1>1. /\ req[s].pc \in Forwarding
      /\ Failed(s)
      /\ UNCHANGED <<selfUpstream, zone, now, registry, replaced, cache, seen>>
  BY DEF lookup_fails, query_timeout, Forwarding
<1> QED
  BY <1>1, ForwardingFacts, FailedKeeps

\* An idle slot has nothing to answer for.
LEMMA IdleFacts ==
  /\ IdleReq \in Request
  /\ IdleReq.pc = "idle" /\ IdleReq.todo = <<>> /\ IdleReq.asked = <<>>
  /\ IdleReq.outcomes = {} /\ IdleReq.rcode = "NoError"
  /\ Elems(<<>>) = {}
BY DEF IdleReq, Request, Rcodes, Elems

\* A request that is received: nothing is answered, everything is to do.
LEMMA ReceiveKeeps ==
  ASSUME IInv, NEW s \in Slots, NEW questions \in Requests,
         receive(s, questions)
  PROVE  IInv'
<1> DEFINE r == [IdleReq EXCEPT !.pc = "check", !.asked = questions,
                                !.todo = questions]
<1>1. /\ req' = [req EXCEPT ![s] = r]
      /\ seen' = [seen EXCEPT ![s] = [n \in Names |-> {registry[n]}]]
      /\ UNCHANGED <<selfUpstream, zone, now, registry, replaced, cache>>
  BY DEF receive, Set
<1>2. /\ r.pc = "check" /\ r.asked = questions /\ r.todo = questions
      /\ r.outcomes = {} /\ r.rcode = "NoError"
  BY DEF IdleReq
<1>3. r \in Request
  <2>1. questions \in Seq(Keys)
    BY ConstantsAssumption
  <2> QED
    BY <2>1, IdleFacts DEF Request
<1> HIDE DEF r
<1>4. TypeOK'
  BY <1>1, <1>3 DEF IInv, TypeOK
<1>5. CacheSound'
  BY <1>1, CacheKept
<1>6. ASSUME NEW t \in Slots
      PROVE  SlotInv(t)'
  <2>1. CASE t = s
    <3>1. req'[t] = r /\ \A n \in Names : seen'[t][n] = {registry[n]}
      BY <1>1, <2>1 DEF IInv, TypeOK
    <3>2. RequestSound(t)'
      BY <1>1, <1>2, <3>1 DEF RequestSound, Asked, Busy, Forwarding
    <3>3. ResponseSound(t)' /\ AnswersFresh(t)' /\ FailureSound(t)'
      BY <1>2, <3>1 DEF ResponseSound, AnswersFresh, FailureSound, Asked
    <3> QED
      BY <3>2, <3>3 DEF SlotInv
  <2>2. CASE t # s
    <3>1. req'[t] = req[t] /\ seen'[t] = seen[t]
      BY <1>1, <2>2 DEF IInv, TypeOK
    <3> QED
      BY <1>1, <3>1, OtherSlot
  <2> QED
    BY <2>1, <2>2
<1> QED
  BY <1>4, <1>5, <1>6 DEF IInv

\* The response is sent and the request is over.
LEMMA SendKeeps ==
  ASSUME IInv, NEW s \in Slots, send(s)
  PROVE  IInv'
<1>1. /\ req' = [req EXCEPT ![s] = IdleReq]
      /\ seen' = [seen EXCEPT ![s] = [n \in Names |-> {}]]
      /\ UNCHANGED <<selfUpstream, zone, now, registry, replaced, cache>>
  BY DEF send, Set
<1>2. TypeOK'
  BY <1>1, IdleFacts DEF IInv, TypeOK
<1>3. CacheSound'
  BY <1>1, CacheKept
<1>4. ASSUME NEW t \in Slots
      PROVE  SlotInv(t)'
  <2>1. CASE t = s
    <3>1. req'[t] = IdleReq
      BY <1>1, <2>1 DEF IInv, TypeOK
    <3>2. RequestSound(t)'
      BY <3>1, IdleFacts DEF RequestSound, Asked, Busy, Forwarding
    <3>3. ResponseSound(t)' /\ AnswersFresh(t)' /\ FailureSound(t)'
      BY <3>1, IdleFacts DEF ResponseSound, AnswersFresh, FailureSound, Asked
    <3> QED
      BY <3>2, <3>3 DEF SlotInv
  <2>2. CASE t # s
    <3>1. req'[t] = req[t] /\ seen'[t] = seen[t]
      BY <1>1, <2>2 DEF IInv, TypeOK
    <3> QED
      BY <1>1, <3>1, OtherSlot
  <2> QED
    BY <2>1, <2>2
<1> QED
  BY <1>2, <1>3, <1>4 DEF IInv

\* The registry is replaced under the requests in flight: what they saw only
\* grows.
LEMMA ReplaceKeeps ==
  ASSUME IInv, NEW routes \in [Names -> Addrs \union {NoAddr}],
         replace(routes)
  PROVE  IInv'
<1>1. /\ replaced < MaxReplace /\ replaced' = replaced + 1
      /\ registry' = routes
      /\ seen' = [s \in Slots |->
                    IF req[s].pc = "idle" THEN seen[s]
                    ELSE [n \in Names |-> seen[s][n] \union {routes[n]}]]
      /\ UNCHANGED <<selfUpstream, zone, now, cache, req>>
  BY DEF replace
<1>2. TypeOK'
  <2>1. replaced' \in 0..MaxReplace
    BY <1>1, ConstantsAssumption DEF IInv, TypeOK
  <2>2. ASSUME NEW s \in Slots
        PROVE  seen'[s] \in [Names -> SUBSET (Addrs \union {NoAddr})]
    BY <1>1 DEF IInv, TypeOK
  <2> QED
    BY <1>1, <2>1, <2>2 DEF IInv, TypeOK
<1>3. CacheSound'
  BY <1>1, CacheKept
<1>4. ASSUME NEW s \in Slots
      PROVE  SlotInv(s)'
  <2>1. /\ RequestSound(s) /\ ResponseSound(s)
        /\ AnswersFresh(s) /\ FailureSound(s)
    BY DEF IInv, SlotInv
  <2>2. req'[s] = req[s] /\ req[s] \in Request
    BY <1>1 DEF IInv, TypeOK
  <2>3. Elems(req[s].asked) \subseteq Keys /\ Elems(req[s].todo) \subseteq Keys
    BY <2>2, ElemsAreKeys DEF Request
  <2>4. \A n \in Names : seen[s][n] \subseteq seen'[s][n]
    BY <1>1
  <2>5. req[s].pc # "idle" => \A n \in Names : registry'[n] \in seen'[s][n]
    BY <1>1
  <2>6. RequestSound(s)'
    <3>1. ASSUME req[s].pc \in Forwarding, Question(s)[2] \in {"A", "AAAA"}
          PROVE  NoAddr \in seen'[s][Question(s)[1]]
      <4>1. req[s].pc \in Busy
        BY <3>1, ForwardingFacts
      <4>2. Question(s)[1] \in Names
        BY <4>1, BusyFacts
      <4> QED
        BY <2>4, <3>1, <4>2, ForwardingFacts DEF Registered
    <3>2. ASSUME req[s].pc \in Busy, selfUpstream, NEW k \in Asked(s)
          PROVE  seen'[s][k[1]] \intersect Addrs # {}
      <4>1. k[1] \in Names
        BY <2>3, KeyFacts DEF Asked
      <4> QED
        BY <2>1, <2>4, <3>2, <4>1 DEF RequestSound
    <3>3. Asked(s)' = Asked(s) /\ Question(s)' = Question(s)
      BY <2>2 DEF Asked, Question
    <3> QED
      BY <1>1, <2>1, <2>2, <2>5, <3>1, <3>2, <3>3 DEF RequestSound, Registered
  <2>7. ResponseSound(s)'
    <3>1. ASSUME NEW k \in Keys, Registered(s, k[1])'
          PROVE  Registered(s, k[1])
      BY <2>4, <3>1, KeyFacts DEF Registered
    <3>2. \A o \in req[s].outcomes : o.key \in Keys
      BY <2>2 DEF Request, Outcome
    <3>3. Asked(s)' = Asked(s) /\ Asked(s) \subseteq Keys
      BY <2>2, <2>3 DEF Asked
    <3>4. ASSUME NEW k \in Asked(s) \ Elems(req[s].todo), k[2] = "A",
                 Registered(s, k[1])'
          PROVE  \E o \in req[s].outcomes : o.key = k
      BY <2>1, <3>1, <3>3, <3>4 DEF ResponseSound
    <3>5. ASSUME NEW o \in req[s].outcomes, o.key[2] = "A",
                 Registered(s, o.key[1])'
          PROVE  o.kind = "records" /\ o.addr \in seen'[s][o.key[1]]
      <4>1. o.key[1] \in Names /\ Registered(s, o.key[1])
        BY <3>1, <3>2, <3>5, KeyFacts
      <4> QED
        BY <2>1, <2>4, <3>5, <4>1 DEF ResponseSound
    <3>6. ASSUME req[s].rcode = "NXDomain"
          PROVE  \E o \in req[s].outcomes :
                    /\ o.kind = "nxdomain"
                    /\ o.key[2] \in {"A", "AAAA"} => ~Registered(s, o.key[1])'
      <4>1. PICK o \in req[s].outcomes :
               /\ o.kind = "nxdomain"
               /\ o.key[2] \in {"A", "AAAA"} => ~Registered(s, o.key[1])
        BY <2>1, <3>6 DEF ResponseSound
      <4> QED
        BY <3>1, <3>2, <4>1
    <3> QED
      BY <2>2, <3>3, <3>4, <3>5, <3>6 DEF ResponseSound, Registered
  <2>8. AnswersFresh(s)' /\ FailureSound(s)'
    BY <2>1, <2>2 DEF AnswersFresh, FailureSound, Asked
  <2> QED
    BY <2>6, <2>7, <2>8 DEF SlotInv
<1> QED
  BY <1>2, <1>3, <1>4 DEF IInv

\* The clock goes on only while every request that is busy waits within its
\* timeout.
LEMMA TickKeeps ==
  ASSUME IInv, Tick
  PROVE  IInv'
<1>1. /\ now < MaxTime /\ now' = now + 1 /\ now \in 0..MaxTime
      /\ UNCHANGED <<selfUpstream, zone, registry, replaced, cache, req, seen>>
  BY DEF Tick, IInv, TypeOK
<1>2. now' \in 0..MaxTime
  BY <1>1, ConstantsAssumption
<1>3. TypeOK'
  BY <1>1, <1>2 DEF IInv, TypeOK
<1>4. CacheSound'
  BY <1>1, CacheKept
<1>5. ASSUME NEW s \in Slots
      PROVE  SlotInv(s)'
  <2>1. /\ RequestSound(s) /\ ResponseSound(s)
        /\ AnswersFresh(s) /\ FailureSound(s)
    BY DEF IInv, SlotInv
  <2>2. ResponseSound(s)' /\ AnswersFresh(s)' /\ FailureSound(s)'
    BY <1>1, <2>1 DEF ResponseSound, AnswersFresh, FailureSound, Asked, Registered
  <2>3. req[s].start \in Nat /\ now \in Nat /\ QueryTimeout \in Nat
    <3>1. req[s] \in Request
      BY DEF IInv, TypeOK
    <3> QED
      BY <1>1, <3>1, ConstantsAssumption DEF Request
  <2>4. ASSUME req[s].pc \in Busy
        PROVE  req[s].start <= now' /\ now' <= req[s].start + QueryTimeout
    <3>1. now - req[s].start < QueryTimeout
      BY <2>4 DEF Tick, Busy
    <3>2. req[s].start <= now
      BY <2>1, <2>4 DEF RequestSound
    <3> QED
      BY <1>1, <2>3, <3>1, <3>2
  <2>5. ASSUME req[s].pc = "arrived"
        PROVE  req[s].reply.asOf \in req[s].start..now'
    <3>1. req[s].reply.asOf \in req[s].start..now
      BY <2>1, <2>5 DEF RequestSound
    <3> QED
      BY <1>1, <2>3, <3>1
  <2>6. RequestSound(s)'
    BY <1>1, <2>1, <2>4, <2>5 DEF RequestSound, Asked, Registered, Question
  <2> QED
    BY <2>2, <2>6 DEF SlotInv
<1> QED
  BY <1>3, <1>4, <1>5 DEF IInv

-----------------------------------------------------------------------------
(* The invariant.                                                          *)

\* A server that starts has no request and nothing cached.
LEMMA InitInv ==
  Init => IInv
<1> SUFFICES ASSUME Init PROVE IInv
  OBVIOUS
<1>1. TypeOK
  <2>1. /\ selfUpstream \in SelfUpstream /\ zone \in Zones
        /\ now \in 0..MaxTime /\ replaced \in 0..MaxReplace
    BY ConstantsAssumption DEF Init
  <2>2. registry \in [Names -> Addrs \union {NoAddr}]
    BY DEF Init
  <2>3. cache \in [Keys -> Entry \union {NoEntry}]
    BY DEF Init
  <2>4. req \in [Slots -> Request]
    BY IdleFacts DEF Init
  <2>5. seen \in [Slots -> [Names -> SUBSET (Addrs \union {NoAddr})]]
    BY DEF Init
  <2> QED
    BY <2>1, <2>2, <2>3, <2>4, <2>5 DEF TypeOK
<1>2. CacheSound
  BY DEF Init, CacheSound
<1>3. ASSUME NEW s \in Slots
      PROVE  SlotInv(s)
  <2>1. req[s] = IdleReq
    BY DEF Init
  <2> QED
    BY <2>1, IdleFacts
    DEF SlotInv, RequestSound, ResponseSound, AnswersFresh, FailureSound, Asked,
        Busy, Forwarding
<1> QED
  BY <1>1, <1>2, <1>3 DEF IInv

\* Every step of the server, of upstream and of the registry keeps IInv.
LEMMA StepInv ==
  IInv /\ [Next]_vars => IInv'
<1> SUFFICES ASSUME IInv, [Next]_vars PROVE IInv'
  OBVIOUS
<1>1. CASE UNCHANGED vars
  <2>1. UNCHANGED <<selfUpstream, zone, now, registry, replaced, cache, req, seen>>
    BY <1>1 DEF vars
  <2>2. TypeOK' /\ CacheSound'
    BY <2>1, CacheKept DEF IInv, TypeOK
  <2>3. ASSUME NEW s \in Slots
        PROVE  SlotInv(s)'
    BY <2>1, OtherSlot
  <2> QED
    BY <2>2, <2>3 DEF IInv
<1>2. ASSUME NEW s \in Slots, NEW questions \in Requests, receive(s, questions)
      PROVE  IInv'
  BY <1>2, ReceiveKeeps
<1>3. ASSUME NEW s \in Slots, ServerStep(s)
      PROVE  IInv'
  BY <1>3, CheckKeeps, AnswerKeeps, LookupAKeeps, CacheGetKeeps,
     LookupReturnsKeeps, GiveUpKeeps, SendKeeps DEF ServerStep
<1>4. ASSUME NEW s \in Slots, NEW kind \in Replies, NEW ttl \in Ttls,
             UpstreamAnswers(s, kind, ttl)
      PROVE  IInv'
  BY <1>4, UpstreamKeeps
<1>5. ASSUME NEW s \in Slots, lookup_fails(s)
      PROVE  IInv'
  BY <1>5, GiveUpKeeps
<1>6. ASSUME NEW routes \in [Names -> Addrs \union {NoAddr}], replace(routes)
      PROVE  IInv'
  BY <1>6, ReplaceKeeps
<1>7. CASE Tick
  BY <1>7, TickKeeps
<1> QED
  BY <1>1, <1>2, <1>3, <1>4, <1>5, <1>6, <1>7 DEF Next

-----------------------------------------------------------------------------
(* The theorems about the server.                                          *)

\* A name that is registered while its A question is handled gets an address
\* the registry had for it meanwhile, whatever the cache holds and however
\* often the registry is replaced between the reads of answer_query; the
\* requests and the cache are sound throughout (server.rs, handle_request).
THEOREM RegistryIsFirst == Spec => []DnsServerInv
<1>1. IInv => DnsServerInv
  <2> SUFFICES ASSUME IInv PROVE DnsServerInv
    OBVIOUS
  <2>1. ASSUME ~selfUpstream, NEW s \in Slots, Done(s), NEW k \in Asked(s),
               k[2] = "A", Registered(s, k[1])
        PROVE  /\ \E o \in req[s].outcomes : o.key = k
               /\ \A o \in req[s].outcomes :
                    o.key = k => o.kind = "records" /\ o.addr \in seen[s][k[1]]
    <3>1. RequestSound(s) /\ ResponseSound(s)
      BY DEF IInv, SlotInv
    <3>2. req[s].todo = <<>>
      BY <2>1, <3>1 DEF RequestSound, Done
    <3>3. k \in Asked(s) \ Elems(req[s].todo)
      BY <2>1, <3>2, IdleFacts
    <3> QED
      BY <2>1, <3>1, <3>3 DEF ResponseSound
  <2>2. RegistryComesFirst
    BY <2>1 DEF RegistryComesFirst
  <2> QED
    BY <2>2 DEF IInv, SlotInv, DnsServerInv
<1> QED
  BY <1>1, InitInv, StepInv, PTL DEF Spec

\* A question that came to nothing is owned up to, whatever the other
\* questions of the request were answered: without a record to give, the
\* response is SERVFAIL (server.rs, the end of handle_request).
THEOREM FailuresAreReported == Spec => []FailureIsServfail
<1>1. IInv => FailureIsServfail
  <2> SUFFICES ASSUME IInv, NEW s \in Slots, Done(s), req[s].rcode # "ServFail",
                      \A o \in req[s].outcomes : o.kind # "records",
                      NEW k \in Asked(s)
               PROVE  \E o \in req[s].outcomes : o.key = k
    BY DEF FailureIsServfail
  <2>1. FailureSound(s)
    BY DEF IInv, SlotInv
  <2>2. req[s].todo = <<>> /\ ~req[s].anyFail
    BY <2>1 DEF FailureSound, Done
  <2>3. k \in Asked(s) \ Elems(req[s].todo)
    BY <2>2, IdleFacts
  <2> QED
    BY <2>1, <2>2, <2>3 DEF FailureSound
<1> QED
  BY <1>1, InitInv, StepInv, PTL DEF Spec

\* What is said of upstream is at most one lifetime and one query timeout old
\* when it is said, for every TTL, cap and timeout, also when a slow lookup
\* overwrites the cache entry of a faster one (server.rs, ResponseCache).
THEOREM AnswersAreFresh == Spec => []UpstreamAnswersFresh
<1>1. IInv => UpstreamAnswersFresh
  BY DEF IInv, SlotInv, AnswersFresh, UpstreamAnswersFresh
<1> QED
  BY <1>1, InitInv, StepInv, PTL DEF Spec

\* A server that is its own upstream looks up only names that were in its
\* registry at some time during the request (server.rs, handle_request).
THEOREM UnregisteredDoNotLoop == Spec => []UnregisteredNotLooped
<1>1. IInv => UnregisteredNotLooped
  <2> SUFFICES ASSUME IInv, selfUpstream, NEW s \in Slots, req[s].pc = "lookup"
               PROVE  seen[s][Question(s)[1]] \intersect Addrs # {}
    BY DEF UnregisteredNotLooped
  <2>1. req[s].pc \in Busy
    BY DEF Busy
  <2>2. Question(s) \in Asked(s)
    BY <2>1, BusyFacts
  <2>3. RequestSound(s)
    BY DEF IInv, SlotInv
  <2> QED
    BY <2>1, <2>2, <2>3 DEF RequestSound
<1> QED
  BY <1>1, InitInv, StepInv, PTL DEF Spec

-----------------------------------------------------------------------------
(* The supervisor: SupervisorInv is inductive.                             *)

Faults ==
  [tcp : 0..MaxTcpErrors, udp : 0..MaxUdpErrors, foreign : 0..MaxForeign]

\* A supervisor that starts has no sockets.
LEMMA SupInitInv == SupInit => SupervisorInv
<1>1. SupInit => faults \in Faults
  BY SupAssumption DEF SupInit, Faults
<1> QED
  BY <1>1, Zenon
     DEF SupInit, SupervisorInv, SupTypeOK, PhaseSound, ServingIsReady, Faults

\* The counters stay within their bounds, and never fall.
LEMMA FaultsStep ==
  ASSUME SupervisorInv, [SupNext]_supVars
  PROVE  /\ faults' \in Faults
         /\ faults'.udp >= faults.udp
<1>1. faults \in Faults
  BY DEF SupervisorInv, SupTypeOK, Faults
<1>2. CASE serve_tcp_error
  BY <1>1, <1>2, SupAssumption DEF serve_tcp_error, Faults
<1>3. CASE serve_udp_error
  BY <1>1, <1>3, SupAssumption DEF serve_udp_error, Faults
<1>4. ASSUME NEW p \in {"udp", "tcp"}, ForeignBind(p)
      PROVE  faults' \in Faults /\ faults'.udp = faults.udp
  BY <1>1, <1>4, SupAssumption DEF ForeignBind, Faults
<1>5. CASE UNCHANGED faults
  BY <1>1, <1>5, SupAssumption DEF Faults
<1>6. faults'.udp = faults.udp => faults'.udp >= faults.udp
  BY <1>1, SupAssumption DEF Faults
<1> QED
  BY <1>2, <1>3, <1>4, <1>5, <1>6
     DEF SupNext, Supervise, new, bind_udp, bind_tcp, sleep_backoff, udp_drained,
         ForeignClose, supVars

\* Every step of the supervisor, its sockets and other processes keeps it.
LEMMA SupStepInv == SupervisorInv /\ [SupNext]_supVars => SupervisorInv'
<1> SUFFICES ASSUME SupervisorInv, [SupNext]_supVars
             PROVE  SupervisorInv'
  OBVIOUS
<1> USE DEF SupervisorInv, SupTypeOK, PhaseSound, ServingIsReady
<1>1. faults \in Faults /\ faults' \in Faults /\ faults'.udp >= faults.udp
  BY FaultsStep DEF Faults
<1>2. faults.udp > 0 => faults'.udp > 0
  BY <1>1, SupAssumption DEF Faults
<1> USE <1>1, <1>2 DEF Faults
<1>3. CASE new
  BY <1>3, Zenon DEF new
<1>4. CASE bind_udp
  BY <1>4, Zenon DEF bind_udp, Exited
<1>5. CASE bind_tcp
  <2>1. CASE "tcp" \notin foreign
    <3>1. dnsUp' /\ tcp' /\ sup' = "serving" /\ udp' = "serving"
      BY <1>5, <2>1, Zenon DEF bind_tcp
    <3> QED
      BY <1>5, <3>1, Zenon DEF bind_tcp
  <2>2. CASE "tcp" \in foreign
    <3>1. dnsUp' = FALSE /\ tcp' = FALSE /\ sup' = "backoff" /\ udp' = "closed"
      BY <1>5, <2>2, Zenon DEF bind_tcp, Exited
    <3> QED
      BY <1>5, <3>1, Zenon DEF bind_tcp
  <2> QED
    BY <2>1, <2>2
<1>6. CASE sleep_backoff
  BY <1>6, Zenon DEF sleep_backoff
<1>7. CASE serve_tcp_error
  BY <1>7, Zenon DEF serve_tcp_error, Exited
<1>8. CASE serve_udp_error
  <2>1. faults'.udp > 0
    BY <1>8, SupAssumption DEF serve_udp_error
  <2> QED
    BY <1>8, <2>1, Zenon DEF serve_udp_error
<1>9. CASE udp_drained
  BY <1>9, Zenon DEF udp_drained
<1>10. ASSUME NEW p \in {"udp", "tcp"}, ForeignBind(p) \/ ForeignClose(p)
       PROVE  SupervisorInv'
  <2>1. foreign' \subseteq {"udp", "tcp"}
    BY <1>10 DEF ForeignBind, ForeignClose
  <2>2. UNCHANGED <<sup, dnsUp, udp, tcp>>
    BY <1>10 DEF ForeignBind, ForeignClose
  <2> QED
    BY <2>1, <2>2, Zenon
<1>11. CASE UNCHANGED supVars
  BY <1>11, Zenon DEF supVars
<1> QED
  BY <1>3, <1>4, <1>5, <1>6, <1>7, <1>8, <1>9, <1>10, <1>11
     DEF SupNext, Supervise

-----------------------------------------------------------------------------
(* The theorems about the supervisor.                                      *)

\* In every state dns_up is up while run() serves TCP, and both protocols are
\* then served unless recv_from has failed (main.rs, DNS supervisor).
THEOREM ReadinessIsSound == SupSpec => []SupervisorInv
BY SupInitInv, SupStepInv, PTL DEF SupSpec

\* No error of accept or of bind, and no other process on the port, ends a
\* UDP task: only an error of recv_from does (serve_udp is spawned and detached).
THEOREM UdpSurvives == SupSpec => UdpOutlivesTcp
<1>1. SupervisorInv /\ [SupNext]_supVars =>
        [udp = "serving" /\ udp' # "serving" => faults'.udp > faults.udp]_supVars
  <2> SUFFICES ASSUME SupervisorInv, SupNext, udp = "serving", udp' # "serving"
               PROVE  faults'.udp > faults.udp
    BY DEF supVars
  <2>1. serve_udp_error
    BY DEF SupNext, Supervise, new, bind_udp, bind_tcp, sleep_backoff, Exited,
           serve_tcp_error, udp_drained, ForeignBind, ForeignClose,
           SupervisorInv, PhaseSound
  <2> QED
    BY <2>1, SupAssumption DEF serve_udp_error, SupervisorInv, SupTypeOK
<1> QED
  BY <1>1, SupInitInv, SupStepInv, PTL DEF SupSpec, UdpOutlivesTcp

=============================================================================
