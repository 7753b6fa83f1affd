----------------------------- MODULE DnsServer ------------------------------
(***************************************************************************)
(* How the controller answers a DNS request: from the registry, from its   *)
(* cache of upstream responses, or by asking upstream.  Requests are       *)
(* handled concurrently, while the registry is replaced under them.  The   *)
(* resolver library and the servers it asks are external: a server replies *)
(* as zone says or with an error code, or there is no reply.               *)
(***************************************************************************)
EXTENDS Integers, Sequences, FiniteSets

CONSTANTS
  Names,
  Addrs,        \* addresses in the registry
  NoAddr,
  Slots,        \* slots for requests in flight
  Requests,     \* requests a client may send: sequences of questions
  Zones,        \* what upstream may know of the names and types
  Ttls,         \* TTLs that upstream records may carry
  NoEntry,
  ServiceTtl,   \* service_ttl, of the records made from the registry
  PositiveCap,  \* positive_cache_max
  NegativeCap,  \* negative_cache_max
  QueryTimeout, \* query_timeout
  SelfUpstream, \* whether an upstream may be this server itself
  MaxTime,      \* bound on the clock
  Horizon,      \* bound on the time at which requests arrive
  MaxReplace    \* bound on replacements of the registry

Types == {"A", "AAAA", "TXT"}
Keys == Names \X Types
Kinds == {"records", "nodata", "nxdomain"}

\* What an upstream server may reply to a question: what it knows of it, or an
\* error code (SERVFAIL, REFUSED) when it does not serve it.
Replies == Kinds \union {"error"}

ASSUME ConstantsAssumption ==
  /\ Requests \subseteq Seq(Keys)
  /\ Zones \subseteq [Keys -> Kinds]
  /\ Ttls \subseteq Nat
  /\ {ServiceTtl, PositiveCap, NegativeCap} \subseteq Nat
  /\ {MaxTime, Horizon, MaxReplace} \subseteq Nat
  /\ QueryTimeout \in Nat \ {0}
  /\ SelfUpstream \subseteq BOOLEAN
  /\ NoAddr \notin Addrs

VARIABLES
  selfUpstream, \* configuration: an upstream is this server itself
  zone,         \* what upstream knows of a name and type
  now,
  registry,     \* DnsRegistry
  replaced,     \* for the bound
  cache,        \* ResponseCache: entries by name and type
  req,          \* requests in flight
  seen          \* history: what the registry held of each name meanwhile

vars == <<selfUpstream, zone, now, registry, replaced, cache, req, seen>>

\* An outcome of one question.  ttl is the TTL of the records, and age the time
\* since upstream said it when the question was answered.
Outcome ==
  [key : Keys, kind : Kinds, addr : Addrs \union {NoAddr}, ttl : Nat, age : Int]

Entry == [kind : Kinds, ttl : Ttls, asOf : Nat, expires : Nat]

Reply == [kind : Replies, ttl : Ttls, asOf : Nat]

Rcodes == {"NoError", "NXDomain", "ServFail"}

\* A request: the questions, those still to answer, and the response so far.
\* start and reply belong to the question being answered.
Request ==
  [pc : {"idle", "check", "answer", "lookup_a", "forward", "lookup",
         "arrived", "done"},
   asked : Seq(Keys),
   todo : Seq(Keys),
   rcode : Rcodes,
   outcomes : SUBSET Outcome,
   anyFail : BOOLEAN,
   start : Nat,
   reply : Reply \union {NoEntry}]

IdleReq ==
  [pc |-> "idle", asked |-> <<>>, todo |-> <<>>, rcode |-> "NoError",
   outcomes |-> {}, anyFail |-> FALSE, start |-> 0, reply |-> NoEntry]

TypeOK ==
  /\ selfUpstream \in SelfUpstream
  /\ zone \in Zones
  /\ now \in 0..MaxTime
  /\ registry \in [Names -> Addrs \union {NoAddr}]
  /\ replaced \in 0..MaxReplace
  /\ cache \in [Keys -> Entry \union {NoEntry}]
  /\ req \in [Slots -> Request]
  /\ seen \in [Slots -> [Names -> SUBSET (Addrs \union {NoAddr})]]

Init ==
  /\ selfUpstream \in SelfUpstream
  /\ zone \in Zones
  /\ now = 0
  /\ registry = [n \in Names |-> NoAddr]
  /\ replaced = 0
  /\ cache = [k \in Keys |-> NoEntry]
  /\ req = [s \in Slots |-> IdleReq]
  /\ seen = [s \in Slots |-> [n \in Names |-> {}]]

-----------------------------------------------------------------------------
(* handle_request.                                                         *)

contains(n) == registry[n] # NoAddr

Set(s, r) == req' = [req EXCEPT ![s] = r]

Question(s) == Head(req[s].todo)

receive(s, questions) ==
  /\ req[s].pc = "idle"
  /\ now <= Horizon
  /\ Set(s, [IdleReq EXCEPT !.pc = "check", !.asked = questions,
                            !.todo = questions])
  /\ seen' = [seen EXCEPT ![s] = [n \in Names |-> {registry[n]}]]
  /\ UNCHANGED <<selfUpstream, zone, now, registry, replaced, cache>>

\* Mutant of Finished: the code that an earlier question set is kept.
FinishedKeepsCode(r) ==
  IF r.todo # <<>>
  THEN [r EXCEPT !.pc = "answer", !.start = now, !.reply = NoEntry]
  ELSE [r EXCEPT !.pc = "done", !.start = 0, !.reply = NoEntry,
                 !.rcode = IF r.anyFail /\ r.outcomes = {}
                           THEN "ServFail" ELSE @]

\* The response is complete when no question is left: SERVFAIL if one failed
\* and none was answered with a record.
Finished(r) ==
  IF r.todo # <<>>
  THEN [r EXCEPT !.pc = "answer", !.start = now, !.reply = NoEntry]
  ELSE [r EXCEPT !.pc = "done", !.start = 0, !.reply = NoEntry,
                 !.rcode = IF /\ r.anyFail
                              /\ \A o \in r.outcomes : o.kind # "records"
                           THEN "ServFail" ELSE @]

\* Mutant of check_upstream: addresses are not compared.
CheckNothing(s) ==
  /\ req[s].pc = "check"
  /\ Set(s, Finished(req[s]))
  /\ UNCHANGED <<selfUpstream, zone, now, registry, replaced, cache, seen>>

\* With itself as upstream the server refuses requests it would forward.
check_upstream(s) ==
  /\ req[s].pc = "check"
  /\ LET asks == {req[s].asked[i][1] : i \in DOMAIN req[s].asked} IN
     IF selfUpstream /\ \E n \in asks : ~contains(n)
     THEN Set(s, [req[s] EXCEPT !.pc = "done", !.rcode = "ServFail"])
     ELSE Set(s, Finished(req[s]))
  /\ UNCHANGED <<selfUpstream, zone, now, registry, replaced, cache, seen>>

\* answer_query returned: an empty answer that is not NOERROR sets the code.
Answered(s, kind, addr, ttl, asOf) ==
  Set(s, Finished(
    [req[s] EXCEPT
       !.todo = Tail(@),
       !.outcomes = @ \union {[key |-> Question(s), kind |-> kind,
                               addr |-> addr, ttl |-> ttl,
                               age |-> now - asOf]},
       !.rcode = IF kind = "nxdomain" THEN "NXDomain" ELSE @]))

Failed(s) ==
  Set(s, Finished([req[s] EXCEPT !.todo = Tail(@), !.anyFail = TRUE]))

\* Mutant of answer_query: the cache is preferred to the registry.
CacheBeforeRegistry(s) ==
  LET name == Question(s)[1]
      type == Question(s)[2]
  IN
  /\ req[s].pc = "answer"
  /\ \/ /\ contains(name) /\ type = "A" /\ cache[Question(s)] = NoEntry
        /\ Set(s, [req[s] EXCEPT !.pc = "lookup_a"])
     \/ /\ contains(name) /\ type = "AAAA"
        /\ Answered(s, "nodata", NoAddr, 0, now)
     \/ /\ \/ ~contains(name)
           \/ type = "A" /\ cache[Question(s)] # NoEntry
           \/ type \notin {"A", "AAAA"}
        /\ Set(s, [req[s] EXCEPT !.pc = "forward"])
  /\ UNCHANGED <<selfUpstream, zone, now, registry, replaced, cache, seen>>

\* answer_query: the registry is consulted, and for an A question it is read
\* again for the address.
answer_query(s) ==
  LET name == Question(s)[1]
      type == Question(s)[2]
  IN
  /\ req[s].pc = "answer"
  /\ \/ /\ contains(name) /\ type = "A"
        /\ Set(s, [req[s] EXCEPT !.pc = "lookup_a"])
     \/ /\ contains(name) /\ type = "AAAA"
        /\ Answered(s, "nodata", NoAddr, 0, now)
     \/ /\ ~contains(name) \/ type \notin {"A", "AAAA"}
        /\ Set(s, [req[s] EXCEPT !.pc = "forward"])
  /\ UNCHANGED <<selfUpstream, zone, now, registry, replaced, cache, seen>>

lookup_a(s) ==
  LET addr == registry[Question(s)[1]] IN
  /\ req[s].pc = "lookup_a"
  /\ IF addr = NoAddr THEN Failed(s)
     ELSE Answered(s, "records", addr, ServiceTtl, now)
  /\ UNCHANGED <<selfUpstream, zone, now, registry, replaced, cache, seen>>

-----------------------------------------------------------------------------
(* forward_query and the cache.                                            *)

\* Mutant of Expired: entries stay for ever.
NeverExpires(e) == e = NoEntry

Expired(e) == IF e = NoEntry THEN TRUE ELSE now >= e.expires

\* cache.get: an expired entry is removed.
cache_get(s) ==
  LET k == Question(s)
      hit == cache[k]
  IN
  /\ req[s].pc = "forward"
  /\ \/ /\ ~Expired(hit)
        /\ Answered(s, hit.kind, NoAddr, hit.ttl, hit.asOf)
        /\ UNCHANGED cache
     \/ /\ Expired(hit)
        /\ cache' = [cache EXCEPT ![k] = NoEntry]
        /\ Set(s, [req[s] EXCEPT !.pc = "lookup"])
  /\ UNCHANGED <<selfUpstream, zone, now, registry, replaced, seen>>

\* Upstream makes up its reply; it may take time to arrive.
UpstreamAnswers(s, kind, ttl) ==
  /\ req[s].pc = "lookup"
  /\ kind \in {zone[Question(s)], "error"}
  /\ Set(s, [req[s] EXCEPT !.pc = "arrived",
               !.reply = [kind |-> kind, ttl |-> ttl, asOf |-> now]])
  /\ UNCHANGED <<selfUpstream, zone, now, registry, replaced, cache, seen>>

Life(kind, ttl) ==
  IF kind = "records"
  THEN IF ttl < PositiveCap THEN ttl ELSE PositiveCap
  ELSE NegativeCap

\* cache.put of a lifetime of zero does nothing.
Put(k, kind, ttl, asOf) ==
  cache' = IF Life(kind, ttl) = 0 THEN cache
           ELSE [cache EXCEPT ![k] =
                   [kind |-> kind, ttl |-> ttl, asOf |-> asOf,
                    expires |-> now + Life(kind, ttl)]]

\* The lookup returns on a reply.  The resolver reports every reply without
\* records as "no records found", an error code of the server included, and
\* that becomes NXDOMAIN.
lookup_returns(s) ==
  LET r == req[s].reply
      kind == IF r.kind = "records" THEN "records" ELSE "nxdomain"
  IN
  /\ req[s].pc = "arrived"
  /\ Put(Question(s), kind, r.ttl, r.asOf)
  /\ Answered(s, kind, NoAddr, r.ttl, r.asOf)
  /\ UNCHANGED <<selfUpstream, zone, now, registry, replaced, seen>>

\* There is no reply: the network fails, or the resolver's own timeout runs
\* out on all upstreams.
lookup_fails(s) ==
  /\ req[s].pc \in {"lookup", "arrived"}
  /\ Failed(s)
  /\ UNCHANGED <<selfUpstream, zone, now, registry, replaced, cache, seen>>

\* Mutant of query_timeout: it does not cover the wait for upstream.
TimeoutAfterLookup(s) ==
  /\ req[s].pc = "arrived"
  /\ now - req[s].start >= QueryTimeout
  /\ Failed(s)
  /\ UNCHANGED <<selfUpstream, zone, now, registry, replaced, cache, seen>>

query_timeout(s) ==
  /\ req[s].pc \in {"lookup", "arrived"}
  /\ now - req[s].start >= QueryTimeout
  /\ Failed(s)
  /\ UNCHANGED <<selfUpstream, zone, now, registry, replaced, cache, seen>>

send(s) ==
  /\ req[s].pc = "done"
  /\ Set(s, IdleReq)
  /\ seen' = [seen EXCEPT ![s] = [n \in Names |-> {}]]
  /\ UNCHANGED <<selfUpstream, zone, now, registry, replaced, cache>>

-----------------------------------------------------------------------------
(* The rest of the controller, and the clock.                              *)

replace(routes) ==
  /\ replaced < MaxReplace
  /\ replaced' = replaced + 1
  /\ routes # registry
  /\ registry' = routes
  /\ seen' = [s \in Slots |->
                IF req[s].pc = "idle" THEN seen[s]
                ELSE [n \in Names |-> seen[s][n] \union {routes[n]}]]
  /\ UNCHANGED <<selfUpstream, zone, now, cache, req>>

\* Time passes while the server waits for upstream, not while it computes,
\* and a timer that has run out fires before the clock goes on.
Tick ==
  /\ now < MaxTime
  /\ \A s \in Slots :
       \/ req[s].pc \in {"idle", "done"}
       \/ /\ req[s].pc \in {"lookup", "arrived"}
          /\ now - req[s].start < QueryTimeout
  /\ now' = now + 1
  /\ UNCHANGED <<selfUpstream, zone, registry, replaced, cache, req, seen>>

-----------------------------------------------------------------------------

ServerStep(s) ==
  \/ check_upstream(s)
  \/ answer_query(s)
  \/ lookup_a(s)
  \/ cache_get(s)
  \/ lookup_returns(s)
  \/ query_timeout(s)
  \/ send(s)

Next ==
  \/ \E s \in Slots :
       \/ \E questions \in Requests : receive(s, questions)
       \/ ServerStep(s)
       \/ \E kind \in Replies, ttl \in Ttls : UpstreamAnswers(s, kind, ttl)
       \/ lookup_fails(s)
  \/ \E routes \in [Names -> Addrs \union {NoAddr}] : replace(routes)
  \/ Tick

Spec == Init /\ [][Next]_vars

\* The tasks of the server are scheduled and its timers run: time is not held
\* up by requests that come and go in no time, hence strong fairness.
\* Upstream need not ever answer.
Fairness ==
  /\ \A s \in Slots : WF_vars(ServerStep(s))
  /\ SF_vars(Tick)

FairSpec == Spec /\ Fairness

-----------------------------------------------------------------------------
(* Properties of a response that is ready to be sent.                      *)

Busy == {"answer", "lookup_a", "forward", "lookup", "arrived"}
Forwarding == {"forward", "lookup", "arrived"}
Done(s) == req[s].pc = "done"
Elems(questions) == {questions[i] : i \in DOMAIN questions}
Asked(s) == Elems(req[s].asked)
Registered(s, n) == NoAddr \notin seen[s][n]

\* A name that is registered while its A question is handled gets an address
\* the registry had for it meanwhile, whatever is replaced and whatever was
\* cached from upstream before the name was registered ("This avoids
\* accidentally returning public A records", SPEC-v1.md:971).
RegistryComesFirst ==
  ~selfUpstream =>
  \A s \in Slots : Done(s) =>
    \A k \in Asked(s) : k[2] = "A" /\ Registered(s, k[1]) =>
      /\ \E o \in req[s].outcomes : o.key = k
      /\ \A o \in req[s].outcomes :
           o.key = k => o.kind = "records" /\ o.addr \in seen[s][k[1]]

\* What the handling of a request relies on from one await to the next, while
\* the registry is replaced and the clock goes on (server.rs, handle_request
\* and answer_query).  In this order: what the registry holds now is among
\* what it held meanwhile; questions are answered in order and none is
\* invented or skipped, and no more than the query timeout has passed over
\* the one at hand; a question of an address goes upstream only if its name
\* was missing at some time, and a server that is its own upstream asks only
\* for names that were present at some time; the reply is of the question.
RequestSound(s) ==
  LET r == req[s] IN
  /\ r.pc # "idle" => \A n \in Names : registry[n] \in seen[s][n]
  /\ Elems(r.todo) \subseteq Asked(s)
  /\ r.pc = "check" => r.todo = r.asked
  /\ r.pc = "done" /\ ~selfUpstream => r.todo = <<>>
  /\ r.pc \in Busy => /\ r.todo # <<>>
                      /\ r.start <= now
                      /\ now <= r.start + QueryTimeout
  /\ r.pc \in Forwarding /\ Question(s)[2] \in {"A", "AAAA"}
       => ~Registered(s, Question(s)[1])
  /\ r.pc \in Busy /\ selfUpstream
       => \A k \in Asked(s) : seen[s][k[1]] \intersect Addrs # {}
  /\ r.pc = "arrived" => /\ r.reply \in Reply
                         /\ r.reply.kind \in {zone[Question(s)], "error"}
                         /\ r.reply.asOf \in r.start..now

\* What the response has so far: an A question of a name that was registered
\* all the time and is no longer to do has an answer, such answers are
\* addresses of the registry, and NXDOMAIN has a question to account for it
\* that was not the registry's to answer (server.rs, the loop of
\* handle_request).
ResponseSound(s) ==
  LET r == req[s] IN
  /\ \A k \in Asked(s) \ Elems(r.todo) :
       k[2] = "A" /\ Registered(s, k[1]) => \E o \in r.outcomes : o.key = k
  /\ \A o \in r.outcomes : o.key[2] = "A" /\ Registered(s, o.key[1])
       => o.kind = "records" /\ o.addr \in seen[s][o.key[1]]
  /\ r.rcode = "NXDomain" =>
       \E o \in r.outcomes :
         /\ o.kind = "nxdomain"
         /\ o.key[2] \in {"A", "AAAA"} => ~Registered(s, o.key[1])

\* An entry holds records only if upstream has them, and expires one lifetime
\* and one query timeout after upstream said it at the latest (server.rs,
\* ResponseCache and forward_query).
CacheSound ==
  \A k \in Keys : LET e == cache[k] IN
    e # NoEntry =>
      /\ e.kind \in {"records", "nxdomain"}
      /\ e.kind = "records" => zone[k] = "records"
      /\ e.expires <= e.asOf + Life(e.kind, e.ttl) + QueryTimeout

\* The registry comes first in every state, and what requests in flight and
\* the cache hold is sound, whatever is replaced while a question is handled
\* (server.rs, answer_query).
DnsServerInv ==
  /\ TypeOK
  /\ CacheSound
  /\ \A s \in Slots : RequestSound(s) /\ ResponseSound(s)
  /\ RegistryComesFirst

\* A question that came to nothing is owned up to: when a lookup gets no reply,
\* a timeout fires or the registry is replaced between its two reads, and no
\* other question has a record, the response says SERVFAIL, whatever code the
\* other questions set ("if all upstreams fail", server.rs:279, the end of
\* handle_request).
FailureIsServfail ==
  \A s \in Slots : Done(s) =>
    \/ req[s].rcode = "ServFail"
    \/ \E o \in req[s].outcomes : o.kind = "records"
    \/ \A k \in Asked(s) : \E o \in req[s].outcomes : o.key = k

\* What is said of upstream is at most one lifetime (the TTL or the cap) and
\* one query timeout old, also when a slow lookup overwrites the cache entry
\* of a faster one.
UpstreamAnswersFresh ==
  \A s \in Slots : \A o \in req[s].outcomes :
    o.age <= Life(o.kind, o.ttl) + QueryTimeout

\* With itself as upstream the server never looks a name up that was not in
\* the registry at some time during the request: only a name that is removed
\* meanwhile, or is asked for another type than A and AAAA, goes round in a
\* loop (server.rs, the check in handle_request).
UnregisteredNotLooped ==
  selfUpstream =>
    \A s \in Slots : req[s].pc = "lookup" =>
      seen[s][Question(s)[1]] \intersect Addrs # {}

\* Every request gets a response, although upstream may never answer.
EveryRequestAnswered ==
  \A s \in Slots : req[s].pc # "idle" ~> Done(s)

-----------------------------------------------------------------------------
(* Statements of the documentation that the code does not keep.            *)

\* SPEC-v1.md:993, "Do not fabricate NXDOMAIN", and server.rs:279, "if all
\* upstreams fail [...], do not fabricate NXDOMAIN": a question is answered
\* with NXDOMAIN only if upstream has no record for it.
NxdomainNotFabricated ==
  \A s \in Slots : \A o \in req[s].outcomes :
    o.kind = "nxdomain" => zone[o.key] # "records"

\* SPEC-v1.md:949-954, a forwarded query preserves the "response code": there
\* is no NXDOMAIN for names that exist.
ResponseCodePreserved ==
  \A s \in Slots : Done(s) /\ req[s].rcode = "NXDomain" =>
    \E k \in Asked(s) : zone[k] = "nxdomain"

\* SPEC-v1.md:979, "positive upstream responses: respect TTL": a client that
\* keeps a record for the TTL it is given does not keep it longer than
\* upstream allowed, but for the time the query took.
TtlRespected ==
  \A s \in Slots : \A o \in req[s].outcomes :
    o.kind = "records" /\ o.addr = NoAddr =>
      o.age + o.ttl <= o.ttl + QueryTimeout

\* SPEC-v1.md:176, "DNS loop detection", and server.rs:238, "If registry miss
\* would forward to upstream equal to self, SERVFAIL.": a server that is its
\* own upstream forwards nothing.
NoSelfForward ==
  selfUpstream => \A s \in Slots : req[s].pc # "lookup"

=============================================================================
