-------------------------- MODULE UsageAnalytics --------------------------
(***************************************************************************)
(* What the operations console shows of the use of the API: each response  *)
(* is recorded (the onResponse hook of apps/api/src/app.ts) and counted    *)
(* over a window by the stores of packages/operations/src/index.ts, in     *)
(* memory or by queries.  A request has a method and a route, the area of  *)
(* its path, an API key or a bearer token, the address it is about, the    *)
(* status it was answered with, when and how long it took.                 *)
(***************************************************************************)
EXTENDS Listing, Sequences, FiniteSetsExt, Functions

CONSTANTS
    MostEndpoints,    \* routes PostgreSQL lists, 20
    MostRecent,       \* responses listed, 50
    HourLength

ASSUME UsageAssumption ==
    MostEndpoints \in Nat /\ MostRecent \in Nat /\ HourLength \in Nat \ {0}

NoHash == "no hash"

-----------------------------------------------------------------------------
(* A response is one of its workflow only when it succeeded.                *)
Workflows == {
    <<"GET", "overview", "address-search">>, <<"POST", "verify", "wallet-login">>,
    <<"POST", "rules", "alert-created">>, <<"POST", "api-keys", "api-key-created">>,
    <<"GET", "report", "report-generated">>, <<"POST", "plan", "protection-planned">>,
    <<"POST", "chainhooks", "chainhook-delivery">>, <<"POST", "session", "admin-login">>}
WorkflowKinds == {w[3] : w \in Workflows}

EventKind(q) ==
    LET of == {w \in Workflows : w[1] = q.method /\ w[2] = q.route}
    IN  IF q.status >= 400 \/ of = {} THEN "api-request" ELSE (CHOOSE w \in of : TRUE)[3]

ActorKind(q) ==
    IF q.area \in {"chainhook", "operations", "admin"} THEN q.area
    ELSE IF q.key THEN "api-key"
    ELSE IF q.bearer THEN "wallet"
    ELSE "anonymous"

(* The address is hashed, or left out where no salt is configured.          *)
AddressHash(q, salted) ==
    IF q.route = "overview" /\ q.status < 400 /\ salted THEN q.address ELSE NoHash

Unrecorded == {"health", "admin-overview"}

RecordOf(q, salted) ==
    [route |-> q.route, status |-> q.status, at |-> q.at, took |-> q.took,
     actor |-> ActorKind(q), kind |-> EventKind(q), hash |-> AddressHash(q, salted)]

(* The log, by the number of the response.                                  *)
Recorded(requests, salted) ==
    [i \in {k \in DOMAIN requests : requests[k].route \notin Unrecorded} |->
        RecordOf(requests[i], salted)]

-----------------------------------------------------------------------------
InWindow(log, since) == Restrict(log, {i \in DOMAIN log : log[i].at >= since})
OfKind(es, kind) == {i \in DOMAIN es : es[i].kind = kind}
Failing(es) == {i \in DOMAIN es : es[i].status >= 400}
Hashes(es) == {es[i].hash : i \in OfKind(es, "address-search")}

Shorter(es, i, j) == es[i].took < es[j].took \/ (es[i].took = es[j].took /\ i < j)
Durations(es) ==
    LET order == InOrder(DOMAIN es, {p \in Pairs(DOMAIN es) : Shorter(es, p[1], p[2])})
    IN  [k \in DOMAIN order |-> es[order[k]].took]

(* The 95th percentile, in hundredths: of memory, the duration that covers  *)
(* that many, of PostgreSQL, interpolated between its neighbours.           *)
DiscretePercentile(ds) == IF ds = <<>> THEN 0 ELSE 100 * ds[Max({1, (95 * Len(ds) + 99) \div 100})]

ContinuousPercentile(ds) ==
    LET position == 95 * (Len(ds) - 1)
        low == position \div 100 + 1
    IN  IF ds = <<>> THEN 0
        ELSE 100 * ds[low] + (position % 100) * (ds[Min({low + 1, Len(ds)})] - ds[low])

Counted(es) ==
    [requests |-> Cardinality(DOMAIN es), errors |-> Cardinality(Failing(es)),
     took |-> SumFunction([i \in DOMAIN es |-> es[i].took])]

Endpoint(es, route) ==
    LET c == Counted(Restrict(es, {i \in DOMAIN es : es[i].route = route}))
    IN  [route |-> route, requests |-> c.requests, errors |-> c.errors, took |-> c.took]
Endpoints(es) == {Endpoint(es, es[i].route) : i \in DOMAIN es}

(* PostgreSQL lists the busiest; which of equals, is open.                  *)
Busiest(es) ==
    {S \in SUBSET Endpoints(es) :
       /\ Cardinality(S) = Min({MostEndpoints, Cardinality(Endpoints(es))})
       /\ \A x \in S, y \in Endpoints(es) \ S : x.requests >= y.requests}

HourOf(e) == e.at \div HourLength
Hourly(es, hour) ==
    LET in == Restrict(es, {i \in DOMAIN es : HourOf(es[i]) = hour})
        c == Counted(in)
    IN  [hour |-> hour, searches |-> Cardinality(OfKind(in, "address-search")),
         requests |-> c.requests, errors |-> c.errors, took |-> c.took]
Timeline(es) == {Hourly(es, HourOf(es[i])) : i \in DOMAIN es}

(* The latest responses: the last recorded, or the last by their time.      *)
LatestOf(es, Later) ==
    LET order == InOrder(DOMAIN es, Later)
    IN  [k \in 1 .. Min({MostRecent, Cardinality(DOMAIN es)}) |-> es[order[k]]]
MemoryRecent(es) == LatestOf(es, {p \in Pairs(DOMAIN es) : p[1] > p[2]})
PostgresRecent(es) == LatestOf(es, {p \in Pairs(DOMAIN es) : es[p[1]].at > es[p[2]].at})

(* Memory counts all searches without a hash as one more address, and       *)
(* keeps neither hours nor sessions nor keys.                               *)
MemorySnapshot(log, since) ==
    LET es == InWindow(log, since)
    IN  [traffic |-> Counted(es), unique |-> Cardinality(Hashes(es)),
         workflows |-> [k \in WorkflowKinds |-> Cardinality(OfKind(es, k))],
         endpoints |-> Endpoints(es), timeline |-> {},
         p95 |-> DiscretePercentile(Durations(es)),
         recent |-> MemoryRecent(es)]

PostgresSnapshot(log, since) ==
    LET es == InWindow(log, since)
    IN  [traffic |-> Counted(es), unique |-> Cardinality(Hashes(es) \ {NoHash}),
         workflows |-> [k \in WorkflowKinds |-> Cardinality(OfKind(es, k))],
         endpoints |-> CHOOSE S \in Busiest(es) : TRUE, timeline |-> Timeline(es),
         p95 |-> ContinuousPercentile(Durations(es)),
         recent |-> PostgresRecent(es)]
-----------------------------------------------------------------------------
Across(parts, field) == SumFunction([x \in parts |-> x[field]])

(* The two stores count the same, but for addresses without a hash; every   *)
(* response is in one hour and of one route, and a failed one in no         *)
(* workflow; the percentiles are at most one response apart.                *)
UsageIsSound(q) ==
    \A log \in {Recorded(q.requests, q.salted)} :
    \A memory \in {MemorySnapshot(log, q.since)}, postgres \in {PostgresSnapshot(log, q.since)},
       ds \in {Durations(InWindow(log, q.since))} :
       /\ memory.traffic = postgres.traffic /\ memory.workflows = postgres.workflows
       /\ memory.recent = postgres.recent
       /\ postgres.endpoints \subseteq memory.endpoints
       /\ postgres.unique <= memory.unique /\ (q.salted => postgres.unique = memory.unique)
       /\ memory.unique <= postgres.workflows["address-search"]
       /\ \A parts \in {memory.endpoints, postgres.timeline}, field \in {"requests", "errors", "took"} :
            Across(parts, field) = memory.traffic[field]
       /\ Across(postgres.timeline, "searches") = memory.workflows["address-search"]
       /\ SumFunction(memory.workflows) <= memory.traffic.requests - memory.traffic.errors
       /\ ds # <<>> => \E i \in DOMAIN ds :
            {memory.p95, postgres.p95} \subseteq 100 * ds[i] .. 100 * ds[Min({i + 1, Len(ds)})]
=============================================================================
