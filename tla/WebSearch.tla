------------------------------ MODULE WebSearch ------------------------------
(***************************************************************************)
(* The Web Search adapter (tools/web_search.py) and the cache service      *)
(* behind it (cache/service.py). Searches run concurrently, share the      *)
(* cache, and may belong to adapters with an older source policy; between  *)
(* two provider calls a search does not suspend. A page's content, title   *)
(* and hashes are abstracted to its address, publication time and access   *)
(* time.                                                                   *)
(***************************************************************************)
EXTENDS Refusals, FiniteSets

CONSTANTS
  Searches,       \* concurrent invocations
  Requests,       \* [queries, domains, current], domains = {} meaning all
  Urls,           \* canonical URLs the provider may name
  DomainOf,       \* Urls -> a domain, or Unsafe
  Unsafe,
  SourceClass,    \* rank of a domain's source class, 0 first
  PolicyDomains,  \* policy version -> the domains of its rules
  QueryLimit,     \* active_query_limit
  PageLimit,      \* active_page_limit
  CurrentMaxAge,  \* current_max_age_seconds
  RetrievalTtl,   \* retrieval_ttl_seconds
  MaxTime         \* bound on the clock

VARIABLES
  webClock,
  webPolicy,      \* policy version of the adapter new searches use
  cache,          \* records of the RETRIEVAL class
  search,         \* state of each invocation
  webReply        \* the latest answer

\* What the policy's limits and a request's count of queries are.
LimitFacts ==
  /\ {QueryLimit, PageLimit, RetrievalTtl} \subseteq Nat
  /\ \A r \in Requests : r.queries \in Nat

webVars == <<webClock, webPolicy, cache, search, webReply>>

NoTime == MaxTime + 1
Times == 0..MaxTime
Waiting == [at |-> "idle"]
NoReply == [state |-> "NONE", status |-> "FAILED"]

-----------------------------------------------------------------------------
(* The cache                                                               *)

\* CacheService._validate_put and the backend's refusal to replace a record
\* that was not put to be refreshed.
PutError(r, existing) ==
  FirstRefusal(<< <<r.secret, "CACHE_SECRET_DENIED">>,
                  <<r.authorization, "CACHE_AUTHORIZATION_DENIED">>,
                  <<~r.stable, "CACHE_UNSTABLE_DENIED">>,
                  <<r.effect = "WRITE", "CACHE_SIDE_EFFECT_DENIED">>,
                  <<r.class = "TOOL" /\ r.effect # "PURE", "CACHE_TOOL_NOT_PURE">>,
                  <<r.class = "SEMANTIC" /\ ~(r.simple /\ r.similar), "CACHE_SEMANTIC_DENIED">>,
                  <<~r.refresh /\ existing, "CACHE_KEY_COLLISION">> >>)

\* How the search stores a snapshot: a stable read result, to be refreshed.
SnapshotPut == [class |-> "RETRIEVAL", secret |-> FALSE, authorization |-> FALSE,
                stable |-> TRUE, effect |-> "READ", simple |-> TRUE, similar |-> FALSE,
                refresh |-> TRUE]

Lookup(key) == {r \in cache : r.key = key}

\* CacheService.get: a record that expired or was made for other versions.
Stale(r, now, manifest) == r.created + RetrievalTtl <= now \/ r.manifest # manifest

\* CacheService.put with created_at = now.
Put(key, manifest, evidence, now) ==
  cache' = IF PutError(SnapshotPut, Lookup(key) # {}) # None THEN cache
           ELSE (cache \ Lookup(key)) \cup
                {[key |-> key, manifest |-> manifest, evidence |-> evidence, created |-> now]}

\* CacheService.invalidate by the name and value of one version.
Invalidate(version) ==
  /\ \E r \in cache : r.manifest = version
  /\ cache' = {r \in cache : r.manifest # version}
  /\ UNCHANGED <<webClock, webPolicy, search, webReply>>

-----------------------------------------------------------------------------
(* The source policy                                                       *)

\* _requested_domains: nothing requested means every domain of the policy.
RequestedDomains(r, policy) ==
  IF r.domains = {} THEN PolicyDomains[policy] ELSE r.domains

\* _allowed_url: a safe HTTPS address of one of the requested domains.
AllowedUrl(u, domains) == DomainOf[u] # Unsafe /\ DomainOf[u] \in domains

\* _is_current
IsCurrent(published, now) ==
  published # NoTime /\ published <= now /\ now - published <= CurrentMaxAge

\* _cache_key and _version_manifest. A policy version stands for the policy,
\* provider, schema and permission versions both are made of.
CacheKey(s) == <<s.req, s.policy>>
Manifest(s) == s.policy

-----------------------------------------------------------------------------
Init ==
  /\ webClock = 0
  /\ webPolicy = 1
  /\ cache = {}
  /\ search = [s \in Searches |-> Waiting]
  /\ webReply = NoReply

Answer(s, reply) ==
  /\ search' = [search EXCEPT ![s] = Waiting]
  /\ webReply' = reply

\* _failure and _tool_result: a search that failed has no evidence. Its code,
\* counters and retry flag are left out.
Failed == NoReply

\* execute up to the cache: the request, the query budget, the domains.
RequestError(r, parsed) ==
  FirstRefusal(<< <<~parsed, "WEB_RESPONSE_INVALID">>,
                  <<r.queries > QueryLimit, "WEB_BUDGET_EXCEEDED">>,
                  <<~(RequestedDomains(r, webPolicy) \subseteq PolicyDomains[webPolicy]),
                    "WEB_SOURCE_POLICY_DENIED">> >>)

Refuse(s, r, parsed) ==
  /\ search[s] = Waiting
  /\ RequestError(r, parsed) # None
  /\ Answer(s, Failed)
  /\ UNCHANGED <<webClock, webPolicy, cache>>

Started(r) ==
  [at |-> "query", req |-> r, policy |-> webPolicy,
   now |-> webClock, queries |-> r.queries, candidates |-> {}, opened |-> 0,
   seen |-> {}, evidence |-> {}]

CacheState(s) == IF s.req.current THEN "BYPASS" ELSE "MISS"

\* The lookup, in the same step as the checks: a usable record answers the
\* search, an unusable one is deleted, and the first query is sent.
Start(s, r) ==
  LET st == Started(r)
      found == IF r.current THEN {} ELSE Lookup(CacheKey(st))
      usable == {x \in found : ~Stale(x, webClock, Manifest(st))} IN
  /\ search[s] = Waiting
  /\ RequestError(r, TRUE) = None
  /\ IF usable # {}
     THEN /\ \E x \in usable :
               Answer(s, [state |-> "HIT", status |-> "SUCCESS", req |-> r,
                          policy |-> webPolicy,
                          evidence |-> x.evidence, calls |-> 0, at |-> webClock])
          /\ UNCHANGED cache
     ELSE /\ search' = [search EXCEPT ![s] = st]
          /\ cache' = cache \ found
          /\ UNCHANGED webReply
  /\ UNCHANGED <<webClock, webPolicy>>

\* _success, with the number of provider calls.
Found(st) ==
  [state |-> CacheState(st), status |-> "SUCCESS", req |-> st.req, policy |-> st.policy,
   evidence |-> st.evidence,
   calls |-> st.req.queries + st.opened, at |-> st.now]

\* After the last page: no evidence is a failure; otherwise the snapshot is
\* stored as of the time the search started, unless current information was
\* asked for, and returned.
Conclude(s, st) ==
  /\ Answer(s, IF st.evidence = {} THEN Failed ELSE Found(st))
  /\ IF st.evidence = {} \/ st.req.current THEN UNCHANGED cache
     ELSE Put(CacheKey(st), Manifest(st), st.evidence, st.now)

\* On to the next await, or to the end when pages or page budget run out.
Proceed(s, st) ==
  IF st.queries > 0 \/ (st.candidates # {} /\ st.opened < PageLimit)
  THEN /\ search' = [search EXCEPT ![s] = [st EXCEPT !.at = IF st.queries > 0 THEN "query"
                                                            ELSE "open"]]
       /\ UNCHANGED <<cache, webReply>>
  ELSE Conclude(s, st)

\* One query's hits: the allowed addresses become candidates.
QueryReturns(s, hits) ==
  LET st == search[s]
      domains == RequestedDomains(st.req, st.policy)
      allowed == {u \in hits : AllowedUrl(u, domains)} IN
  /\ st.at = "query"
  /\ Proceed(s, [st EXCEPT !.queries = @ - 1, !.candidates = @ \cup allowed])
  /\ UNCHANGED <<webClock, webPolicy>>

\* _candidate_rank; hits of one source class come in any order.
Ranked(st) == {u \in st.candidates :
                 \A v \in st.candidates :
                   SourceClass[DomainOf[u]] <= SourceClass[DomainOf[v]]}

\* Mutant: the address the page came from is taken for its final address.
AdmitUnredirected(st, page, domains) ==
  IF page.url \in st.seen THEN st
  ELSE IF page.large \/ (st.req.current /\ ~IsCurrent(page.published, st.now))
  THEN [st EXCEPT !.seen = @ \cup {page.url}]
  ELSE [st EXCEPT !.seen = @ \cup {page.url},
                  !.evidence = @ \cup {[url |-> page.url, published |-> page.published,
                                        accessed |-> st.now]}]

\* What becomes of an opened page, whose address may differ from the
\* candidate's after a redirect.
Admit(st, page, domains) ==
  IF ~AllowedUrl(page.url, domains) \/ page.url \in st.seen THEN st
  ELSE IF page.large \/ (st.req.current /\ ~IsCurrent(page.published, st.now))
  THEN [st EXCEPT !.seen = @ \cup {page.url}]
  ELSE [st EXCEPT !.seen = @ \cup {page.url},
                  !.evidence = @ \cup {[url |-> page.url, published |-> page.published,
                                        accessed |-> st.now]}]

\* A publication time matters only to a search for current information.
Pages == [url : Urls, published : Times \cup {NoTime}, large : BOOLEAN]

OpenReturns(s, page) ==
  LET st == search[s] IN
  /\ st.at = "open"
  /\ page.published # NoTime => st.req.current /\ page.published <= webClock
  /\ \E u \in Ranked(st) :
       Proceed(s, Admit([st EXCEPT !.candidates = @ \ {u}, !.opened = @ + 1], page,
                        RequestedDomains(st.req, st.policy)))
  /\ UNCHANGED <<webClock, webPolicy>>

\* The provider is offline, raises, or returns something invalid or too long.
ProviderFails(s) ==
  /\ search[s].at \in {"query", "open"}
  /\ Answer(s, Failed)
  /\ UNCHANGED <<webClock, webPolicy, cache>>

\* An adapter with another policy version takes over; searches under way keep
\* theirs.
PolicyChanges(p) ==
  /\ p > webPolicy
  /\ webPolicy' = p
  /\ UNCHANGED <<webClock, cache, search, webReply>>

Tick ==
  /\ webClock < MaxTime
  /\ webClock' = webClock + 1
  /\ UNCHANGED <<webPolicy, cache, search, webReply>>

Next ==
  \/ \E s \in Searches :
       \/ \E r \in Requests : Start(s, r) \/ \E parsed \in BOOLEAN : Refuse(s, r, parsed)
       \/ \E hits \in SUBSET Urls : QueryReturns(s, hits)
       \/ \E page \in Pages : OpenReturns(s, page)
       \/ ProviderFails(s)
  \/ \E p \in DOMAIN PolicyDomains : PolicyChanges(p) \/ Invalidate(p)
  \/ Tick

Spec == Init /\ [][Next]_webVars
-----------------------------------------------------------------------------
Succeeded == webReply.status = "SUCCESS"

\* Whatever the provider answers and however pages redirect, the evidence of a
\* successful search comes from the domains its policy and its request allow,
\* one page per address, within the page and call budgets, and is recent when
\* current information was asked for (web_search.py, execute).
EvidenceIsAdmissible ==
  Succeeded =>
    LET r == webReply.req
        domains == RequestedDomains(r, webReply.policy) IN
    /\ webReply.evidence # {}
    /\ domains \subseteq PolicyDomains[webReply.policy]
    /\ \A e \in webReply.evidence : AllowedUrl(e.url, domains)
    /\ \A e, f \in webReply.evidence : e.url = f.url => e = f
    /\ Cardinality(webReply.evidence) <= PageLimit
    /\ webReply.calls <= QueryLimit + PageLimit
    /\ r.current => \A e \in webReply.evidence : IsCurrent(e.published, webReply.at)

\* A search answered from the cache gets evidence that was accessed less than
\* the time to live ago, by a search with the same policy and also
\* when slow searches overwrite newer records or store after an invalidation
\* (web_search.py stores created_at as of the start of the search).
CacheHitIsFresh ==
  (Succeeded /\ webReply.state = "HIT") =>
    /\ ~webReply.req.current
    /\ \A e \in webReply.evidence : webReply.at - e.accessed < RetrievalTtl

\* Evidence is admissible and fresh, whether searched or served from the cache.
EvidenceIsSound == EvidenceIsAdmissible /\ CacheHitIsFresh
=============================================================================
