------------------------------- MODULE Search -------------------------------
(***************************************************************************)
(* Routed web search (src/app/providers): SearchOrchestrator.search asks   *)
(* the providers of a route in turn and stops at the first that returns    *)
(* anything.  Every provider is cache-first; Serper and Brave are metered  *)
(* against a persistent monthly quota and stand aside once refused;        *)
(* DuckDuckGo sits behind a circuit breaker.  The workers of all builds    *)
(* share one set of providers and interleave between any two of the locks, *)
(* requests and cache accesses below.                                      *)
(*                                                                         *)
(* A behaviour stays within one month and one cache TTL is one Expire.     *)
(* Rate limiters only delay and are left out.                              *)
(***************************************************************************)
EXTENDS Integers, Sequences, FiniteSets, FiniteSetsExt

CONSTANTS Worker,       \* threads that search at once
          Query,        \* normalised queries
          Metered,      \* Serper and Brave
          Keyed,        \* those of them with an API key
          Wikipedia, DuckDuckGo,
          Routes,       \* config.ROUTE_PERSON and ROUTE_DEFAULT
          Quota,        \* SERPER_MONTHLY_QUOTA, BRAVE_MONTHLY_QUOTA
          Threshold,    \* DDG_BREAKER_THRESHOLD
          Endpoints     \* how many DuckDuckGo endpoints there are

Provider == Metered \cup {Wikipedia, DuckDuckGo}

ASSUME SearchAssumption ==
  /\ IsFiniteSet(Worker) /\ Worker # {}
  /\ Keyed \subseteq Metered
  /\ Wikipedia \notin Metered /\ DuckDuckGo \notin Metered
  /\ Wikipedia # DuckDuckGo
  /\ Routes \subseteq Seq(Provider)
  /\ Quota \in Nat
  /\ Threshold \in Nat \ {0} /\ Endpoints \in Nat \ {0}

VARIABLES pc,         \* where each worker is in its search
          search,     \* what it searches for and how far it got
          cache,      \* provider and query -> what is cached, persistent
          counter,    \* the persistent quota counters
          used,       \* each provider object's copy of its counter
          exhausted,  \* and its flag
          mark,       \* the persistent outage state shown to users
          breaker     \* DuckDuckGo's circuit breaker

vars == <<pc, search, cache, counter, used, exhausted, mark, breaker>>

PC == {"idle", "ask", "lookup", "check", "call", "judge", "store"}
Answers == {"hits", "empty", "garbled", "denied", "spent", "other"}
NoSearch == [query |-> "", route |-> <<>>, at |-> 1, endpoint |-> 1, found |-> "failed"]
ClosedBreaker == [state |-> "closed", failures |-> 0, cooled |-> FALSE]

SearchInit ==
  /\ pc = [w \in Worker |-> "idle"]
  /\ search = [w \in Worker |-> NoSearch]
  /\ cache = [e \in Provider \X Query |-> "absent"]
  /\ counter \in [Metered -> 0..Quota]
  /\ used = counter
  /\ exhausted = [p \in Metered |-> FALSE]
  /\ mark = [p \in Metered |-> "none"]
  /\ breaker = ClosedBreaker

Asked(w) == search[w].route[search[w].at]
Entry(w) == <<Asked(w), search[w].query>>

-----------------------------------------------------------------------------
\* Bug: the quota is not consulted.
HasBudgetUntilRefused(p) == p \in Keyed /\ ~exhausted[p]

\* available() of Serper and Brave.
HasBudget(p) == p \in Keyed /\ ~exhausted[p] /\ used[p] < Quota

\* CircuitBreaker.allow: the answer, and what asking does to the breaker.
Admits ==
  /\ breaker.state # "half_open"
  /\ breaker.state = "open" => breaker.cooled
AfterAllow ==
  IF breaker.state = "open" /\ breaker.cooled
  THEN [breaker EXCEPT !.state = "half_open"] ELSE breaker

AfterSuccess == ClosedBreaker
AfterFailure ==
  LET n == breaker.failures + 1
      trips == breaker.state = "half_open" \/ n >= Threshold
  IN [state |-> IF trips THEN "open" ELSE breaker.state,
      failures |-> Min({n, Threshold}),
      cooled |-> breaker.cooled /\ ~trips]

\* available(), which for DuckDuckGo is a call of allow().
Available(p) ==
  /\ p \in Metered => HasBudget(p)
  /\ p = DuckDuckGo => Admits
AskBreaker(p) == breaker' = IF p = DuckDuckGo THEN AfterAllow ELSE breaker

-----------------------------------------------------------------------------
Goto(w, from, to) == pc[w] = from /\ pc' = [pc EXCEPT ![w] = to]
Found(w, f) == search' = [search EXCEPT ![w].found = f]

\* On to the route's next provider.
NextProvider(w) ==
  search' = [search EXCEPT ![w].at = @ + 1, ![w].endpoint = 1, ![w].found = "failed"]

\* SearchOrchestrator.search is called ...
Begin(w) ==
  /\ Goto(w, "idle", "ask")
  /\ \E q \in Query, r \in Routes :
       search' = [search EXCEPT ![w] = [NoSearch EXCEPT !.query = q, !.route = r]]
  /\ UNCHANGED <<cache, counter, used, exhausted, mark, breaker>>

\* ... and returns nothing when the route is at its end.
GiveUp(w) ==
  /\ search[w].at > Len(search[w].route)
  /\ Goto(w, "ask", "idle")
  /\ search' = [search EXCEPT ![w] = NoSearch]
  /\ UNCHANGED <<cache, counter, used, exhausted, mark, breaker>>

\* The loop's available() test.
Ask(w) ==
  /\ pc[w] = "ask" /\ search[w].at <= Len(search[w].route)
  /\ AskBreaker(Asked(w))
  /\ \/ Available(Asked(w)) /\ Goto(w, "ask", "lookup") /\ UNCHANGED search
     \/ ~Available(Asked(w)) /\ NextProvider(w) /\ UNCHANGED pc
  /\ UNCHANGED <<cache, counter, used, exhausted, mark>>

\* Bug: a cached empty list is taken for a miss.
LookupHits(w) ==
  /\ \/ /\ Goto(w, "lookup", "check") /\ cache[Entry(w)] # "hits"
        /\ UNCHANGED search
     \/ /\ Goto(w, "lookup", "idle") /\ cache[Entry(w)] = "hits"
        /\ search' = [search EXCEPT ![w] = NoSearch]
  /\ UNCHANGED <<cache, counter, used, exhausted, mark, breaker>>

\* SearchProvider.search: a cached list is returned as it is, also an empty
\* one, which the orchestrator then passes over.
Lookup(w) ==
  /\ \/ /\ Goto(w, "lookup", "check") /\ cache[Entry(w)] = "absent"
        /\ UNCHANGED search
     \/ /\ Goto(w, "lookup", "ask") /\ cache[Entry(w)] = "empty"
        /\ NextProvider(w)
     \/ /\ Goto(w, "lookup", "idle") /\ cache[Entry(w)] = "hits"
        /\ search' = [search EXCEPT ![w] = NoSearch]
  /\ UNCHANGED <<cache, counter, used, exhausted, mark, breaker>>

\* _search_uncached asks its provider once more before it spends anything.
Check(w) ==
  /\ pc[w] = "check"
  /\ AskBreaker(Asked(w))
  /\ IF Available(Asked(w)) THEN Goto(w, "check", "call") ELSE Goto(w, "check", "store")
  /\ UNCHANGED <<search, cache, counter, used, exhausted, mark>>

\* A metered provider answers: the request is counted, under the provider's
\* lock, whatever the answer; one that never got an answer is not.
Answer(w) ==
  /\ pc[w] = "call" /\ Asked(w) \in Metered
  /\ \/ Goto(w, "call", "store") /\ UNCHANGED <<search, counter, used>>
     \/ /\ \E a \in Answers : Goto(w, "call", "judge") /\ Found(w, a)
        /\ counter' = [counter EXCEPT ![Asked(w)] = @ + 1]
        /\ used' = [used EXCEPT ![Asked(w)] = counter'[Asked(w)]]
  /\ UNCHANGED <<cache, exhausted, mark, breaker>>

\* Bug: an empty balance, which Serper reports as a 400, is not recognised.
JudgeMissesCredit(w) ==
  LET a == search[w].found
      p == Asked(w)
  IN /\ Goto(w, "judge", "store")
     /\ Found(w, IF a \in {"hits", "empty"} THEN a ELSE "failed")
     /\ exhausted' = [exhausted EXCEPT ![p] = @ \/ a = "denied"]
     /\ mark' = [mark EXCEPT ![p] = IF a \in {"hits", "empty", "garbled"} THEN "ok" ELSE @]
     /\ UNCHANGED <<cache, counter, used, breaker>>

\* The status is acted on: a refusal ends the provider's run, any 200 clears
\* the outage shown to users, other failures leave no trace.
Judge(w) ==
  LET a == search[w].found
      p == Asked(w)
  IN /\ Goto(w, "judge", "store")
     /\ Found(w, IF a \in {"hits", "empty"} THEN a ELSE "failed")
     /\ exhausted' = [exhausted EXCEPT ![p] = @ \/ a \in {"denied", "spent"}]
     /\ mark' = [mark EXCEPT ![p] = CASE a = "denied" -> "invalid_key"
                                      [] a = "spent" -> "exhausted"
                                      [] a = "other" -> @
                                      [] OTHER -> "ok"]
     /\ UNCHANGED <<cache, counter, used, breaker>>

\* Wikipedia's search, with request_with_retry's attempts as one.
AskWikipedia(w) ==
  /\ pc[w] = "call" /\ Asked(w) = Wikipedia
  /\ Goto(w, "call", "store")
  /\ \E f \in {"hits", "empty", "failed"} : Found(w, f)
  /\ UNCHANGED <<cache, counter, used, exhausted, mark, breaker>>

\* One of DuckDuckGo's endpoints, and the next unless it had results: a 429
\* or a lost request is a failure to the breaker, a 200 a success, and any
\* other status is neither.
AskEndpoint(w) ==
  /\ pc[w] = "call" /\ Asked(w) = DuckDuckGo
  /\ \E a \in {"hits", "empty", "failed", "other"} :
       /\ breaker' = CASE a = "failed" -> AfterFailure
                       [] a = "other" -> breaker
                       [] OTHER -> AfterSuccess
       /\ search' = [search EXCEPT ![w].found = IF a \in {"hits", "empty"} THEN a ELSE @,
                                   ![w].endpoint = Min({@ + 1, Endpoints})]
       /\ IF a = "hits" \/ search[w].endpoint = Endpoints
          THEN Goto(w, "call", "store") ELSE UNCHANGED pc
  /\ UNCHANGED <<cache, counter, used, exhausted, mark>>

\* The result list is cached, whatever became of the request, and returned.
Store(w) ==
  /\ pc[w] = "store"
  /\ cache' = [cache EXCEPT ![Entry(w)] =
                 IF search[w].found = "hits" THEN "hits" ELSE "empty"]
  /\ \/ /\ search[w].found = "hits"
        /\ Goto(w, "store", "idle") /\ search' = [search EXCEPT ![w] = NoSearch]
     \/ /\ search[w].found # "hits"
        /\ Goto(w, "store", "ask") /\ NextProvider(w)
  /\ UNCHANGED <<counter, used, exhausted, mark, breaker>>

\* DDG_BREAKER_COOLDOWN has passed.
CoolDown ==
  /\ breaker.state = "open" /\ ~breaker.cooled
  /\ breaker' = [breaker EXCEPT !.cooled = TRUE]
  /\ UNCHANGED <<pc, search, cache, counter, used, exhausted, mark>>

Expire(e) ==
  /\ cache[e] # "absent"
  /\ cache' = [cache EXCEPT ![e] = "absent"]
  /\ UNCHANGED <<pc, search, counter, used, exhausted, mark, breaker>>

\* The process ends and another comes up: __init__ of the providers.
Restart ==
  /\ pc' = [w \in Worker |-> "idle"]
  /\ search' = [w \in Worker |-> NoSearch]
  /\ used' = counter
  /\ exhausted' = [p \in Metered |-> FALSE]
  /\ breaker' = ClosedBreaker
  /\ UNCHANGED <<cache, counter, mark>>

Work(w) ==
  \/ GiveUp(w) \/ Ask(w) \/ Lookup(w) \/ Check(w) \/ Answer(w) \/ Judge(w)
  \/ AskWikipedia(w) \/ AskEndpoint(w) \/ Store(w)

SearchNext ==
  \/ \E w \in Worker : Begin(w) \/ Work(w)
  \/ \E e \in Provider \X Query : Expire(e)
  \/ CoolDown \/ Restart

SearchSpec == SearchInit /\ [][SearchNext]_vars

\* Every request has a hard timeout and every limiter lets go in the end.
SearchFairness == \A w \in Worker : WF_vars(Work(w))

-----------------------------------------------------------------------------
SearchTypeOK ==
  /\ pc \in [Worker -> PC]
  /\ search \in [Worker -> [query : Query \cup {""}, route : Routes \cup {<<>>},
                            at : Nat \ {0}, endpoint : 1..Endpoints,
                            found : Answers \cup {"failed"}]]
  /\ cache \in [Provider \X Query -> {"absent", "empty", "hits"}]
  /\ counter \in [Metered -> Nat] /\ used \in [Metered -> Nat]
  /\ exhausted \in [Metered -> BOOLEAN]
  /\ mark \in [Metered -> {"none", "ok", "exhausted", "invalid_key"}]
  /\ breaker \in [state : {"closed", "open", "half_open"},
                  failures : 0..Threshold, cooled : BOOLEAN]

\* The quota is checked before a request and counted after it, outside any
\* common lock, so it can be overrun, but never by more than the other
\* workers that were past the check when the last unit was spent; and the
\* in-memory copy the check reads never lags behind the persistent counter,
\* across restarts too (BraveProvider._search_uncached, "PERSISTENT monthly
\* quota").
QuotaBounded ==
  \A p \in Metered :
    /\ used[p] = counter[p]
    /\ counter[p] <= Quota + Cardinality(Worker) - 1

\* A half-open breaker waits for the one trial that will close or reopen it
\* (CircuitBreaker.allow: "a trial is already in flight; wait for it to
\* resolve").
TrialInFlight ==
  breaker.state = "half_open" =>
    \E w \in Worker :
      pc[w] \in {"lookup", "check", "call"} /\ Asked(w) = DuckDuckGo

\* Only an answer is cached: a lookup that failed is not remembered as one
\* that found nothing (tests/test_wikipedia_negative_caching.py).
FailuresNotCached ==
  [][\A w \in Worker :
       pc[w] = "store" /\ pc'[w] # "store" /\ cache' # cache
         => search[w].found # "failed"]_vars

-----------------------------------------------------------------------------
(* The same system with two history variables, which count requests that   *)
(* should not have been made: after a provider's refusal was read, and     *)
(* while the result was cached.  No action of the search reads them.       *)

VARIABLES late,     \* provider -> -1 until it refused, then requests since
          repeats   \* provider and query -> requests begun since it is cached

NotRefused == -1

HistoryInit ==
  /\ SearchInit
  /\ late = [p \in Metered |-> NotRefused]
  /\ repeats = [e \in Provider \X Query |-> 0]

Refusal(p) ==
  \E w \in Worker : /\ pc[w] = "judge" /\ pc'[w] = "store"
                    /\ Asked(w) = p /\ search[w].found \in {"denied", "spent"}

Requests(e) ==
  \E w \in Worker : pc[w] = "check" /\ pc'[w] = "call" /\ Entry(w) = e

HistoryNext ==
  /\ SearchNext
  /\ late' = [p \in Metered |->
                IF Restart THEN NotRefused
                ELSE IF late[p] = NotRefused THEN IF Refusal(p) THEN 0 ELSE NotRefused
                ELSE late[p] + counter'[p] - counter[p]]
  /\ repeats' = [e \in Provider \X Query |->
                   IF cache[e] = "absent" THEN 0
                   ELSE IF Requests(e) THEN repeats[e] + 1 ELSE repeats[e]]

HistorySpec ==
  /\ HistoryInit /\ [][HistoryNext]_<<vars, late, repeats>>
  /\ SearchFairness

\* Once a provider has said that its balance or its key is no good, at most
\* the requests already under way still reach it in this process: no search
\* begun later pays for the same answer (tests/test_serper_credit_exhaustion.py,
\* "282 wasted Serper calls").
RefusalHeeded == \A p \in Metered : late[p] <= Cardinality(Worker) - 1

\* A query whose result is cached, hits or none, is not sent again while it
\* is, except by workers that had already found it missing (cache.py,
\* "never repeat an identical request within the TTL").
RepeatsBounded ==
  \A e \in Provider \X Query : repeats[e] <= Cardinality(Worker) - 1
=============================================================================
