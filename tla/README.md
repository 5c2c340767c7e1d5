# Artemis: a verification of its coordination logic

Artemis builds a graph of public relationships: a request names one or two
people, a background job searches the web for them hop by hop, language models
and heuristics extract edges, and the graph is served back as routes. This
directory holds TLA+ models of the parts whose correctness depends on
interleaving, failure and retries, the TLC instances that check them, and
TLAPS proofs about all of them. Paths below are relative to `src/app/`.

## 1. The system and its parts

| Component | State | Operations | Where it is hard |
|---|---|---|---|
| Build admission queue, `buildqueue.py` | deque of tickets, running counter, a flag per ticket | reserve, acquire, release | every paid build passes it; two classes share one line; release must be right in any state |
| Background jobs, `main.py` | `_JOBS` table, usage window, cancel events | submit, poll, cancel, worker per build, sweep of old records | cancel races every step of the worker; two sides report progress; a `finally` that must never leak |
| Enrichment runs, `network/executor.py`, `network/enrichment.py` | run and task rows in the database | plan, start, pause, cancel, execute | hours long; crashes, deploys, retries, yields to interactive builds |
| Search routing and web search providers, `providers/` | cache and counters in SQLite, per-process flags, circuit breaker | routed search over Serper, Brave, Wikipedia, DuckDuckGo | metered, shared by up to 64 threads, persistent and in-memory state side by side |
| Claude usage ledger, `extraction/usage.py` | per-model totals, unflushed buffer | record, flush, checkpoint, since | process-wide totals, buffered persistence |
| Graph store and builder, `graph/builder.py`, `models.py`, `db.py` | people, organisations, sources, edges | look up or create, link, merge, delete, commit, retry | check-then-insert under concurrent sessions, savepoints, foreign keys, deadlocks of two and three transactions |
| Hop verification, `graph/hop_verify.py` | verdict fields of an edge | reject, verify, reconsider | sessions write from copies they loaded seconds ago; verdicts age, a person's rejection should not |
| Expansion, `graph/expansion.py` | visited set, frontier, discoveries; per person a record of questions asked | one hop of concurrent workers, a node's visit, prune, retype | stop and cancel inside a hop, retries, the record overwritten by overlapping visits |
| Connect and discover, `graph/connect.py` | the stages of a build, three expansions and their shared graph | shortcut, pair search, guesses, own network, expansion, verification, resume, adjudication | each front stops the others; the graph changes under the build; routes are disproved late |
| Route search, `graph/connect.py`, `network/paths.py` | a heap of partial paths | cheapest paths under a hop limit, diverse routes, everyone within reach | a limit on hops and a cost are optimised together |
| Disambiguation and names | none | normal forms, identity checks | string heuristics |
| Extraction stages, `extraction/` | cached verdicts, the latch of the model client | filter names, label ties, propose, adjudicate | batches in pools, refused credentials, missing answers |
| Structured providers, `providers/` | cached pages and answers | registers, rosters, podcasts, directories | caches built from caches; what is kept after a failure differs |
| Network import and ranking, `network/` | contact rows | import, rank, cliques, silo weights | pure algorithms |
| HTTP API and access control, `main.py`, `auth.py` | token buckets | endpoints, rate limit | bounded table |
| Snapshots, silos, command line, browser client, scripts | files | | input and output |

How they interact: a build endpoint reserves a ticket and starts a worker
thread; the worker waits in the build queue, then expansion or connect runs in
it and in further threads, all of which search through the one
`SearchOrchestrator` of the process and write through the builder, each in a
session of its own. Every visit of a node asks the structured providers and
the batched judgements of `extraction/`, which share one cache, one set of
request slots and one latch per process. The enrichment executor is another
client of the same queue, with background tickets, and calls the same
expansion. Cancel, pause and progress cross threads through the job table and
through rows in the database.

`PROJECT.json` lists, under `hazards`, what in this code is hard to test, at
its line, with the properties that would catch it.

## 2. Modules

| Module | Models | Extends |
|---|---|---|
| `SlotPool` | what the queue promises: sets of waiting and holding tickets, bounded | |
| `BuildQueue`, `BuildQueue_proofs` | `buildqueue.py` | |
| `BuildJobs`, `BuildJobs_proofs` | job table, workers and cancellation, composed with the queue | `BuildQueue` |
| `Enrichment`, `Enrichment_proofs` | one run, its executors and its operator, composed with the queue | `BuildQueue` |
| `Search`, `Search_proofs` | routed search with cache, quota and circuit breaker | |
| `RouteSearch`, `Connect_proofs` | the three searches for routes over the stored graph, with a reference definition | |
| `GraphStore`, `Graph_proofs` | the transactions that write the graph, with locks, deadlocks and the prune | |
| `EdgeVerdict`, `Verdicts_proofs` | the life of one edge under overlapping sessions | |
| `NodeVisit`, `Visits_proofs` | the visits paid to one person and the record of questions asked | |
| `Expansion`, `Graph_proofs` | one call of `expand_graph`: hops, pool, frontier, stop, cancel | |
| `PairSearch` | what the pages of one search for two people bring | |
| `Connect`, `Connect_proofs` | one connect build as a cascade of stages, with three fronts | `PairSearch` |
| `Judging`, `Verdicts_proofs` | the batched model judgements and their client | |
| `Lookups`, `Visits_proofs` | structured lookups through nested caches | |
| `MC...` | the instances for TLC; `MCBuildUsage` adds a history variable | |

Four proof modules are about two components each: the store and the expansion
that writes through it, an edge's verdicts and the judgements, the visits and
the lookups they make, the connect build and its search for routes.

The modules meet at their borders, not in one state space: `Connect` treats a
front's hop as one step whose inside is `Expansion`; a worker of `Expansion` is
a visit of `NodeVisit`; what a visit writes is a transaction of `GraphStore`,
final commit and its retry included, whose edges are those of `EdgeVerdict`;
its requests are those of `Search`, `Lookups` and `Judging`. What one module
takes for granted of another is what the other checks: `Connect` that every
front ends (`Expansion.WalkEnds`), `Expansion` that a node's attempt ends
(`GraphStore`), the jobs that a build ends (`Connect.BuildEnds`). An attempt
leaves everything or nothing, or, if its final commit had to be retried, the
mark alone; nobody relies on more.

Operators preceded by a comment "Bug: ..." are deliberately wrong variants of
the definition they precede. No specification uses them; substituted for it,
each must make a property fail, which shows that the property depends on that
piece of the code. Every module also has a type invariant (`...TypeOK`). All
of them hold on the instances below; they are not listed with the runs. Those
of the queue, the jobs, the runs, the search, the connect build and the routes
are theorems; the other proofs carry the types they need in their invariants.

### BuildQueue

`pending` is the deque, `running` the bare counter, `acquired` the set of
tickets whose flag is set. `Reserve`, `Acquire` and `Release` are one critical
section each of the condition variable. `Acquire` takes the ticket out of the
middle of the line when `NextEligible` finds that nobody ahead could start.
The constructor's clamps are definitions over raw configuration constants, so
the statements hold for any environment variables. Waiting is not modelled as
a state: `acquire` polls every quarter second, so a wakeup cannot be lost.

### BuildJobs

A job and its ticket are created together and used once, so one identity
stands for both. `pc` follows the worker through its locked sections: the
ticket is reserved before the record is created; the cancel check, the grant
and the status write are three steps; a progress report is a check (`PassStep`)
and a later update (`ApplyStep`), up to `MaxSides` of them at once; the
`finally` block releases first and accounts afterwards. `WithStatus` and
`WithProgress` are the two halves of `_update_job`. `old` says that a record
has not been touched for `_JOB_TTL_S`; only a silent build or a finished job
can grow that old, because a worker in line reports at every poll. A swept
record turns the worker's next cancel check into an error, as the 404 does.
The enrichment executor's tickets appear as `OtherWork`.

### Enrichment

`state` and `task` are rows, everything else is memory: `Crash` keeps the
former and loses the latter, and start-up repairs nothing. `held` is what an
executor read when it selected its task, so a write may be based on a stale
read. Pause and cancel read the state and write it in a later step. A start
looks at the row only, so any number of executors may be at work on one run.
`DbFault` lets the database fail where the code has different consequences: in
the prologue, inside the loop, in line, or in the commit that begins a task.
Three history variables say what the statements have to except: `stray`, the
executors whose ticket a fault left in line; `contested`, the tasks that were
picked while another executor had them in hand; `overlap`, that the last start
found somebody at work. Nothing is assumed of the operator or the database. The
limit and budget of a call are abstracted to the possibility of stopping before
any task.

### Search

`search` holds, for each worker, its query, its route and how far it got. The
test of `available()`, the cache lookup, the second test inside
`_search_uncached`, the request with its counting, the reaction to the status
and the store into the cache are separate steps, as no lock spans them.
`counter` and `mark` persist; `used`, `exhausted` and `breaker` belong to the
process and are rebuilt by `Restart`. Answers are the classes the code tells
apart: hits, an empty or garbled 200, a key refusal (401, 403), an exhausted
balance (402, 429, Serper's 400 about credits), other statuses, and no answer
at all. A DuckDuckGo search is up to `Endpoints` requests, each reported to
the breaker. A behaviour stays within one month; rate limiters only delay and
are left out; `request_with_retry` is one request. `late` and `repeats`, at the
end of the module, are history variables: requests to a provider that has
refused, and for an entry that is cached.

### RouteSearch

One search over a graph of people that is fixed once picked: `connect` finds
up to `Wanted` routes, each around the bridges of those before it
(`_diverse_paths`, `_best_path`), `paths` one route from a contact
(`network/paths.py`), `discover` everyone within reach (`discover_person`).
They share the heap and differ in `Key` (what is remembered of a node),
`Walkable` (which edges may be walked) and `StepCost`. Edges are rows with a
type, a status, a confidence and signals, so that `_untraversable`, the gate
for somebody else's uploaded contacts and the choice of one edge per pair are
the code's. `RouteExists` is the free test for a route, a walk by whole hops.
`SimplePaths` and `Cost` are the reference, and
`Left(n)` the paths that the first n routes leave. Costs are small integers instead
of logarithms; equal costs leave the heap in any order.

### GraphStore

`row` says for each person whether it is absent, committed, or an insert of
some worker's open transaction; `tx` is where a worker is in its batch (the
subject, then a counterpart and an edge at a time), `edges` what is committed,
`prune` the one transaction that deletes junk. Inserts are sent at once;
changes to rows that exist stay in the session (`dirty`) until the next
savepoint (`Flush`) or the final commit sends them, and fail if a prune has
deleted the row meanwhile (`stale`). `Blockers` are the transactions a
statement has to wait for: another's uncommitted insert of the same name, an
uncommitted change or deletion of the row to be changed, an uncommitted edge
to a row that is to be deleted, a deletion of an end of the edge to be
inserted. Waiting is a disabled action; `Deadlocked` finds a cycle of waits,
and `Victim` and `VictimPrune` are the server failing one member of it, with
the code's reactions: retry in the savepoint, redo the node in a fresh
session, give up. At the final commit the reaction is that of
`commit_with_retry`: everything is rolled back and `_mark_expanded` alone is
done again (`MarkOnly`, `CommitMark`); a subject that the transaction itself
had inserted is not even marked. Organisations and sources are stored the
same way and stand behind the persons. Isolation is READ COMMITTED.

### EdgeVerdict

`edge` is the row, `session` the copies that extraction, the classifier and
the verifier loaded before they work. `Write` changes only the fields that
differ from the copy, which is what the session's flush does, and is why an
old copy does harm in some fields and not in others. `Load` to the closing
write is the seconds of a model call; `Age` is the passing of a verdict's
lifetime; `OperatorRejects` and `Pruned` happen in between. Confidences are
the three tiers the code tells apart.

### NodeVisit

`record` is the person's `processed` flag and `silo_coverage`; a visit keeps
the copy its session loaded, what it asks (`Missing`, the residual of what it
wants over what is covered in the same context) and which searches failed. Its
phases are those of `_process_person`; all it found and the new record become
visible in `Mark`, written as a whole from the old copy. If that commit has to
be retried, what it found is rolled back (`RollBack`), the row is loaded again
(`Reload`) and the record alone is committed (`Remark`), unless the row was the
visit's own; the visit returns as done. `stored` and `answered` remember which
questions' results are in the graph and which were really answered, `forfeited`
those that a visit lost in this way. Queries of a silo are asked in order, so a
number per silo says which. `initial_weights` and `query_budget` are the
functions of `silo_weights.py`, in hundredths; the residual call's way back
from numbers to weights is the identity whenever one question out of `Full` is
not below the floor, as configured.

### Expansion

The controlling thread's `phase`, the `worker` state of every node of the hop
and what each `found`. `Collect` merges a node that is done and asks whether
to stop; leaving the pool with an exception waits for its threads (`Unwind`);
`IsRanked` allows any order among equals. `Cancel`, `Meet` (the other side has
found the route) and `Fill` (the graph is at its cap) come from outside at any
time. What searching a node yields is a constant.

### PairSearch and Connect

A *way* is a possible route: hidden until a page that states it is read, open
while it can be walked, closed when a hop was rejected, gone when a person on
it was pruned. `PairSearch` says which ways one search for a pair may open, as
functions of the pages: by classifier or keywords for the two themselves, by
the harvest for everybody else. `Connect` is `connect_people`: `stage` walks
known, direct, guess, origin, expand and wait, score and verify; the three
fronts run in threads of their own and stop on the shared event or on a look
at the graph; `resumed` and `adjudicated` make the two ways back happen once.
Meanwhile a user may cancel, other builds may find, reject and prune, and an
operator may reject; earlier builds may have left ways open or closed, with
either verdict. `Score` starts from an emptied session (`LoadGraph`), and
`Verify` judges by the verdicts that were loaded then (`loaded`), since the
session reads a row once; a row that was pruned meanwhile fails it
(`VerifyFails`). `paid`, `withdrawn` and `late` are history: a search was made;
somebody else took a way away; the routes of this scoring that were rejected
since it loaded the graph.

### Judging

`entity_filter.validate` and `relation_classifier.classify` as one shape: the
cache is read, what is open goes in batches, the first alone, the others in a
pool bounded by the process-wide slots; an authentication failure latches the
client off for everyone. `call_json` may fail in every way that returns
`None`, and an answer may leave items out. `Store` asks for each name again
whether the client is on, as the code does.

### Lookups

`Method` is a table: what each lookup asks, in order, whether a part is
needed, adds, or is an alternative, and what it caches afterwards (always,
only after an answer, only what was readable, never). A worker's `stack` is
its call stack down to a request, browser, engine or model. `born` and
`blamed` are the days of the oldest part and the oldest failure in an answer;
they age in the caches. Time is in days, passes between lookups, and ends at
`LastDay`; lasting failures are bounded by `MaxFailures`.

## 3. What the passing runs show

| Run | Instance | States | Properties |
|---|---|---|---|
| `build_queue` | 3 interactive and 2 background tickets, capacity 2, 2 places, reservation asked 2 | 501 | `SlotsAccounted`, `WithinLimits`, `FairOrder`, `ImplementsSlotPool`, `InteractiveServed`, `BackgroundServed` |
| `build_jobs` | a connect job, a search job, a background ticket, capacity 2 with 1 reserved, 1 place | 128 501 | `NoTicketAbandoned`, `CancelHonoured`, `WorkerListed`, `ExitSettles`, `NeverGoesBack`, `EveryJobEnds` |
| `enrichment` | 2 org sweeps, 2 attempts, 2 slots, 2 executors, or one beside 2 interactive builds, 1 mishap | 963 611 | `TicketsFollowExecutors`, `DoneMeansSettled`, `SettledStays`, `ExecutorEnds` |
| `search` | 2 workers, 1 query, 1 metered provider with Wikipedia and DuckDuckGo, quota 2, threshold 1, 2 endpoints | 1 716 709 | `QuotaBounded`, `RefusalHeeded`, `RepeatsBounded` |
| `routes` | all graphs of 5 people over 6 pairs with 4 kinds of tie, 3 hops, 2 routes, an organisation-shaped person | 140 080 | `CheapestRoutes`, `ExistenceAgrees` |
| `store` | 2 workers with overlapping batches of 4 and 3, 2 people and a tie stored before, a prune of 3 people, one retry of each kind | 101 483 | `NoDanglingEdge`, `OwnWorkStays`, `StoreSettles` |
| `verdict` | 2 sessions, every kind and tier of edge | 185 388 | `NoMeansClosed`, `HiddenOnlyByJudgement` |
| `node` | 3 walks with different weights and contexts, 2 silos, 1 retry | 478 132 | `CoverageEarned`, `WantsMet` |
| `expansion` | 4 people, 3 hops, 2 threads, a beam of 2, 1 retry | 55 298 | `NoOrphans`, `CancelWins`, `WalkEnds` |
| `connect` | 1 bogus and 1 genuine way, 2 kinds of page, any past of the bogus way, depth 2, 2 contacts, 1 guess, 1 notable end | 950 787 | `NoBlindNo`, `ShowsNothingDisproved`, `BuildEnds` |
| `judging` | 2 filters and a classifier, 4 items, batches of 1, 2 slots | 124 547 | `OnlyJudged`, `BrokenKeyCostsOneCall`, `JudgingEnds` |
| `lookups` | 2 visits, 10 topics, 4 days, lifetimes of a day or two, 1 slot, 1 lasting failure | 770 200 | `FreshEnough`, `OutageForgotten`, `LookupsEnd` |

*build_queue.* The queue keeps its books under every interleaving of releases
of either kind, respects capacity, admission and reservation, lets a ticket be
overtaken only when the reservation holds it back, implements the abstract
pool, serves every interactive ticket that stays, and background tickets once
interactive traffic stops, although the configuration asks to reserve every
slot. Five tickets are one more than can be outstanding, so refusal happens.

*build_jobs.* However a worker ends, its ticket is gone; a cancelled build is
never shown as done or failed; what a client polls never goes back; the sweep
spares jobs at work; an exited job shows its outcome and its spend; every
admitted job exits. Two jobs and a background ticket are the least with which
a job waits behind both classes and a window is shared.

*enrichment.* Pauses and starts put two executors on one run. Paid work still
happens only outside the reserved slots, each in a slot of its own; a ticket
is left in line only by a fault; a settled task is touched only if both had it
in hand; done strands nothing if the last start was not an overlap. An
executor ends once interactive builds stop coming, through pauses, failed
tasks, crashes and faults, unless a fault left a ticket in line, where
nobody acquires for it any more and nobody behind it starts while it could.
Two tasks give an order, two attempts a last one, one mishap a crash or a
fault at any step, and two interactive builds fill the queue, so that an
executor is refused a ticket. `Company` bounds the instance: interactive
builds come beside one executor, which started alone. No step with a fairness
condition leaves that bound (an executor's steps put none to work, and
acquiring or giving back a slot brings no build), so what ends ends in the
system too, as far as the bound goes. What a contact adds, an empty probe, is
one more way to settle; refutations and proofs have it.

*search.* The quota is overrun by at most the workers that had passed the test
together, across restarts too; after a refusal was read at most the other
workers' requests under way still go out (`late` counts them); a cached query
is sent only by workers that had found it missing before (`repeats`). Two
workers are the least for a race and give overrun exactly one; a quota of
two leaves room for requests after a refusal and still comes to its end; a
route through all three kinds of provider lets each fall through to the next.

*routes.* Under a limit on hops a cheap detour may arrive too late to go on, so
the cheapest path needs a memo by person *and* distance; each further route is
the cheapest that avoids the bridges of those before, and comes whenever there
is one. The free test that lets a build skip its paid search says yes exactly
if a route comes out. Five people are the least with a detour that is cheaper
and longer than the limit allows next to an alternative.

*store.* Two batches that share two people in opposite order deadlock with
each other, and with a prune that wants a row one of them links to; cycles of
two and of three transactions occur. The graph holds a tie that one batch
finds again and the prune deletes, so that changes of deleted rows are sent
with a savepoint and with a final commit, and final commits are retried. No
edge loses an end, no statement that loses a race takes the rest of its
transaction along, and everything settles. What a retried final commit loses is
in section 4.

*verdict.* A verification that says no leaves the row rejected, although the
row changed since it was loaded; and no write from an old copy, failed call
or late extraction closes a tie. Two sessions are the least for a stale copy.

*node.* Visits overlap, fail, are redone, and overwrite the record from stale
copies: an update may be lost, but the record never claims a question that was
not asked for it, and who is done lacks none of what it wanted, except the
results that a final commit lost when it was retried. Three walks give two
in one context and one in another, so that contexts alternate under a copy.

*expansion.* Whatever is cancelled, stopped, retried or failed, no thread
outlives the call, a cancel is not swallowed on the way out, the walk ends.
The instance makes the evidence of two finders add up, a famous person lead
nowhere, the beam cut and a stop meet queued, running and finished nodes.

*connect.* A no was paid for, if it followed a verification and nobody took
routes away; nothing is shown as verified that this build disproved or whose
rejection, whoever made it, was stored when the scoring loaded the graph, also
if a later page opened the edge again; the single resume and the single
adjudication make the build end although other builds keep changing the
graph. A rejection that comes between the load and the answer is not noticed,
since the verification reads the copies that were loaded. The bogus way makes
the shortcut fail, the genuine one lets any stage answer.

*judging.* With batches of one, three batches can be refused, answered or
lost in any order around the latch: no name is dropped and no tie labelled
without a verdict, only verdicts are cached, and a broken key costs each
caller one call.

*lookups.* An answer is at most as old as the lifetimes of the caches it came
through, added up, and so is the failure behind one, where caches that refuse
failures count as nothing; and every lookup comes back, through retries,
lasting failures and a browser that hangs. One slot makes everybody wait for
everybody. Wikis and searches are cached for two days, pages and headcounts
for one, so that a lookup through two caches may return what is two days old,
and the last day, 3, is one more. Six topics are asked often enough to get there:
if a cache that is read counted as new again, `coauthors_enrichment`,
`appearances` and `rounds_for_firm` would break their bounds through a cache
above a cache, and the flat `officers`, `insiders` and `board_members` theirs.

Bounds: tickets, jobs, executors, workers, people and queries are finite sets
of model values; `MaxSides` bounds simultaneous reports of one build,
`MaxMishaps` the crashes and faults of a behaviour, `Company` who meets whom in
`MCEnrichment`, `Full` the granularity of
progress (in `BuildJobs`) or the questions of a silo (in `NodeVisit`),
`MaxAsks`, `MaxFailures` and `LastDay` a behaviour of `Lookups`. `MaxAttempts`,
`Attempts`, `NodeRetries`, `InPlace`, `DeleteTries`, `Tries`, `MaxHops`,
`Depth` and `TopN` are the code's own limits. Nothing else is cut off:
`counter` is bounded by the property, not by a guard.

Fairness: worker threads, executors, pool threads and fronts are weakly fair
because the operating system schedules them and each of their steps ends
(requests have hard timeouts, waits poll). A database statement that can run
runs, and the server ends deadlocks, so `PruneStep` and each `WorkerStep` are
weakly fair. Acquire and the release of a held slot are weakly fair for
tickets of others, since a build that runs ends. Submitting, starting,
pausing, cancelling, meeting, finding, pruning, rejecting, revoking a key,
faults, crashes, ageing and expiry are never obliged to happen. `RouteSearch`,
`EdgeVerdict` and `NodeVisit` state no liveness and assume no fairness.

## 4. Where the code and its documentation disagree

Some statements of the repository's documentation are not kept by the code.
For each there is a configuration beside those of the passing runs, with the
statement as a property; TLC reports it violated. Three configurations have two
such statements: TLC stops at the one it meets first, and each is violated also
when it is checked alone.

| Configuration | Property | The statement, and what the code does |
|---|---|---|
| `MCBuildUsage` | `ExactMeansAlone` | Spend is "exact" if no other build ran. A window closed after the slot was given back undercounts the others by one. |
| `MCEnrichmentResume` | `SettledForGood` | A restart picks up "rather than re-paying for the first half". Pause and start between two reads of the run's state put two executors on one run, and a task is done twice. |
| `MCEnrichmentMishap` | `PausedIsResumable` | A run can resume after a restart. A task left `enriching` by a crash is never selected again. |
| `MCEnrichmentMishap` | `NothingLeftInLine` | "The caller's finally-block releases the ticket". A database error while waiting in line leaves a dead ticket. |
| `MCSearchBreaker` | `TrialInFlight` | One trial after the cooldown closes the breaker. Asking whether DuckDuckGo is available takes the trial that nobody then makes. |
| `MCSearchNegative` | `FailuresNotCached` | Failures are not cached. A failed search is cached as empty. |
| `MCRouteSearchReach` | `WithinReach` | "Everyone reachable within `depth` hops". `discover_person` remembers people without their distance, so a cheap long way hides a short one. |
| `MCRouteSearchDiverse` | `GenuinelyDifferent` | Further routes are "genuinely different". A direct route has no bridges to avoid and is found again. |
| `MCExpansionOffer` | `EveryHopOffers` | The frontier is offered "before any of the exits below can end the walk". Only the path of a single node does; the pool's does not. |
| `MCGraphStoreRetry` | `RedoIsClean` | The per-node deletes "skip/redo cleanly". After a deadlock the redo expunges people that are expunged already, and fails. |
| `MCGraphStoreRetry` | `MarkedIsStored` | "Either way, re-applying these two fields on retry is correct and cheap". A final commit that meets a deadlock or a deleted row has lost the node's people and edges, and its retry commits the mark alone. |
| `MCNodeVisitCoverage` | `CoverageStored` | Stored neighbours are reused "only for the silos this budget actually covered". After such a retry the record covers silos whose results are not stored, and later visits skip them. |
| `MCNodeVisitCoverage` | `CoverageAnswered` | Coverage does not claim questions that were not asked. A search that raised counts as asked and answered. |
| `MCEdgeVerdictOperator` | `OperatorStands` | An operator's rejections are "permanent". A later extraction derives the status anew, and a verification under way overwrites the verdict. |
| `MCJudgingLatch` | `LatchHolds` | A refused credential latches the client off "for the rest of the process". A thread that read the latch as unset turns it on again. |

The passing runs say what still holds: `enrichment` excepts exactly the
tickets a fault left in line, the tasks two executors had in hand and the
starts that overlapped; `node` the questions forfeited by a retried commit;
`judging` holds unless the latch was reopened, `verdict` for the one step that
closes an edge.

## 5. What is proved

Each theorem holds for every value of the constants that satisfies the
module's named assumption. An invariant is proved from a strengthening that is
shown to hold initially and to survive each action; it is named here with the
reason why the property needs it.

`BuildQueue_proofs` (`BuildQueueAssumption`: the arguments are integers and
background tickets are tickets; nothing about their size):

- `TypeCorrect`, `SlotsNeverLeakOrDouble`, `LimitsHold`: the invariants of the
  queue, from `IInv == TypeOK /\ SlotsAccounted /\ WithinLimits`. None of the
  three is inductive alone: that `running` stays a natural number after a
  release needs `running = Cardinality(acquired)`; the background share needs
  both that and the test of `Acquire` on the shared counter; admission needs
  that the line has no duplicates, so that its length is a number of tickets.
- `OrderIsFair`: the action property `FairOrder`, from `IInv` at each step.
- `QueueImplementsPool`: the refinement `ImplementsSlotPool`. Initial states map
  to initial states and each action to `Admit`, `Grant`, `Leave` or a stutter
  (the second release of a ticket); `PoolCounts` relates the counter and the
  length of the line to the cardinalities the pool speaks of.

`BuildJobs_proofs` (`BuildJobsAssumption`: search jobs are jobs, the two bounds
are positive):

- `JobsAreClients`: every step of the jobs is a step of the queue or leaves it
  alone, so what `BuildQueue_proofs` says holds of the builds.
- `TicketsAreReturned`, `CancelIsHonoured`, `WorkersAreListed`, `ExitsSettle`
  and the types `JobsAreTyped`: the invariants of the run, from `JInv`. It adds
  to the queue's `IInv` where the ticket is at each point of the worker
  (`TicketFits`) and what the record may show there (`RecordFits`). The parts
  need one another: that the sweep spares a job at work needs that an old
  record of one is running or cancelling, which needs what each point of the
  worker does to the status; that an exited job agrees with its cancellation
  needs that a worker on the cancelled path saw a cancel; that its spend is
  shown needs that it accounts only if it opened its window, and that the
  number of other builds is never the mark for none, which is the queue's type.
- `PollsNeverGoBack`: the action property `NeverGoesBack`. Each action has one
  lemma that gives the invariant and the step together (`StepFits`), and
  `LedgerMoves` says that a step of one job leaves the others alone.

`Enrichment_proofs` (`EnrichmentAssumption`; nothing is assumed of the operator
or of the database):

- `RunIsTyped`: the types, across crashes and overlapping executors. That the
  attempts counted for a task never exceed `MaxAttempts` is part of them, and
  needs `Holdings`: an executor that has chosen a task and not begun it read a row
  with attempts left, and writes what it read plus one. (Two executors that both
  read it write the same number.)
- `TicketsFollow`: `TicketsFollowExecutors`, from `Tickets`, which says at each
  point of the loop whether the executor's ticket waits, holds or is gone; one
  left in line by a fault belongs to an executor that has ended or is about to.
- `SettledTasksStay`: the action property `SettledStays`, for any number of
  executors, from `Contests`: who has in hand a task that another has too, or
  one that is settled, has a task in `contested`. Neither half is inductive
  alone: a task becomes settled under an executor only when another that had it
  commits. That who picks a task picks one that is not settled is
  `NextTaskIsOpen`, by the least element of a set of naturals.
- `DoneIsSettled`: `DoneMeansSettled`, from `Solitude`: since a start that found
  nobody at work, one executor is at work at most, and what it counted as
  finished stays finished until it writes the run's state. A start by itself
  begins such a period, whatever overlaps lie before it.

`Search_proofs` (`SearchAssumption`: the workers are finitely many and not none):

- `SearchTypeCorrect`: the type invariant, which is inductive.
- `QuotaHolds`: `QuotaBounded`. The counter alone says nothing of the requests
  that will still be counted, so the invariant is strengthened to `Budgeted`:
  the counter plus the workers past the test that have not been counted
  (`InFlight`) is at most the quota plus the workers less one. `CheckKeeps` is
  the step that matters: a worker passes only below the quota, and then even
  all workers in flight stay within the bound.
- `RefusalIsHeeded`: `RefusalHeeded`, of the search with its histories. Again
  what came late is added to what is under way (`LateBounded`): after a refusal
  their sum no longer grows (`FlightOnlyLands`), since a provider that is
  exhausted stays so until the restart.
- `RepeatsAreBounded`: `RepeatsBounded`, likewise from `RepeatBounded`, about the
  workers that have found an entry missing and have not sent yet (`Missed`);
  nobody joins them while it is cached. `HistoryRefinesSearch` says that the
  histories add no behaviour.

`Graph_proofs` (`StoreAssumption`: finite sets of workers and people, any
batches, any ties stored before and any junk; `ExpansionAssumption`):

- `StoreIsSound`: `IInv == Typed /\ NoDanglingEdge /\ LinksHold /\
  SubjectHolds /\ PruneHolds`. `NoDanglingEdge` speaks of committed edges
  only, so it needs to be known what a commit will add and what the prune's
  commit will take away: `LinksHold` (the ends of edges not yet committed are
  rows their worker sees and the prune has not deleted, which is what foreign
  keys and row locks give) and `PruneHolds` (what is deleted was stored, and
  every edge to it is cut, as the delete is refused otherwise). `SubjectHolds`
  follows a worker's subject from its first statement to its final commit, up to
  rows the prune has deleted, which are junk (`stale`).
- `EdgesHaveEnds` and `OwnWorkIsKept`: `NoDanglingEdge` and `OwnWorkStays`.
  The lemmas are shared between actions: `WorkerGoesOn` for steps that keep
  what the worker holds, `WorkerLetsGo` for every way to lose everything,
  `PruneMoves` for the prune; each action then has one lemma.
- `NothingIsOrphaned`: `NoOrphans` of the expansion, from `PoolHolds`. That no
  thread is at work when the call has ended needs that none is outside the two
  phases in which the controlling thread is inside the pool's block, and that a
  walk that stops has emptied the queue before it collects.
- `WalkStaysInBounds`: `WalkBounds`, the numbers of the type invariant: threads
  at work, attempts per node, hops, and that nobody is searched in two hops.
  The bound on threads is one on a cardinality and needs `NoneJoins` and
  `OneJoins` for how a step changes the set of those at work.

`Verdicts_proofs` (`VerdictAssumption` only says that `None` is no row;
`JudgingAssumption`: no caller asks
for an item twice, a batch holds at least one):

- `VerdictsAreSound`: `IInv`, which adds to the types what a session at work
  may rely on (`Sound`): a verdict it saw is still one, and it verifies only
  edges that were open when loaded. The second is what matters: as the copy's
  status was not rejected, a no differs from the copy, and is written.
- `NoClosesTheEdge`, `OnlyJudgementHides`: the two action properties, from
  `IInv` and `WriteFields`, which says field by field what `Write` does.
- `OnlyTheJudgedAreTurnedAway`: `OnlyJudged`. Its invariant `JInv` is a line per
  caller, as in the jobs. The half about tying labels is what it says
  (`Trusted`). The half about dropped names is not, since a filter drops what is
  in no answer: every name it asked is kept, or was called junk, or is still in
  a batch that has not been applied (`Accounted`). So the batches must cover the
  list (`Sliced`, by `Division`), and only a latch that is down excuses gaps.
- `OneCallFindsTheBrokenKey`: `BrokenKeyCostsOneCall`, from `FirstAlone` (the
  others are held until the first is applied) and `Broken` (a refused first
  batch has latched the client off and leaves the others held). Both theorems
  hold unless the latch was reopened, which `MCJudgingLatch.cfg` shows it can be.

`Visits_proofs` (`VisitAssumption`: any walks, silos, contexts and signals;
`LookupsAssumption`: the four lifetimes are at least a day):

- `RecordIsInductive`: the record and every copy of it, also the one loaded for
  a mark that is redone, claim only questions whose results are stored or were
  forfeited (`CoverageEarned`, `CopyEarned`), and a visit asks for exactly what
  its copy lacks (`AsksWhatIsMissing`). Copies matter because a record is
  written from one, long after it was loaded; it works since results that were
  committed are never taken back.
- `CoverageIsEarned` and `WantsAreMet`, with `WantedIsCoveredOrAsked`,
  `MergeClaimsNoMore` and `AllowanceIsBudget` (no silo is given more questions
  than it has, whatever the weights) as the lemmas about the arithmetic.
- `AnswersAreFresh` and `OutagesAreForgotten`: `FreshEnough` and
  `OutageForgotten`, for any threads, any lifetimes and any number of days, from
  `LInv`. It bounds the age of what lies in every cache, counted from when the
  entry was written (`EntryHolds`), and of what every frame of every call stack
  has gathered so far (`FrameFits`), by the longest way below it in the table.
  The stack has to be a chain of calls (`StackFits`), so that what is returned
  is one of the parts the caller's bound allows for. The two bounds are defined
  recursively over the table of lookups. That such functions exist is part of
  the proof: every method asks only methods of a lower level (`TableFits`), four
  rounds from any start therefore agree with a fifth (`LevelSettles`,
  `FixedPointExists`), and the greatest of finitely many numbers exists by a
  minimal counterexample (`GreatestExists`).

`Connect_proofs` (`ConnectAssumption`: any ways, any pages, any evidence;
`RouteSearchAssumption`: finitely many edges between two people, costs and
confidences that are not negative, as a logarithm of a confidence up to 1 is):

- `BuildIsTyped`: the type invariant, with `FrontsFit` (no front is at work
  unless the build waits for it) and `ScoringFits` (never more shown than may
  be).
- `NoIsNotBlind`: `NoBlindNo`. A no is one step, but why it was not premature lies
  in the stages before: `UnpaidFits` follows a build that has not paid yet from
  the shortcut to verification, where a route existed unless others withdrew
  it, and back by its one resume to the search that costs.
- `NothingDisprovedIsShown`: `ShowsNothingDisproved`, from `KeptStands`: what was
  kept while verifying was not rejected when it was loaded, and was not by this
  build, so that a rejection now stored came since, and is in `late`. Of a route
  still to be judged, a stored rejection was loaded, or is in `late`.

- `RoutesAreCheapest`: `CheapestRoutes`, for every graph. The invariant `RInv` has
  three parts. What lies in the heap is a walk at its cost that the search may
  take (`EntryFits`). Every remembered state, a person at a distance, is still
  in the heap or has been followed: all that is one step further is remembered
  at no more than this way costs (`Books`). And the routes so far are right and
  are what is excluded (`RoutesFit`). From `Books`, the heap always has an entry
  that costs no more and is no longer than any given way (`FrontierReaches`), so
  what leaves it for the target is the cheapest and, among those, the shortest.
  Nothing in the code forbids a walk from visiting somebody twice; that a route
  never does follows as a loop would make it longer and no cheaper
  (`LoopsCost`, `ArrivalIsSimple`). `Books` needs the memo to be keyed by person
  *and* distance; with the person alone a state could be followed too late.
- `FreeTestAgrees`: `ExistenceAgrees`. A route is found by the waves
  (`WavesFollowRoutes`); conversely, when the heap is empty without a route, the
  search has been wherever the waves are, and not at the target
  (`SearchFollowsWaves`).
- `RoutesAreTyped`: the type invariant, of all three searches.

Sums along a path and waves are recursive functions. What they compute is
proved without induction rules: the least number at which a statement fails is
picked (`LeastExists`) and shown not to be one; `IteratesExist` and
`IteratesAgree` give existence and uniqueness of what is defined step by step.

Only model-checked, and why:

- Liveness and leads-to, which are out of the prover's reach: `InteractiveServed`,
  `BackgroundServed`, `EveryJobEnds`, `ExecutorEnds`, `StoreSettles`, `CancelWins`,
  `WalkEnds`, `BuildEnds`, `JudgingEnds`, `LookupsEnd`.
- The refutations of section 4, which are about single behaviours.

## 6. Not modelled

- Text: names and their normal forms, disambiguation scores, prompts, page and
  feed parsing. Their outcomes are inputs of the models.
- How edges are assembled from pages inside one search of a visit; which of
  several fields wins when two sources describe one person.
- Network import, matching, cliques and the ranking of contacts: sequential
  functions over text and counts.
- Planning a second enrichment run while one is active, and the budget of a
  run (abstracted to stopping after any task).
- The flush of the usage ledger, rate limiters (they only delay), the API's
  token buckets, statistics, the month's rollover, SQLite's own lock retries.
- Snapshots, silo templates, configuration, command line, browser client,
  scripts: input and output without shared state.
- Code that nothing calls: `wikipedia.links`, `wikidata.humans_from_titles`,
  `firms.find_team_page` and `roster_for_firm`, `podcasts.episodes`,
  `funding.round_for_company`.

## 7. Plan

1. *Done:* queue, jobs, enrichment, search; graph store, edge verdicts, visits,
   expansion, connect, route search, judgements, lookups; proofs of every
   invariant and action property the runs check.
2. The order in which a search leaves its heap (costs never fall) for the other
   two modes, and what `paths` can promise of the route it finds.
3. `Ranking`: the ranking order and the cliques as operators against reference
   definitions over small inputs.
4. Planning of enrichment runs with two operators; the API's token buckets
   and their bounded table.

## 8. Running it

    tlc -workers 2 -config MCBuildQueue.cfg MCBuildQueue
    tlc -workers 2 -config MCSearchBreaker.cfg MCSearch
    tlc -workers 2 -config MCEnrichmentMishap.cfg Enrichment
    tlapm Graph_proofs.tla

The configurations `MCEnrichmentMishap`, `MCEnrichmentResume` and `MCEdgeVerdict*`
belong to `Enrichment` and `EdgeVerdict`, which they instantiate directly; every
other `MCXy.cfg` belongs to the `MC` module whose name is its prefix, as
`MCSearchBreaker` to `MCSearch`. The longest runs take three to four minutes; the proof
modules take up to a few minutes each.
