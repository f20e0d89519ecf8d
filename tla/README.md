# AIDSS in TLA+

A model of the AI Decision Support System in `src/`: the job queue, the workers
and the scheduler, and the handlers and requests that ingest, analyse, alert,
index, scan and keep a user's data. TLC checks the modules on small instances;
TLAPS proves their safety properties and refinements for every value of the constants. Paths below
are relative to the repository root unless they start with `aidss/`, which is
`src/aidss/`.

1. [The system](#1-the-system)
2. [What is modelled, and how it corresponds to the code](#2-what-is-modelled)
3. [What the runs check](#3-what-the-runs-check)
4. [Where code and documentation part](#4-findings)
5. [What is proved](#5-what-is-proved)
6. [What is not modelled](#6-what-is-not-modelled)
7. [Plan](#7-plan)

To check: `tlc -config Platform.cfg MCPlatform.tla`, and in the same way
for the other `.cfg` files (`PROJECT.json` names the module of each). To prove:
`tlapm M.tla` for each of the eight modules whose names end in `_proofs`.

## 1. The system

A FastAPI application, one or more job workers and one or more schedulers share
one PostgreSQL database. Nothing else connects them: the API queues jobs and reads
rows, workers write rows and `NOTIFY`, and the web client polls or listens.

| Component | State it keeps | Operations | Talks to |
|---|---|---|---|
| job queue (`aidss/jobs/queue.py`) | table `job_queue`: status, retry count, available_at, locked_at/by, dedup_key | enqueue, claim, complete, fail, defer, reclaim_abandoned | every component that queues; workers |
| worker loop (`aidss/jobs/worker.py`, `__main__.py`) | its session, the job in hand, a stop flag | run_once, run_forever, stop | queue, handlers |
| scheduler and lease (`worker.py`, `leader.py`) | table `leader_leases`; was-leader and stop flags | tick, acquire, release | queue, every schedule |
| provider allowance (`quota.py`) | table `provider_quota_usage`: calls per provider and UTC day | reserve, reserve_durably | fundamentals handler |
| cron-driven jobs (`handlers.py`, `platform/settings.py`) | rows of `scheduler_jobs`, of `platform_settings` | anchor, queue when due, fetch by hand, backfill | scheduler, admin API, queue |
| news schedules (`news/collector.py`) | rows of `ticker_news_schedules`: due time, window, failures, flag | pass, run by job, run by hand | scheduler, workers, API, feed reader |
| feed reader (`plugins/adapters/news_rss.py`) | rows of `news_sources`: status, failures; a cache per process | read, count, deactivate, probe, edit | news schedules, sweep |
| news pipeline (`news/`, `monitoring/agenda.py`) | news items, their issuers, agenda entries | sweep, tag, backfill, extract dates, notify | feed reader, alerts |
| price ingestion (`collectors/`, `indicators/`) | bars, indicators, features, ingestion runs | fetch, validate, upsert, compute | providers |
| fundamentals pacing (`handlers.py`) | fundamental metrics and their age | pick the stalest, queue, refresh, put off | allowance, queue |
| monitoring (`monitoring/poller.py`, `alerts.py`, `signals.py`) | quotes, alerts | poll, evaluate, record, announce | price ingestion, recommendations |
| market scan (`monitoring/scan.py`, `screener/`) | session records, scan rows | import, plan, scan a chunk, screen | queue |
| analysis (`agents/engine.py`) | results, snapshots, renderings | analyse, store, recommend, translate | gateway, queue |
| recommendations (`recommendations/`) | recommendations with levels | calibrate, check, retry, derive, read | analysis, monitoring |
| LLM gateway (`llm/`, `agents/base.py`) | rate-limit window, breaker state, cost rows | route, limit, retry, break, fall back | model providers |
| retrieval index (`rag/`) | documents and chunks | chunk, embed, index, search | embeddings endpoint |
| realtime events (`realtime/`) | per-subscriber bounded queues | publish, listen, reconnect, deliver | PostgreSQL LISTEN/NOTIFY |
| portfolio, journal, conversation (`portfolio/`, `api/routes/`) | holdings, journal entries, preferences | edit, weigh, simulate, ask | gateway |
| watchlists (`api/routes/watchlist.py`) | categories and items | create, rename, delete, add, move, remove | monitoring |
| accounts, sharing, admin (`security/`, `collab/`, `api/routes/`) | users, roles, blocks, share links | register, promote, block, delete, share, revoke | API |

What is hard in it, and what makes each part correct:

- **The queue.** Workers race for a row; a worker dies holding one; a second one
  may be given a job the first still executes; the outcome and the handler's
  own writes must be one commit; a shutdown lands anywhere. Correct means: one
  executor per job, work committed exactly with its success, retries charged for
  failures only, no job lost.
- **The lease.** Several schedulers, passes that outlast the lease, first
  claims at once, processes that stop in the middle of a sleep. Correct means: one scheduler
  queues at a time, no due time is skipped or queued twice, a dead leader is
  replaced.
- **The allowance.** Statements of several reservations interleave; a crash
  after the request has been sent must not give the call back. Correct means: never over
  the limit, never uncounted.
- **Schedules and feeds.** A row that the scheduler, several runs and an operator write
  from copies of different ages. Correct means: no gap in what was collected, no
  schedule that stands still, a flag and a count that say what they should.
- **Monitoring.** The quote and the alerts it gives rise to share a transaction
  that a lost dedup key rolls back in the middle. Correct means: no crossing is
  lost, what is told is an event and not a state.
- **Derived data.** Indicators of prices, dates of articles, scores of evidence,
  chunks of documents, rows of a scan. Correct means: they follow from what is stored now,
  whoever wrote in between, and say no more than it.
- **Shared counters and buffers** (breaker, limiter, event queues, a day's quota).
  Correct means: the newest event and every question get through, a provider that is
  down is left alone, nobody starves.
- **A user's own data.** Two requests of one user, read-then-write, with
  unique keys as the only guard. Correct means: what was acknowledged is kept,
  and nothing personal leaves the house.

`PROJECT.json` lists each hazard at its line, with the property that covers it
or the reason why none does.

## 2. What is modelled

| Module | What it models | Checked in | Proved in |
|---|---|---|---|
| `JobLifecycle` | abstract: the life of a job as its submitter sees it | `JobQueueSafety` | `JobQueue_proofs` |
| `JobQueue` | queue, workers, reclaim | `JobQueueSafety`, `Processes`, `JobQueueRollback` | `JobQueue_proofs` |
| `SchedulerLease` | lease, scheduler pass, hosting process | `Processes`, `SchedulerLeaseDaemon` | `SchedulerLease_proofs` |
| `LoneScheduler` | abstract: one scheduler that never fails | `Processes` | `SchedulerLease_proofs` |
| `DailyAllowance` | abstract: a day's calls, given out whole | `Schedules` | `ProviderQuota_proofs` |
| `ProviderQuota` | allowance and the refresh that spends it | `Schedules` | `ProviderQuota_proofs` |
| `NewsSchedule` | one ticker's schedule, its passes and runs | `Schedules`, `NewsScheduleStuck` | `Schedules_proofs` |
| `CronJob` | the cron-driven jobs: news sweep, session record | `Schedules` (the sweep), `Providers` (the session record) | `Schedules_proofs` |
| `LlmGateway` | one question to a model: routing, limiter, retries, breaker, fallback | `Providers` | `Providers_proofs` |
| `FundamentalsPacing` | which assets a day's allowance goes to | `Providers` | |
| `EventHub` | publish, listen, fan out, reconnect, sockets | `Providers` | `Providers_proofs` |
| `MonitoringPass` | passes over watched assets, storing and announcing alerts | `Platform` | `Advice_proofs` |
| `AlertRules` | which conditions a quote or a bar meets | `Platform` | `Advice_proofs` |
| `Recommendation` | evidence, confidence, rules, levels, readings | `Platform`, `StopAlert` | `Advice_proofs` |
| `AnalysisRun` | one analysis, its commits, its translations | `Platform` | `Advice_proofs` |
| `Accounts` | accounts, roles, blocks, sharing | `Platform`, `Administrators` | `People_proofs` |
| `NewsPipeline` | sweep, tagging, backfill, dates, notices | `Platform` | `Market_proofs` |
| `FeedReader` | news sources, cache, readings, deactivation | `Schedules`, `FeedOutage` | `Providers_proofs` |
| `KnowledgeIndex` | chunking, embedding, search, fusion | `Platform` | `Market_proofs` |
| `MarketScan` | session records, scan chunks, screen | `Platform`, `ScanAfterImport` | `Market_proofs` |
| `Portfolio` | holdings, figures, simulation, what models are sent | `Platform` | `Market_proofs` |
| `Watchlist` | categories and items under requests at once | `Platform` | `People_proofs` |
| `PriceHistory` | ingestion, validation, indicators, features | `Platform` | `Market_proofs` |

`JobQueue` is shown to implement `JobLifecycle`, `SchedulerLease` `LoneScheduler` and `ProviderQuota`
`DailyAllowance`: each abstract module is what a caller of that code may rely on, with no process,
lease, statement or clock in it. The other modules build on what
`JobLifecycle` promises (a queued job is held by one worker and ends once) and so keep
a queue as a set of jobs or a function from dedup keys to a status, and a handler
as one transaction that commits, rolls back or dies.

A definition whose comment begins with "Mutant" alters the one after it by a
plausible mistake in that code, so that each property can be seen to fail on
one. No specification uses them; `PROJECT.json` says which property each breaks. Every
module states a type invariant where its state is not plain from `Init`; of these
`JobQueue.TypeOK` is among the runs' properties; those of `JobQueue`, `SchedulerLease`,
`ProviderQuota`, `NewsSchedule`, `CronJob` and `EventHub` are theorems, and the others are part of
the inductive invariants of section 5.

### JobQueue

One row per job, one worker per process. A worker's position `pc` follows
`Worker.run_once`:

| pc | Where in the code |
|---|---|
| `idle` | the loop of `run_forever` |
| `picked` | in `queue.claim`, between its SELECT and its UPDATE |
| `claimed` | claim committed, the second session not yet opened |
| `working` | `session.get` done, handler running |
| `recovering` | the first session rolled back, `_record_unexpected_failure` not yet committed |
| `down` | no process |

Two details carry the difficult part. *The ORM writes a difference*: the worker's
session loads the row once (`seen`) and its flush names only the columns that
differ from that copy, so an attempt that outlived its lock mixes its outcome
with whatever is in the row by then (`Flushed`). *Two dialects*: with
`SkipLocked` the SELECT holds a row lock until the claim commits; without, only the
guarded UPDATE separates two workers.

A handler is what the queue can see of it: it writes some of its work, then all
of it, and ends by returning, by one of the three handled exceptions, or by any
other. `applied` and `leftover` record what of that work was committed. A
`DatabaseError` stands for any statement or commit of the worker that fails; one
that hits the final commit leaves the row RUNNING until a reclaim.

Time is relative (`wait`, `age`, `ran`), so a behaviour is not cut off by a
clock running out and liveness can be checked on the whole state graph. All
processes share one clock.

### SchedulerLease

A pass of `Scheduler.tick` is one transaction. The statement that takes or renews the
lease writes its row (`wrote`), and another scheduler's UPDATE waits for it:
the row lock, not the expiry, is what keeps a pass that outlasts its lease alone.
`lag` is how long ago the pass read the clock, since lease and due times are computed
from that reading. One schedule, with numbered due times, stands for what a pass queues.
`Collide` is `queue.enqueue` losing a dedup key: its `session.rollback()` takes
the whole pass with it, including the lease, and the pass carries on. Only the last
enqueue of a pass shares its key with a writer outside the lease, which is
where `Collide` is placed. `Daemons` are schedulers on the daemon thread of a worker
process, which `__main__.py` starts beside the worker's loop; their process may
end wherever the thread is.

`LoneScheduler` has the due time and the queued keys only. `Serve` queues what is due and moves the due
time past its reading of the clock; nothing is elected, nothing fails. That the passes of
`SchedulerLease` are such steps (`Lone`, the identity on `due` and `keys`) says that elections,
crashes, lost keys and handovers are invisible to whoever waits for a due time.

### ProviderQuota

`reserve` statement by statement at READ COMMITTED: the conditional UPDATE, the
SELECT after it matched nothing, the first INSERT, the UPDATE again after a lost
INSERT, the commit of `reserve_durably`. A statement sees what is committed when
it starts and waits for a row another open transaction has written. `count` is
always 1, the only value a caller passes. The handler's two readings of the
clock, one in the reservation and one in `next_reset`, are two steps. The route by which a user
ingests an asset's fundamentals at once asks the provider without a reservation
(`aidss/api/routes/assets.py`); the allowance speaks of the refreshes that jobs run.

`DailyAllowance` grants a day's calls one by one while there are any, and each grant is used for one call or
wasted by a crash. In the mapping (`Allowance`) a grant is what the committed row says, and a refresh holds one
from the commit of its reservation (`Holding`) to its request: an uncommitted statement is invisible, and a call without a
grant is impossible.

### NewsSchedule

The row of one ticker's schedule; the scheduler's pass, which reads it and commits later; and
runs, by job or by the run-now endpoint, which load it, read the clock once,
fetch, and write back the columns they changed. A job is named by the due time
in its dedup key. `covered` is the set of instants whose articles are stored. A
run that fails with the provider's error is written and committed; anything else
rolls back. The cron expression is a fixed period. Not included: deleting or
deactivating a schedule, the articles themselves, sentiment and indexing.

### CronJob

`enqueue_due_news_sweep` and `enqueue_daily_trading_summary` have one shape and
differ in the dedup key, the due time for the one and the date for the other
(`KeyedByDate`). A cron expression is an hour that fires on every weekday; hours
and dates are UTC, in which the code computes the date of the key. A session's record is
`Published` from some hour on, never on a `Closed` day; an import of an
unpublished date succeeds with nothing, as the handler does. The random jitter
the code adds to `available_at` is left out: nothing here depends on when within
the hour an import runs. So is the branch for an expression that no longer parses, which
the settings endpoint refuses to store.

### LlmGateway

A question walks `call.phase`: routing, acquiring (the limiter), calling,
backoff, served. The router's chain is the providers that can serve the tier,
self-hosted only when the question is sensitive; the chain is kept as a set, of which the one asked
is always the most preferred (`Current`), as priorities are distinct. The breaker is
`circuit`, the limiter the ages of its `hits`; `requests` is what the provider itself
counts, retries included. `NewGateway` is another process, with fresh breakers:
a gateway lives in one process's memory. `lastFailed` is history, kept for
`DownProvidersRest`.

### FundamentalsPacing and EventHub

`FundamentalsPacing` keeps the age of each asset's figures and the order they
come in (`nulls first`, then oldest); a day is one step, in which the workers
have got through what was queued. `EventHub` numbers events by commit order;
`delay` and `waiting` are the listener's backoff; a socket is accepted,
authenticates and drains its queue, or does not.

### MonitoringPass and AlertRules

`MonitoringPass` has the passes, `AlertRules` the conditions. A pass polls asset
by asset within one transaction: `Observe` finds the candidates, `Known`,
`Unknown`, `Store` and `LoseKey` are `record` key by key, the last with the
rollback that takes the quotes and alerts before it along. A stored price is on one side
of a level or the other; `owed` is the history of crossings that were committed
over. Its assets have one level each, which stays. In `AlertRules` a condition is its dedup key, thresholds are integers in
percent or tenths, and indicator values are inputs. The support and resistance levels (`levels`) are found anew with every
bar that is stored or revised, as `_levels_and_volatility` computes them from the bars at each poll; which ones are found is
open in the module, and follows from the last bar in `Platform`. A quote keeps the levels it was compared
with, so that `CrossingsTold` can say which crossings are due: a level that quotes went through while it stood. A change of
stance is left out.

### Recommendation, AnalysisRun

`Recommendation` computes the confidence in tenths of a percent, exactly
as rounded, from every combination of evidence; an answer is what the rules
look at, and what is stored keeps the numbers of its supporting and conflicting factors; `extremes` are the quotes since. `AnalysisRun` runs the agents
in order; an agent ran, was skipped or failed. The job commits at its end, the
request commits on return, and either can die at any step; two sessions may render
one result at once, which writes its snapshot back as a whole.

### Accounts, Watchlist, Portfolio

A request reads and is allowed in one step and commits in another, and two of them
overlap. `Accounts` has the guard that counts, the shell that asks nothing, the
suspension that lapses, and shares between accounts. In `Watchlist`, `following` is what the
user was last told, `late` what another request did after a deletion had
read. In `Portfolio` a request reads a row and writes, at its commit, only the figures that differ from those it
read (`Alters`, `Over`): the routes assign to an object that SQLAlchemy loaded, and its flush names the columns that changed. A
request that changes nothing sends no UPDATE, so that it is acknowledged also over a row that another request has changed or
deleted meanwhile. How a holding was entered (`input_method`) is left out. `entered` is what the acknowledged requests gave, figure by figure; a weight is an integer share of
the total, exact, and a portfolio worth nothing has none; `sent` is the last question that reached a provider, with its
content and where it went.

### NewsPipeline, FeedReader

In `NewsPipeline` an article is its digest; its codes, words and stated dates are
constants, and the matcher is a function of the aliases of the moment. An event has a kind, which is part of its
key in the calendar and of its notice's, and decides how far ahead it is noticed (`NoticeWindow`); the extractor reads the tags of the newest
stories up to `ExtractLimit` rows, so that the last story may be cut short. `FeedReader` keeps the
columns of each source, the asset it is bound to among them, and, per process, a cache with an age; a reading loads
the rows and the schedule's window, asks each feed and writes at its end. Its transaction fails for a row that was deleted
meanwhile, and may fail for a story that another job stored after it had looked for its digest: then the cache alone keeps what was read. `passed` is the history of
articles a window moved beyond, with the reason (`down`, `cached`, `lost`); `misses` counts the reads that failed.

### KnowledgeIndex, MarketScan, PriceHistory

In `KnowledgeIndex` a text is the sizes of its paragraphs, a chunk the
paragraphs and the overlap it holds; a chunk carries its embedding model. Which chunks
are near in vector space is open, and any order of either search is possible (`Rankings`); a fused
score is a fraction, compared exactly. In `MarketScan` a test needs some bars and finds
something or not. A session's record of an issuer is without volume (`quiet`), with volume but without a close, a
high or a low (`partial`), or a `bar`: a plan counts the sessions of volume over everything stored
(`Scannable`), a chunk the bars among the newest records (`Bars`), and an issuer for whom the two differ is `Dormant`. An
import may revise a stored session in any direction, and a plan remembers whose records were `revised` after it was made. A batch is
a set of issuers, a chunk dates its rows by the day it runs. In `PriceHistory` an
ingestion asks, stores, computes and commits, with READ COMMITTED views
between; an indicator is the window of closes it is computed from, which stands for its formula.

### How they are composed

Modules that share no state are checked side by side: a behaviour
belongs to one part, chosen by `Init` and kept in `part`, and moves only that part's module.
`MCPlatform`, `MCProviders` and `MCSchedules` extend the modules of their parts (twelve, four and four), and a part that a behaviour does
not move keeps its initial state, of which every property holds; so each property is
checked, and stated in the theorems, under its own name. The part "pages"
of `MCPlatform` is the two open requests of `Portfolio`, the part "agents" its one open request with the questions
that are sent; everything else is a module or two for each part. `MCProcesses` extends the lease and has the queue as an
instance. The next-state relation is a
disjunction with one disjunct for each part, so each part's behaviours are those of
its own specification, of `Portfolio` the two slices named above, and two parts bounded further beside their
disjunct (`OnPeople`, `OnRules`): requests overlap, after which nothing is claimed of the administrators, only where
the shell was not used; and a history begins with a quiet bar or one that turns down, has at most one bar more
than sessions, and takes its levels from its last bar. The
states of the parts are added and not multiplied. Where components interact through more than the queue's
promise, the interaction is inside one module: queue and workers, lease and schedules,
passes and shared session, schedules and windows, evidence and the alert that reads its stop.

## 3. What the runs check

Every configuration or `MC` module sets its bounds by name; `MaxFaults`, `MaxStops`, `MaxNow`
and the like bound how much happens in a behaviour and do not change what a step
does. Parts whose clock or supply of requests ends say `CHECK_DEADLOCK FALSE`;
the queue and the lease keep relative
time, never stop, and are checked for deadlock.

| Run | Instance | Shows |
|---|---|---|
| `JobQueueSafety` | 2 jobs, 2 workers, 1 retry; with `SKIP LOCKED` 2 faults, a stop, a deferral, handlers within the lock timeout; the fallback with 1 fault and a stop | types; `OneExecutor`, `NeverOvercharged`, `NoneStranded` (a RUNNING row has a worker at work while nothing crashes, and always a lock to be reclaimed by); the queue implements `JobLifecycle` on both dialects |
| `Processes` | 2 schedulers, one beside a worker, lease of 1 unit against longer passes, a fault, a stop, a lost key; and 1 job, 2 workers on the fallback, handlers up to twice the lock timeout, a crash; fair | `OneTick`, `CleanExitReleases`, `LeaseRespected`, `DueTimeServed`; the lease implements `LoneScheduler`; `NoJobForgotten` |
| `Schedules` | a news schedule with 2 runners, 2 runs by hand, 2 failures; the sweep with 3 changes of its expression; 3 refreshes for 2 calls a day; 2 readers of 2 feeds with an editor | `NoArticleSkipped`, `FlagEarned`, `NeverStuck`, `FreshDueTime`, `GapsAndStreaksEarned`; the quota implements `DailyAllowance` |
| `Providers` | 2 providers, 2 attempts, 2 asks; 3 assets for 1 call a day; the session record with a holiday, a weekend day, a change, a fetch by hand and a backfill; 2 users and sockets, queues of 2, 3 events, 2 lost connections; fair | `DownProvidersRest`, `QuestionsAdvance`, `QuestionsEnd`, `NoAssetStarves`, `SessionsImported`, `NewestSurvives`, `EventsFlow` |
| `Platform` | twelve parts, each sized in `Platform.cfg` or `MCPlatform` | the sixteen properties below |
| `JobQueueRollback`, `SchedulerLeaseDaemon`, `NewsScheduleStuck`, `StopAlert`, `Administrators`, `ScanAfterImport`, `FeedOutage` | small instances | violated: see findings |

In `Platform`:

| Property | Says |
|---|---|
| `CrossingAlerted` | no quote is on record past a level without the alert it owed, through overlapping passes, lost keys and deaths |
| `AlertsAreEvents` | every level quotes went through while it stood is told, no other is, not even one that a new bar moved past them; an indicator is told when it turns and not while it stays |
| `StrongNeedsWitnesses` | no strong label without two usable sources, an argument for it and an argument against it, nor where all sources are contrary; levels on the right side |
| `SidesAgree` | the readings for holder and newcomer never contradict one another |
| `SnapshotTruthful` | the snapshot of an analysis says what ran and what is stored beside it |
| `AdminRoleSurvives` | requests one after another never remove the last administrator's role |
| `AudienceIsNamed` | a shared analysis is readable by those its author named and nobody else |
| `OneDatePerStory` | a story does not put two dates in the calendar, however late it is read again |
| `NoWordLost` | every word of a document is in one of its chunks |
| `RankingsSound` | a ranking compares vectors of one model within reach, and what both searches found among their first 61 comes before what only one found |
| `PicksAreHonest` | a criterion said unmet was measured; a full score is the ceiling |
| `NobodySkipped` | a whole plan that runs through before midnight has rows of everybody it was to scan, but for issuers that have fewer bars among the newest records than the sessions of volume it counted, and ones whose records were revised meanwhile |
| `FollowedUntilRemoved` | what the user was told is followed stays listed until removed, and nothing else is; no item is left without its category |
| `PagesAreRight` | no acknowledged change is lost: the holdings page shows the figures of the last acknowledged request, save for a figure that it repeated while another changed it; weights cover the whole value; a simulation answers its question |
| `SeriesIsRight` | validation turns away exactly the slips, if the first bar is right or impossible by itself; stored indicators are those of stored prices after a lone run |
| `PersonalStaysHome` | holdings and journal are sent to self-hosted providers only |

In `Schedules`, `GapsAndStreaksEarned` says that a window passes over an article only for an outage or a
remembered copy, and that a feed's streak is made of reads that failed. In `Providers`, `QuestionsAdvance` says that each step of a
question leaves fewer asks, fewer providers, fewer attempts or less of a backoff: the three loops that are nested there
(correction, fallback, retry) are bounded together.

**Why the bounds are enough.** The races of the queue are between two parties: two
claims, a claim and a reclaim, an outcome and a reclaim; a second job lets one worker's pick and
another's differ, and a bulk reclaim take two rows. Two faults let a job
be abandoned, taken over and abandoned again. With a retry limit of one, a job is
retried, and dead-lettered by the second failure. `LockTimeout` against
units of one lets an attempt end before, at and (in `Processes`) after the
timeout. The lease is shorter than the longest pass, so a pass regularly
outlives it. Three refreshes against two slots let two win, or one lose the insert
of the day's row, and one be refused, on either side of midnight. Clocks that
end leave room for three periods of a schedule and, for the session record, a
holiday, a weekend day and the weekday after them. Two providers give a
chain one place to fall to; a window of one request and a threshold of two
let the limiter wait and the breaker open, try and close. Queues of two with three
events drop one. Two passes, readers, ingestions, translators or requests at
once are the smallest overlap, and the code has no counter that tells a third from a second; where a third matters
(a lone run after two that overlapped) there are three. Three people let one administrator remove another while
a third is promoted. Evidence is enumerated in full over three sources.

What the runs take on trust: all processes read one clock, a claim's transaction is shorter
than a unit of time, and instants further in the past than `MaxLate` or `MaxLag`
are not told apart (the code only asks whether they have passed; `MaxLag` is
the oldest reading of the clock in use). Job rows are never deleted.

**Symmetry** permutes jobs and workers, runners, refreshes, and in `Platform` two people, passes, requests,
translators, readers or ingestions, which are never compared but for equality; the runs with
fairness use none.

**Fairness.** For the queue: `run_forever` catches every exception and loops
(`aidss/jobs/worker.py:220-231`), so a worker that is up keeps taking steps; a
process that is down is started again by its supervisor; some scheduler keeps
calling `reclaim_abandoned`; time passes. Nothing assumes that a job gets a
particular worker, that a handler returns rather than raises, or that a crash
happens. For the scheduler: a process that is up keeps looping and time passes
(`worker.py:368-382`); nothing restarts one that is down, and `DueTimeServed`
asks for service only while one is up. Faults and stops are bounded: a system
that crashes for ever serves nobody. For the gateway: its thread runs and a
request ends by its timeout. For the pacing: passes and workers run, days go by, and a provider that
is asked about an asset again and again answers at last (strong fairness of `Refresh`; without it a
provider that is always down starves everyone). For the hub: the event loop runs and a client that
stays connected is read from. In the runs that put parts side by side, fairness is stated
of the disjunction of the parts' actions: as a behaviour never changes its part, weak
fairness of the disjunction is weak fairness of the one action that the part has in it.

## 4. Findings

Seven places where the code does something other than the repository says of it,
each with a run that finds it.

- **A failed handler's writes are kept** (`JobQueueRollback`).
  `worker.py:12-13` says a handler that fails rolls back its own work. The branches for
  `PermanentJobError` and `ProviderUnavailableError` (`worker.py:170-183`) commit
  the session the handler wrote on. `run_analysis` stores rows before it raises
  the first; `NewsScheduler.run_schedule` depends on the second to keep its failure count.
- **A daemon scheduler does not hand its lease back** (`SchedulerLeaseDaemon`).
  `__main__.py:72-73` says its `finally` releases the lease because `stop()`
  breaks the loop. The flag is read after a sleep of up to a minute, and the
  interpreter ends daemon threads when the worker's loop returns. A peer waits for the expiry.
- **A long run can stop its news schedule for good** (`NewsScheduleStuck`).
  `run_schedule` computes `next_run_at` from the clock at its start. A run (by
  hand, or a job's retry) that starts before a due time and ends after the job of that due time has
  been queued moves `next_run_at` back to it; its key is taken, `tick` advances
  a schedule only when a job was created, and so every later pass skips it. It takes
  two runs of which one lasts about a period; a run of any kind, by hand too, heals it.
  `Schedules` shows that runs and pass delays that are short together exclude it.
- **A cautious stance's stop is told as reached at once** (`StopAlert`).
  `derive_levels` puts the stop of a negative label above the close
  (`calibration.py:308`); `alerts.py:209` asks `price <= suggested_stop` whatever the label.
- **The last administrator who can sign in may be removed** (`Administrators`).
  `_refuse_if_last_admin` counts rows with the role (`admin.py:168`), also those that
  are disabled or suspended and that `get_current_user` refuses.
- **No scan follows an import** (`ScanAfterImport`). `handlers.py:743` says the
  import handler chains it; `sync_trading_summary` queues nothing.
- **One feed that is down is no outage** (`FeedOutage`). `news_rss.py:255` raises only
  if every feed failed, so a schedule's run succeeds and its window moves
  past what the silent feed published, which `collector.py:324-325` says does not happen. A market-wide sweep
  may still store it.

The modules also define formulas that TLC refutes but which have no run of
their own, each with the sentence of the repository it is taken from or the
promise it would make:

| Module | Definition | What happens instead |
|---|---|---|
| `CronJob` | `QueuedAtItsHour` | after one fetch by hand each later weekday's import is queued right after UTC midnight, before there is a record |
| `NewsPipeline` | `BackfillConverges` | the newest untagged stories that match nothing take the whole limit every time; a corrected alias does not undo its tags |
| `NewsPipeline` | `MovedEventReplaced` | an event of one kind that moved stands in the calendar twice, as its date is in its key |
| `KnowledgeIndex` | `RetrievalDegrades` | after a change of model the old chunks are lost to the lexical half too |
| `AnalysisRun` | `StoredHasOutput` | an analysis in which no agent ran is stored before the job is failed |
| `MonitoringPass` | `AnnouncedIsStored` | alerts rolled back by a lost key are announced |
| `LlmGateway` | `WithinWindow` | retries are not counted by the limiter |
| `MarketScan` | `OneDatePerRun` | chunks on either side of midnight date their rows apart |
| `MarketScan` | `EveryPlannedIsCovered` | an issuer with just enough sessions of volume, one of them without a high, is planned and then left out, and only a count in the chunk's log says so |
| `Portfolio` | `WeightsAlwaysAddUp`, `RiskOfHoldings` | two assets of one ticker on two exchanges share a weight, and a series |
| `Portfolio` | `HighPrivacyKept` | the chat's runner is made without the privacy mode |
| `Watchlist` | `AlwaysFollowed` | what is added to a category while it is deleted goes with it |
| `PriceHistory` | `OneBadBar`, `FailedRunsRecorded`, `DerivedAlwaysFollows` | a slipped first bar turns away the rest; a failed run under the route leaves no row; overlapping ingestions leave stale indicators until a lone run |
| `FeedReader` | `CacheSkipsNothing`, `BadMomentForgiven` | a copy cached for another ticker hides what was published since; twenty schedules use a feed's threshold up in a minute |

A holdings page does not always show the figures of the request that was acknowledged last: A asks for the quantity that it
reads, B changes it, or deletes the row, and is acknowledged, and A, which then has nothing to write
(`aidss/api/routes/portfolio.py:137-140`), is acknowledged too. `HoldingsAsEntered` is stated with this exception.

`EveryAssetReached` fails as well once an asset's figures never change
(`Unchanging`): a refresh that finds the same does not move `ingested_at`, and the asset
keeps the head of the line. And from `ProviderQuota` one reads: a reservation can be refused with slots left, when
the first INSERT of the day commits between another worker's UPDATE and its SELECT (`quota.py:125-146`);
`next_reset()` reads the clock again, so a refresh refused just before midnight
may be put off by a whole day.

## 5. What is proved

`tlapm` checks every theorem below from nothing, for any values of the constants
that satisfy the assumptions of the modules. These are types and ranges (natural numbers where the code
has counters and times, null values that are none of the others, finite sets, a founder
who is one of the people) and facts the code fixes: priorities of providers are distinct, as the
router orders by them; a category called Default can be named; a support lies below the close and a resistance
above it. Where a theorem needs more, it is a named hypothesis of the theorem: `Timely`, `CronsFitTheDay`,
`RunsFitThePeriod`, `WindowsOverlap`, `ModestMoves`, `ArticlesAreDated`. TLC evaluates every assumption on the instances of the runs.

Each argument has the same form: an invariant with the property as a part, shown to hold at first and to
be kept by every action. What had to be added, and why, is the content of the proof.

**`JobQueue_proofs`.** `TypeCorrect` needs nothing. The others assume
`Timely == MaxRun <= LockTimeout`, that attempts end before their lock times
out: the code does not enforce it (`LOCK_TIMEOUT_SECONDS` is 900 s and nothing bounds a
handler), and without it they are false. They rest on one inductive invariant,
`Inv`. `OneExecutor` is not inductive: a second worker comes by a
job through a reclaim, which looks only at the age of a lock, and nothing in
`OneExecutor` speaks of ages. `HolderOwnsRow` does: the row of an executing
worker is locked by it, its lock exactly as old as the attempt and its values those
the session loaded. With `Timely` a reclaim then never touches an executor's row, and
what the ORM flushes is the outcome meant (`FlushedOutcome`, `FailedOutcome`). `LockedIsRunning`, that a lock has an age exactly as long as its row is
RUNNING, makes `RunningIsReclaimable` follow: no RUNNING row is without the lock that a reclaim looks for; without faults that lock belongs
to a worker that executes the row (`GracefulStop`), and the two together are `NoneStranded` (`NobodyIsStranded`). From
`Inv` follow `OwnRow`, `MutualExclusion`, `WorkDoneOnce`, `FairCharge`,
`GracefulStop`, and `FinalityKept` for steps. `Refinement` maps every step to a step or
a stutter of `JobLifecycle`. All of it holds for both dialects.

**`SchedulerLease_proofs`.** `Inv` adds to the checked invariants that a pass which has
written the lease was entitled to it and still is (`WriterEntitled`) and that
only a pass that has come so far holds a queued job. No relation between the
lease time and the length of a pass is assumed: `SingleTick` and `LeaseKept` rest
on the row lock, `DueTimesQueued` on the single commit. `CleanHandover`
uses a second invariant, `HolderKnows`: without faults, a holder that has its process to itself is
up and knows that it leads. `LoneRefinement` maps every step to a step or a stutter of `LoneScheduler`: the
commit of a pass that has queued is `Serve` by the clock of that pass (`CommitServes`), `Tick` is `TimePasses`, and everything
else, the elections, crashes, lost keys and handovers, is invisible (`LoneStep`). It needs `QueuedIsDue`: what an open pass has
queued was due by the clock it read, and has not become less so while the pass went on. With `Inv`, by which only the
one that wrote the lease holds a queued job, no other pass has moved the due time meanwhile.

**`ProviderQuota_proofs`.** `AllowanceRespected` (`WithinAllowance`) from `Guarded`: an open
reservation still has the room it checked for and is its day's only writer.
`SpendRecorded` (`SpendOnRecord`) by counting the refreshes between commit and request. Any limit,
including none, any number of refreshes. `AllowanceRefinement`: the commit of a reservation is the abstract grant
(`CommitGrants`), for which `Guarded` supplies the room, as the check was made statements ago; a request is the
call on what is held (`RequestCalls`); a crash or a failure after the commit wastes it (`AbortWastes`); every other step,
the lost race for the first row among them, is invisible (`AllowanceStutter`).

**`Schedules_proofs`.** *The cron-driven jobs.* `DueTimesAreFresh` (`FreshDueTime`) needs no hypothesis:
`CronInv` says that the row's due time is the next firing of the expression it was computed from, however
often the expression changes, and `KeysPast` that every queued key of the sweep is before it, so that what is
due can always be queued. `SessionsAreImported` (`SessionsImported`) assumes `CronsFitTheDay`: the record is
out when an expression fires, and the latest pass comes before midnight. Its invariant `SessionInv` has three
stages of one row: nothing is queued before the first pass saw an expression, the row is up to date after it, and an import
that ran found its record or it was a holiday. *The news schedule.* `FlagIsEarned` has no hypothesis: what a run
loaded (`CopiesEarned`) was earned when it did. `ScheduleMovesOn` (`NeverStuck`) assumes
`RunsFitThePeriod`, that a pass's delay and a run together are shorter than the period: then the schedule and every
copy in flight point at a firing without a job (`PointsAhead`). Without the hypothesis `NeverStuck` is false (`NewsScheduleStuck`).
`NoWindowSkipped` (`NoArticleSkipped`) assumes `WindowsOverlap`, that two runs last no longer than the lookback: what is
covered is then contiguous, as every window in flight starts inside or next to it (`Windows`).

**`Providers_proofs`.** `NewestIsKept` (`NewestSurvives`), for any sockets and size of queue: the notices the
listener has not read are in commit order (`ChannelInOrder`) and newer than anything routed (`RoutedIsOlder`), so
the one that is put last is the newest and the one that is dropped is not. `DownProvidersAreRested`
(`DownProvidersRest`), for any providers, threshold and rest: a breaker counts what `lastFailed` does while it is
closed (`BreakersCount`), and a request in flight was admitted by it (`Admitted`). `EveryQuestionAdvances`
(`QuestionsAdvance`): the same invariant makes `NearerTheEnd`, a lexicographic order of asks, chain, attempts and backoff, go
one way (`StepAdvances`). Each of the four is bounded, by `MaxAsks`, the number of providers, `MaxAttempts` and `BackoffCap`, so this is the part of
`QuestionsEnd` that holds without fairness: only standing still could keep a question open. `GapsAndStreaksAreEarned`
joins `StreaksAreEarned` and `WindowsSkipOutagesOnly`; the first rests on the same
thought as `FlagIsEarned`, about rows that are loaded, kept and written back; the second asks only that an
article has an instant and a url (`ArticlesAreDated`).

**`Advice_proofs`.** `ResultsAreTruthful` (`SnapshotTruthful`): the snapshots that sessions hold are copies of a
stored result that differ from it in the renderings alone (`CopyOf`), so writing one back as a whole loses at most those.
`StrongLabelsAreWitnessed` and `ReadingsAgree`, for every evidence, levels and quotes: what is stored is an
answer that passed the rules with the levels derived from it (`StoredAs`), and what `Confidence` can reach
follows from how many sources are usable and agree (`ConfidenceBounds`). `CrossingsAreAlerted` (`CrossingAlerted`), for any passes, assets and
investors: what an open pass owes is stored, raised by it or among the keys it has still to record (`PassCovers`),
and a lost key takes the debt back with the alert. `AlertsTellOfEvents` (`AlertsAreEvents`): what is told of a level is
dated by the poll that crossed it, and by the levels that stood then, which every quote keeps, and an indicator's alert names a bar at which the indicator turned,
unless the bar was revised since (`TurnsStand`).

**`Market_proofs`.** `NobodyIsSkipped`, for any reports of the exchange, depth, minimum and size of chunk: every issuer a
plan wanted, and whose records were not revised since, is in a queued batch, has
its row or is dormant (`PlansCovered`), and what made it so stays while other sessions are imported (`HistoryStays`).
`PageShowsWhatWasEntered` (`HoldingsAsEntered`), for any requests at once: an upsert that is accepted over another row than it read has
nothing to write, and one that finds its row leaves each figure that it changes as it gave it and the others as they were.
`PersonalDataStaysHome`, for any bindings and privacy modes. `AStoryHasOneDate` (`OneDatePerStory`): a date is stated for a story only if
the story has exactly one, which depends on when it was published and not on when it was read. `RetrievalIsSound`
(`RankingsSound`), for any texts, models and orders of the two searches: that agreement wins among the first 61 is arithmetic
of fractions whose denominators start at 60 (`AgreementWins`). `DerivedIsOfStored` (`DerivedFollowsPrices`), for any history, look-back and
number of ingestions: a run that is alone holds figures of what it will commit (`Holds`), and a figure that has a row is one
that can still be computed (`RowsAreComputable`), so that none is left over.

Five more of its theorems are about sums and recursive computations, where the induction has to be done without
a predicate as a parameter: it is over the subsets of a finite set, with the subsets for which the claim holds given as a
set (`SubsetInduction`), or along the naturals. `PicksAreHonestAlways` (`PicksAreHonest`): the rows a
batch stores are those of its passes (`RowsSound`), and the list is in the order of the points, ties by place
(`ListedInOrder`). `WeightsAlwaysCover` (`WeightsAddUp`): holdings share a name or they do not, and the weights of a class
add up to the class; that concentration lies between a fair share and the whole is Cauchy-Schwarz, one asset at a time (`SquaresBounded`).
`SimulationsAnswer`: a simulation, which applies one change after the other, answers what was asked
(`AnswersAsked`), for any holdings and any list of changes; `SimulationAsAsked` is the case of an investor's own. `NoWordIsLost` (`NoWordLost`): while paragraphs are packed, two neighbouring chunks
would not have fitted into one (`PackedSoFar`), so only the first can be a scrap that is left out, and the next one
repeats it. `OnlySlipsAreRejected` (`OnlySlipsRejected`): the last accepted close is 0 exactly until a bar is
right (`LastValidIs`), and between closes that move modestly (`ModestMoves`, which the outlier rule supposes:
no close is more than half away from another) a misplaced decimal point stands out and nothing else does.
`PagesAreAlwaysRight` and `SeriesIsAlwaysRight` join what concerns one page or one series, as the runs do.

**`People_proofs`.** `AnAdminRemains` (`AdminRoleSurvives`): until two requests overlap or the shell is used, the one that is
open leaves an administrator besides its target (`AdminRemains`). `AudienceIsKnown`: a grant is its author's, for any people and analyses.
`ListsKeepWhatIsFollowed` (`FollowedUntilRemoved`), for any number of requests at once: ids are never used twice
(`IdsUnique`), and a deletion in flight moves its items to another category and drops none that it moves
(`DeletionsSound`); what another request adds to the category meanwhile is in `late`.

**Model-checked only**, and why:

- *Liveness* (`NoJobForgotten`, `DueTimeServed`, `QuestionsEnd`, `NoAssetStarves`,
  `EventsFlow`): the prover has neither fairness nor `ENABLED`. Every invariant, action property and
  refinement that a passing run checks is a theorem.
- *The properties the code does not have*, of section 4: TLC shows a behaviour for each that has a run.
- *The queue with handlers that outlast their lock*: the theorems assume `Timely`, without which the safety properties
  are false; `Processes` checks that jobs end all the same.

## 6. What is not modelled

`PROJECT.json` lists every component with its status. In short:

- *Text*: prompts, templates, validation of answers, wording of alerts and
  reports, parsing of feeds. What an answer decides is modelled, what it says is not.
- *Numbers*: the indicators' formulas (the window of closes they are computed from stands for them), portfolio risk
  over series, exact thresholds of the screener. Their arithmetic is decimal or floating
  point; the repository's tests cover it as well as a bounded model would.
- *Input and output*: HTTP adapters, response schemas, feeds, logging, metrics,
  migrations, password hashing and tokens, the web client.
- *Small and sequential*: the issuer registry's upsert, tick sizes, stats and
  other readers.

Inside the modelled components these are left out: deletion and deactivation of
a news schedule, sentiment, the alias index built from company names, changes of
stance and candle patterns among the alert rules, the registry's errors for unknown job types (a
permanent failure like any other), the cron branch for an expression that no longer
parses, and clock skew between hosts.

## 7. Plan

The components with state are modelled and the safety properties that the runs check are theorems. What is left:

1. **Abstract specifications** of what `CronJob` (every firing is queued once) and `Watchlist` (a set of
   followed assets) promise, with a refinement each, as `JobLifecycle`, `LoneScheduler` and `DailyAllowance` are for
   the queue, the lease and the allowance.
2. **An abstract breaker** (closed, open, one trial) and the refinement that shows how far `LlmGateway` implements it.
3. **Deletion of a news schedule** and its jobs in flight, in `NewsSchedule`.
