# Exiqus: formal models of the API server

Exiqus analyses the public GitHub work of a developer (a single repository, the
whole portfolio, the pull requests to other projects) and sells the analyses in
monthly plans. This directory holds TLA+ models of the parts of its server that
several actors share: requests of one or many workers, background tasks,
Stripe's deliveries, Redis, the tables of PostgreSQL. TLC checks them on small
instances, TLAPS proves the most important results for every instance.

Paths below are relative to `src/src/github_analyzer/`.

- [1 The system](#1-the-system)
- [2 The modules](#2-the-modules)
- [3 What the runs check](#3-what-the-runs-check)
- [4 What is proved](#4-what-is-proved)
- [5 Where code and documentation disagree](#5-where-code-and-documentation-disagree)
- [6 What is not modelled](#6-what-is-not-modelled)
- [7 Plan](#7-plan)
- [8 Running it](#8-running-it)

## 1 The system

A FastAPI application serves a web front end. State lives in four places:
PostgreSQL (asynchronous SQLAlchemy sessions at READ COMMITTED, one per
request), Redis, the memory of each worker process (the cancellation registry,
background tasks), and Stripe. Handlers are coroutines: between two `await`s
nothing else of the same process runs, at every `await` anything may, and other
workers run at all times. That makes a step of a model: one database statement
together with the commit that follows it, one Redis command, or one synchronous
stretch of code.

| Component | State | Operations | What makes it correct |
|---|---|---|---|
| Cancellation registry, `services/cancellation_service.py` | two dictionaries of one process: tasks by id, ids by user | register, cancel, complete, clean up | the dictionaries agree; what works can be found |
| Candidate context lock, `api/services/candidate_context.py` | a row per (user, candidate) | validate, lock (five attempts), view, reset | a lock is never overwritten; later analyses use it |
| Concurrency slots, `api/services/rate_limit_service.py`, `rate_limit_dependencies.py` | a Redis counter per user and one for all, with expiry | acquire with time-out, release | never more holders than the limit; no slot is lost |
| Candidate quota, `services/candidate_usage_service.py` | an assessment row per (user, candidate, month) | check eligibility, find or insert, count | the limit of the plan is kept, everybody is counted |
| Portfolio analyses, `api/routes/portfolio_analysis.py` | result rows, a cache row per key, tasks in memory | accept, look up, copy, analyse, publish, fail | what is shown was computed; results stay; every analysis ends |
| Pull-request analyses, `api/routes/pr_analysis.py` | result rows, history rows, a cache row per key | the same, with a copy for a hit | the same |
| Single analyses, `api/routes/analysis.py` (`analyze_repository`) | deep-dive rows, the registry | validate, check the quota, register, work, count, complete, cancel | bounded overrun of the quota; the registry stays sound |
| Batches, `api/routes/analysis.py`, `api/services/async_batch_history_service.py` | a history row, the registry | register, start, gather with time-out, complete, fail, cancel | history and answer agree |
| Stripe webhooks, `api/services/webhook_service.py`, `billing/webhook_handlers.py` | event rows; user, invoice and payment rows | deliver, record, handle, mark, retry | nothing lost, nothing done again late, nothing overwritten with stale data |
| Subscription manager and checkout, `billing/subscription_manager.py`, `api/routes/billing.py` | the user's subscription columns; subscriptions, customers and events at Stripe | create, change, cancel, check out; told by events | what is paid can be found from the row; the row comes to agree with Stripe |
| Usage metering and its report, `api/middleware/usage_tracking.py`, `billing/usage_reporter.py` | usage records with a mark; totals at Stripe | record; fetch, group, send, mark one at a time | all usage is billed, and once |
| Rate limits, `api/middleware/rate_limiting.py`, `services/pr_rate_limiter.py` | Redis counters with a time to live | count, refuse, take back | limits hold, every window ends |
| Scheduler, `api/services/scheduler_service.py` | next run of each task, in one process | loop, start-up tasks, manual run | see section 6 |
| Authentication, API keys, trials, budget, hub, administration | rows and Redis keys | mostly single transactions | see section 6 |

How they interact: a single analysis asks for slots, then for the context lock,
then the deep-dive quota, then enters the registry. A portfolio or pull-request
analysis asks the context lock and the candidate quota, then works on in a
background task that publishes to the shared cache and counts the candidate. A
reset of a candidate's context clears the caches under tasks that are still
running. Before any of it the rate limits count the request. Webhooks and the
subscription routes change the plan that decides all limits. The middleware
records what was used, and the scheduler's report bills it.

The hard behaviours are interleavings between statements of different sessions
(most checks are read, decide, write), tasks that live in the memory of a
worker that may stop, deliveries that are repeated or overlap, time-outs that
race with answers, keys that expire under their users, and except clauses that
run after half of the commits have been made. `PROJECT.json` lists them line by
line under `hazards`, with the properties that would notice them going wrong.

## 2 The modules

| Module | Models | Lines of code | Uses |
|---|---|---|---|
| `Cancellation` | `CancellationService` | `cancellation_service.py` | |
| `CandidateContext` | lock, views and resets of one (user, candidate) | `candidate_context.py`, `candidates.py` | |
| `ConcurrencySlots` | the two semaphores, command by command | `rate_limit_service.py`, `rate_limit_dependencies.py`, `redis_service.py` | refines `Slots` |
| `Slots` | what the semaphores promise | | |
| `CandidateUsage` | the month's assessments of one user | `candidate_usage_service.py`, `check_user_eligibility` | |
| `ResultCache` | one row of the shared cache | `create_cache_entry`, `get_cached_analysis`, `clear_candidate_caches` | |
| `PortfolioAnalyses` | the background task | `portfolio_analysis.py` | `ResultCache` |
| `PortfolioRequests` | `POST /portfolio/analyze` from the quota to the end of its task | `portfolio_analysis.py` | composes `PortfolioAnalyses` and `CandidateUsage` |
| `PRAnalyses` | request and background task | `pr_analysis.py` | `ResultCache` |
| `AnalysisRequests` | `POST /analyze`, and both cancel routes | `analysis.py` | composes `Cancellation` |
| `BatchRequests` | `POST /batch` | `analysis.py`, `async_batch_history_service.py` | composes `Cancellation` |
| `AnalysisRoutes` | the analysis routes of one process over its one registry | `analysis.py`, `cancellation_service.py` | composes `AnalysisRequests` and `BatchRequests` |
| `StripeWebhooks` | deliveries and handlers of one customer | `webhook_service.py`, `webhook_handlers.py`, the repositories | |
| `Subscriptions` | one user's subscriptions here and at Stripe | `subscription_manager.py`, `billing.py`, the subscription handlers of `webhook_handlers.py`, `connection.py` | |
| `UsageReporting` | usage records on their way to Stripe | `usage_tracking.py`, `usage_reporter.py`, `billing_repository.py`, `scheduler_service.py` | |
| `RateLimits` | the counters of one client | `rate_limiting.py`, `pr_rate_limiter.py`, `redis_service.py` | |

`MC*` modules give the constants their values, `*Proofs` modules hold theorems.
`PROJECT.json` maps every definition to its lines.

Conventions. A variable such as `place`, `task`, `stage` or `req[r].pc` is the
program counter of a coroutine; its values name what comes next. An action is
named after what the code does there and contains everything up to the next
point where others may run. Where any statement can raise, an action says where
that leads (`Raise`, `Fail`, `RequestRaises`), and the except clause is an
action of its own if it awaits. Definitions whose comment starts with
"Mutant of" are not used by any specification: each is a plausible mistake in
the definition that follows it, kept to show that the properties can fail.

**Cancellation.** `running` and `userTasks` are the two dictionaries, with
Python's semantics: a key exists or it does not, and a user whose last task
goes is taken out. Time is the one comparison the code makes: whether the window for
cancelling is open. No route ever hands over an asyncio task, so cancelling
stops nothing; it only takes the task from the registry.

**CandidateContext.** One row and the requests about it. `LockRead`,
`LockInsert` and `LockFinalRead` are `lock_context`'s loop; the primary key
makes the later of two inserts fail, and the loop reads again. Every SELECT, the
commit and the refresh after it (`LockRefresh`) are steps of their own. `lockThen` and
`resetsThen` remember what was so when a request arrived, for the properties.

**ConcurrencySlots.** `count` and `key` (gone, there for good, or with an expiry) are
Redis, where any command makes a key that is gone anew; `stage` and `step` say where a
request is in `RateLimitContext` and in `_acquire_semaphore`. `Replies` says whether
commands are carried out: `RedisService` answers `None` and 0 when it is not connected,
which acquire takes for a free semaphore. The worker of a request in `Mortal` may die
between any two commands (`Die`). The history variable `outlasted` collects the
keys that expired under requests they counted, `lost` what dead workers left counted.

**CandidateUsage.** Rows are kept by the request that inserted them, for the table has
no unique key that would forbid duplicates. The period is computed anew in every call,
as in the code, so that a month may end between a check and the count that belongs to
it. `PortfolioRequests` gives the requests that are analyses their tasks: a request let
in starts one, and the task looks for the candidate's row again at its end, where two
rows make it raise.

**ResultCache, PortfolioAnalyses, PRAnalyses.** `ResultCache` declares what both routes
have: the cache row and, per analysis, task, status and results. Results are named by
the analysis that computed them; `full[a] = b` says that row `a` shows what `b`
computed. The loser of the race to publish has its session rolled back, which expires
the loaded objects; the log line that follows reads one, and raises. `CallsMayFail` says
whether anything else may raise: without, that race is the only way from completed to
failed. A worker that stops takes its tasks along (`Stop`, place "stopped"); the rows
stay.

**AnalysisRequests, BatchRequests, AnalysisRoutes.** The handlers between their awaits,
over the registry's own actions and side by side in one process.
`single_{user}_{second}` ids may be shared by two requests; batch ids are fresh. The
slots in front of a single request are no guard in the model, for they are none in the
program: the dependency's client is connected by nobody (`slots_unconnected`), and
the key's expiry would let more in even if it were. So the overrun of the deep-dive quota
is measured by `peak`, the most requests a user ever had past the check together.

**StripeWebhooks.** Each delivery is a session that loads the user (`seen`) and
later writes the columns that differ from what it loaded. The event's row is
read, inserted and marked in separate transactions. `event` says what each
delivery carries, chosen at the start from `Mail`. Invoices, payments and
event ids are unique in the database; an insert that fails poisons the
session, so that the failure cannot be recorded either.

**Subscriptions.** A route is a session: it loads the user (`LoadRow`), asks Stripe,
and commits what it changed after the answer is out, for the session is a
dependency with `yield` (`Commit`). `req[r].seen` and `.new` are the row it
loaded and the row it is about to write; a commit writes the columns that differ.
Stripe is a set of subscriptions and a queue of events, one delivered at a time
(`desk`), out of turn at most `MaxReorders` times. A subscription and a customer
carry the name of the request that made them: `_ensure_stripe_customer` never
stores the customer it makes, so each `create` makes one. The row may begin with a customer
whom Stripe no longer knows (`OldCustomer`): every request then makes a new one, and a
checkout stores it. A checkout's subscription comes to be when the user fills it in
(`Subscribe`); one that is not paid for expires (`Expire`). `lost`, `replaced`,
`crossed` and `reorders` remember what the properties make exceptions for. What
`StripeWebhooks` has in detail (rows of events, retries, invoices, overlapping
deliveries) is left to it; here the interplay with the routes is what counts.
The quota is a function of the plan and has no variable of its own.

**UsageReporting.** `rec[r].mark` is the `reported_to_stripe` of a record: open,
reported, or marked without a report because the plan has no overages. `run[i]`
is an execution of the task: what it fetched and has not dealt with (`todo`) and
the group in hand. `bill[r]` is the set of records whose sum Stripe was last told
for the second of record `r`: with the action "set" a total replaces the one
before it for the same second. Sums become sets, so that "billed" and "billed
twice" can be told apart; that no two groups of one user start in the same
second is assumed. `missed` collects the records whose mark failed or was cut
off after Stripe had been told. `calm` ends the failures, for liveness. A user
who subscribes anew gets a new subscription item at Stripe and is a new owner.

**RateLimits.** Each counter is a number and what is left of its time to live;
time goes in steps, of which a window has a few. The middleware's INCR and EXPIRE
are one transaction, so a lost answer has done both or neither; the pull-request
limiter sends two commands, and dies between them. Where the code lets a request
pass because Redis fails, so does the model. `win` remembers whom each window
counted, let pass and took back.

## 3 What the runs check

Every run finishes in two to three minutes at most with two workers.

| Run | Instance and bounds | Questions |
|---|---|---|
| `context` | 2 coroutines, each sending any number of requests; 2 contexts; 2 attempts (5 in the code); 3 resets | is the lock obeyed by latecomers, the context handed out in force, do attempts run out only through resets, is everyone answered |
| `slots` | 3 requests of a user with 2 slots, 1 slot for all, 1 worker that may die | are limits kept, counters exact until a key expires in use and never too high after it, does what a dead worker left counted expire; do GET, INCR, DECR implement `Slots`; does everybody end |
| `slots_unconnected` | the same with a client that is not connected | are limits kept (they are not) |
| `portfolio` | 3 requests of a user for 2 candidates, 2 of them of one cache key, limit 2, 2 months; failing calls, resets, workers that stop | can concurrent newcomers slip under the limit together, is anybody analysed and not counted, is everything served computed and kept, does everything end that its worker lives for |
| `usage_limit` | 5 requests for 3 candidates in 1 month, limit 2 | are at most as many candidates analysed as the plan says (they are not) |
| `portfolio_end` | 2 analyses of one key, no call that fails | does the loser of the race for the cache entry stay completed (it does not) |
| `pr` | 3 analyses of 2 users, resets, workers that stop | the same, with copies and history rows |
| `routes` | 2 requests, with one id, and 1 batch of a paying user with 1 deep dive, 1 request of a free user; any cancellations | by how much is the quota overrun, can work lose its registration, do history and answer of a batch agree, is what is over found by the id it ended with, is everything answered |
| `webhooks` | 6 mails of 3 deliveries, 1 fault, 1 retry by the administrator | is anything processed without having been handled, handled again late, overwritten with stale columns, or never processed |
| `reporting` | 3 records of 2 users in 2 periods, 2 fetched at a time, 2 tries, any failures until `calm`, one execution at a time | is marked usage billed, billed once, and open usage reported in the end |
| `limits` | 3 requests of any kind, windows of 2 steps, limits of 1 and 2, failures anywhere | are counters exact, limits kept but for refunds from outside the window, does every window end |
| `subscriptions` | 3 requests in 5 combinations, with a new user or one whose customer is forgotten, 2 plans, 1 delivery out of turn | is what is paid reachable, does a plan end with its subscription, and is the row repaired by renewals |

Why these bounds are enough to be interesting. Two actors suffice for every race on one
row; three let one win, one lose and one come late, and two requests of one user are
what overruns a quota of one. In `portfolio` a limit of two lets one newcomer in and
refuses the next, and two analyses of one key race, copy from each other, or make two
rows of their candidate. Two attempts of the retry loop show every kind of iteration:
first, last, and the read after the last. Three resets can exhaust them and still meet
another request. With two slots for three requests, and one for the two, every
acquisition is contended. The two months of `portfolio` separate the period of the
check, of the count and of the row. A fault in `webhooks` may strike at any step of any
delivery. In `reporting` a fetch of two of three records cuts a group, continues it by a
later record, or lets another user's come first, and a month may end inside a group of
one user. In `limits` a window of two steps can be entered, prolonged and left between
any two commands, and a limit of one is reached by every second request. Three requests
are what `subscriptions` needs for two that race and one that cancels or changes what
they made. Constants and unbounded counters that are bounded for TLC only: `MaxResets`,
`LastPeriod`, `MaxReorders`, `MaxFaults`, `Mortal`, and in `StripeWebhooks`
`MaxRetries`, the administrator's retries.

Type invariants are proved (section 4); the runs `routes`, `pr` and
`subscriptions` check theirs as well, the others do not repeat it.

`CHECK_DEADLOCK FALSE` stands where every request may be answered and nothing
be left to do.

**Fairness.** Weak fairness of the steps of each coroutine: asyncio resumes
a coroutine whose await is answered, and every external call in these handlers
has a time-out. Arrivals, cancellations, expiries, errors and resets are never
assumed to happen. Two stronger assumptions. In `slots`, strong fairness of the
time-out: a waiting request looks at the clock whenever it goes round its loop. In
`webhooks`, strong fairness of a delivery's steps, because the row lock it waits for
may be taken again before it, and weak fairness of Stripe sending again what was
not answered with 200, which is what Stripe does. `AnalysesEnd` and
`BegunAnalysesEnd` except the analysis whose own worker stops: nothing in the
code looks for its row afterwards. `EventsAreProcessed` excepts
`invoice.payment_failed`, which can never be processed once its payment row
exists. It needs the bound on faults: nothing is promised under endless ones.
`UsageReporting` assumes that the task is executed again and again, which the
scheduler's hourly loop does also after errors, and that its steps are taken;
`UsageIsReported` speaks of the time after the failures. `Subscriptions` assumes
that the steps of a route are taken, that Stripe's oldest event is delivered and
handled, and that a living subscription is renewed at the end of its period,
which is Stripe's side; payments, cancellations and failures are never assumed.

Every property of a passing run has a mutant in `PROJECT.json`: with that one
definition changed the same run finds the property violated.

## 4 What is proved

All proofs are checked by TLAPS to the last leaf, for any values of the
constants that meet the `ASSUME`s of the module. These are as weak as the code
justifies: finite sets of requests, limits that are positive numbers, ids that
belong to one user.

| Theorem (module) | States | Argument |
|---|---|---|
| `RegistryIsConsistent` (`AnalysisRequestsProofs`) | the two dictionaries agree | `RunningTypeOK /\ RegistryConsistent` is inductive; `IndexPointwise` turns the equality of functions into one fact per user |
| `TypeCorrect`, `LockIsHonoured`, `LockIsOnlyReset` (`CandidateContextProofs`) | the safety properties of `context`, for any number of attempts | `ContextInv`: per request, the violations met so far are bounded by the resets since it arrived (plus one while the lock stands), and what it was handed, or found on arrival, is the lock until a reset |
| `SlotsAreBounded` (`ConcurrencySlotsProofs`) | limits, exact counters, no count too high even after expiries in use, counts left behind by dead workers only and expiring, over a Redis that replies | `SlotsInv`: the answer of INCR is a sound test only because the counter is exactly what `Counted` says, so `CountIsHolders` carries `HoldersBounded`; a death moves a request from the holders to the lost and leaves `Counted` as it is; `NoReset` confines `SET 0` to outlasted keys; `PendingStays` keeps whoever owes a key its expiry |
| `SlotsAreSemaphores` (same) | the optimistic commands implement `Slots` | step by step: each command is an acquire, a release, a crash, an expiry or a stutter of the abstract semaphore |
| `QuotaIsNeverOverrun` (`CandidateUsageProofs`) | newcomers let in by a count do not exceed the limit, also when their requests go on in tasks | whoever is let in had its row committed before it counted, and so did everybody let in before: the last count saw them all. `RequestsUseUsage` carries it over to `PortfolioRequests`: each of its steps is one of `CandidateUsage` or leaves it alone |
| `EverybodyIsCounted` (same) | the candidate of every analysis under way or done has a row of its month | `RowsKept`: a request at work has a row of its own or one that it found; rows are never deleted or moved |
| `HistoryTellsTheAnswer` (`AnalysisRequestsProofs`) | what the history says of a batch is what its client was told | `BatchInv`: while a batch is open it has no answer and its row no outcome, so that the steps that write both find neither written |
| `OutcomeIsFinal`, `OverIsNotCancellable` (same) | an answered batch keeps answer and row; nothing that is over can be found by the id its handler ended with | `BatchIdsInv`: only the first id of a batch is ever registered, and ids do not repeat, nor does a single request have one of them |
| `OnlyComputedIsServed`, `ResultsAreKept`, `EntriesStay` (`PortfolioAnalysesProofs`) | completed rows and cache hits show computed results; results stay, and only an error after them turns completed into failed; so does the cache entry's link stay | `CacheInv`: `TaskAndRow` ties the place of a task to its row, and says that what is about to be copied is its source's own result |
| `RequestsServeComputed` (same) | the same of `PortfolioRequests` where calls may fail | every step of it is one of `PortfolioAnalyses` or leaves it alone; the two assessment rows of a race are one more call that raises |
| `PRResultsAreComputed`, `PRResultsStay` (same) | the same of pull-request analyses, their copies and history rows | `PRInv`: as `CacheInv`, with the stations of a request that copies a hit (`PlaceAndRow`) |
| `DeepDivesBounded` (`AnalysisRequestsProofs`) | the overrun is smaller than the number of requests that were past the check together | `PeakKept`: `peak` covers those past the check, and the check that let the last one in bounds the sum |
| `RegistryStaysConsistent` (same) | the dictionaries agree under the handlers of requests and batches | the lemmas about the registry's operations (`RegisterKeeps`, `CleanupKeeps`, `DeadlineKeeps`), one per call |
| `WorkStaysRegistered` (same) | work under an id of its own stays registered until cancelled | an id leaves the registry only by a step of a request with that id or by a cancellation of it |
| `ProcessedEventsWereHandled`, `NoStaleWrites` (`StripeWebhooksProofs`) | processed means handled, late duplicates run nothing, no stale plan or status is written | `WebhookInv`: places fit the kind of event, and late deliveries stand before or after the check |
| `PaidSubscriptionsAreReachable` (same) | an active subscription is found from the row, but for the stated exceptions | `SubsInv`: every name a session loaded is in the row or was replaced there (`NamesInv`), a subscription's own name and its customer's come into the row with its commit (`MadeInv`, `PlacesInv`), and events only tell of what was made (`EventsInv`, `RowInv`) |
| `CancellationsEndPlans` (same) | when all is quiet, no paid plan outlives the cancellation of its subscription | `SubsInv`, and `BackInv` for as long as nothing overlapped and no event came out of turn; see below |
| `CustomersStay` (same) | a customer that Stripe knows is exchanged only where requests overlapped | `SoleInv`: without overlap one request is under way, and it loaded the customer that the row has, or none that Stripe knows |
| `MarkedUsageIsBilled` (`UsageReportingProofs`) | what is marked as reported is in the bill | `ReportInv`: records are fetched in order, so that a total always goes under the earliest open record of its group; the total it replaces was told for the same second, and only a mark missed in between can have dropped a record |
| `UsageIsBilledOnce` (same) | a record is under two seconds only after a missed mark | `OnceInv`: a record whose total's first record is marked is in hand and about to be marked, or was missed, or its user left the plans with overages for good |
| `CountersAreExact`, `PlacesAreLimited`, `RefusalsEnd`, `PRWindowsEnd` (`RateLimitsProofs`) | the four properties of `limits`, for any requests, limits and windows | `RateInv`: a request is let pass on the count that INCR answered, which is exact (`CountsRequests`); `PlacesBounded` counts who has a place or is about to get one and turns the count into a bound by cardinalities of differences; a counter without end is empty, or a pull-request counter whose first request still owes or lost its EXPIRE |
| `TypeCorrect` (`CandidateContextProofs`, `UsageReportingProofs`, `RateLimitsProofs`) | types, and what a station says of the data in hand | one step per action; the other modules' type invariants are part of the theorems above |

`SlotsAreBounded` and `SlotsAreSemaphores` assume `Replies = {TRUE}`; without
it they are false (run `slots_unconnected`). `MarkedUsageIsBilled` and
`UsageIsBilledOnce` assume `OneRun`, one execution of the report at a time, which
the scheduler's loop keeps and an administrator's manual run does not; with two
(`Runs <- WithManual` in `MCUsageReporting`) TLC finds `MarkedIsBilled` violated.

**Why a plan ends with its subscription** takes the longest argument. At rest the claim is a
single fact, but a subscription ends at Stripe long before the row hears of it, and
meanwhile an older update may be at the desk, or a request may be about to
write a plan. The invariant says that somebody will still tell:
`GoneIsTold`: for a paid plan whose subscription was cancelled there is an event in the
queue or at the desk that will be found from the row; `DeletionsLast`: nothing about
a subscription follows its deletion; `OneAtATime`: without overlap one request is
under way; `LoadedInv`, `LateInRow`, `ModifyInv` and `DeskInv` say what a request and a
delivery may have loaded if the row moved on since; `UpdateInv`: before a changed plan
is written, Stripe has told of the change, after anything late. Each was checked
by TLC first, with further combinations of three requests and with 0 and 1
deliveries out of turn. Rolled-back requests need no exception: the event of what
Stripe did makes good for them.

**Shared modules.** `AnalysisRequestsProofs`, `PortfolioAnalysesProofs` and
`StripeWebhooksProofs` each hold the theorems of two components and extend the modules
of both: the first two pairs rest on the same registry and cache and share lemmas, the
third is about the same row and events. That is why the definitions of `BatchRequests`,
`PRAnalyses` and `Subscriptions` have names of their own (`InitBatches`, `NextPR`,
`SpecSubscriptions`). Requests and batches are conjoined in `AnalysisRoutes`; the
variables that `ResultCache` declares for both routes serve each in turn.

**What the proofs corrected.** `replaced` used to remember names without
their column. A subscription and a customer may carry the name of one request, and
with three checkouts `PaidIsReachable` was then false in the model; the proof
stopped at that step and TLC confirmed it. Two cases of `LoadRow` overlapped: TLC takes
the first, TLA+ leaves the choice open, and no proof goes through for an open
choice. And that an empty desk is no delivery had been nobody's assumption
(`NoneType`). The instances of the run are as they were: a third checkout
doubles its time, and the theorem covers any number.

**Only model-checked** are the liveness properties: `RequestsAnswered`, the two
`Answered`, `BatchesAnswered`, `AnalysesEnd`, `BegunAnalysesEnd`, `EventsAreProcessed`,
`UsageIsReported` and `RenewalsRepair`. They rest on fairness, hence on ENABLED, and
on induction over what is left to do, which are beyond the prover. So is
what the events of a subscription amount to when requests overlap or events
are reordered: `CancellationEndsPlan` makes exceptions there, and TLC shows that they
are needed. The two properties that are violated are not theorems, of course:
`CandidateLimitHolds` and `EndIsFinal`.

## 5 Where code and documentation disagree

Three runs expect a violation, listed under `findings`.

- `slots_unconnected`: the dependency that makes the rate limiter gives it a
  `RedisService` nobody connects. Its answers look like free slots, and the configured
  maxima ("Max concurrent analyses per user", `utils/config.py:45`) bind nobody.
- `usage_limit`: a candidate that is refused leaves its assessment row behind
  (`portfolio_analysis.py:75`). The next request finds the row, takes the candidate for
  assessed and admits it without counting, so that more than the "10 candidates/month" of
  `portfolio_analysis.py:396` are analysed.
- `portfolio_end`: the loser of the race to publish rolls back, then raises on an
  expired object in the log line (`portfolio_analysis.py:1147`); its analysis, completed a
  moment ago, is marked failed, although a comment says "Another user's analysis won the
  race - that's fine" (`portfolio_analysis.py:1167`).

The models contain, without a run, what else was met while reading the code:

- The quota counts the row just inserted and compares with `>=`: the last
  assessment of the limit is refused (`portfolio_analysis.py:84`). `QuotaHolds` does not
  ask for that; it allows the limit. Two requests
  can insert two rows for one candidate (`candidate_usage_service.py:92`), after
  which look-ups of it raise for the rest of the month, at the end of a task as well.
- A restarted worker leaves its analyses in PROCESSING, which nothing looks for
  (`portfolio_analysis.py:487`). An analysis under way when the context is reset
  publishes its entry again afterwards (`cache_service.py:29`). If the first update
  of a pull-request task fails, `start_time` is unbound in the except clause, and the
  row stays pending (`pr_analysis.py:591`).
- A reset reads the lock and deletes it later; an analysis admitted in between runs under a
  lock that is gone (`candidate_context.py:316`).
- Two requests of a user in one second share a task id; the first to end takes the
  other's registration away (`analysis.py:237`).
- Two concurrent first analyses with different contexts are both admitted: no
  caller compares the lock it obtained with the one it wanted
  (`candidate_context.py:290`).
- A refusal before `register_task` ends in `UnboundLocalError` in the except
  clause: 500 where 400 or 403 was meant (`analysis.py:402`).
- An answer from the cache does not complete its task (`analysis.py:273`). A
  cancelled analysis goes on and is counted (`cancellation_service.py:143`).
- A worker that dies between INCR and EXPIRE leaves a count without expiry, though the
  comment there says "Set expiry to prevent stale counts"
  (`rate_limit_service.py:108`); with a limit of one the user is locked out for good.
- A key that expires under its holders makes releases count below zero, which a comment
  takes for impossible (`rate_limit_service.py:137`); the SET 0 that follows forgets
  newer holders, and the limit is exceeded.
- Two overlapping deliveries of one event are both handled (`webhook_service.py:59`).
  `stripe_subscription_id=None` is skipped and not written (`webhook_handlers.py:209`).
  An update that comes after the deletion gives the plan back
  (`webhook_handlers.py:48`). A delivery that fails after an overlapping one succeeded
  overwrites processed with failed (`webhook_service.py:81`). The dates of an invoice
  known before its payment become the user's (`webhook_handlers.py:287`). The count of
  attempts is never raised (`system_repository.py:241`).
- The copy of a cached pull-request analysis is stored without a status and stays
  PENDING (`pr_analysis.py:692`).
- A batch is registered under one id and completed under the id of its history
  row, so that it stays listed as running (`analysis.py:633`). One that is refused
  its concurrency mode leaves a history row in processing (`analysis.py:653`).
- A second `invoice.payment_failed` for one payment intent violates a unique key at
  each delivery and is never processed (`webhook_handlers.py:720`).
- "You can upgrade or downgrade your plan at any time" (the help page of the front end,
  line 93): leaving the plan with overages sends Stripe a `remove_items` it does not
  know, and always fails (`subscription_manager.py:314`). A user who subscribes twice
  pays twice: no earlier subscription is looked for, and no route finds it again
  (`subscription_manager.py:183`). The end of the older one then ends the plan, by the
  customer (`webhook_handlers.py:187`).
- A subscription that is never paid for keeps its plan: Stripe's incomplete and
  incomplete_expired both become SUSPENDED, with the paid plan and its quota
  (`webhook_handlers.py:786`, `:831`), and nothing reads the status before it grants what
  the plan allows. This needs no overlap and no reordering; `CancellationEndsPlan` is about
  cancellations for that reason. Nor does "active" mean paid where a webhook comes between a
  route's call and its commit: the status written by the one and the plan written by
  the other end up in one row, which TLC showed for a stronger property.
- Records that are in the bill and unmarked when the process stops are reported again
  under another second (`usage_reporter.py:302`). Two reports at once, an
  administrator's and the loop's, may replace a larger total by a smaller one
  (`scheduler_service.py:467`). Records of users who cannot be billed are fetched first
  for ever and, when they are as many as the limit, keep all others from being reported
  (`billing_repository.py:343`).
- The increment of the user's counter is flushed after the record's commit and
  never committed (`usage_tracking.py:326`).
- A refund of a failed analysis in a later window than its count lets one request
  more pass in that window (`rate_limiting.py:301`). A pull-request window whose
  first EXPIRE fails never ends (`pr_rate_limiter.py:76`). After one transport
  error the limits are off until the process is started again (`redis_service.py:292`).
- No trial can be granted or extended: the check of the administrator has begun the
  session's transaction when `db.begin()` is called (`trial_admin.py:105`).

## 6 What is not modelled

- Inside modelled components: read-only routes, progress percentages, texts and
  scores; `get_current_usage`; `cleanup_expired_tasks` is an action of `Cancellation` and
  covered by its theorem, but nothing in the repository calls it, so it is no
  action of the composed modules.
- The scheduler but for the report: start-up tasks, drift of `next_run`, and the
  monthly reset, which pages by OFFSET through users that change meanwhile
  (`scheduler_service.py:279`).
- Trials: granting and extending cannot run (section 5), activation is one
  transaction under a row lock. Authentication, verification and API keys: rows or
  keys of one user, each changed by one statement or transaction. The key of an API
  client is looked at by a middleware inside the rate limiter's, so that limits of
  keys never apply to the counters of `RateLimits`.
- `TierRateLimiter`, whose `acquire` and `release` have no caller and call methods
  the Redis client lacks; `report_user_overage_usage` and `UsageTracker`'s writes,
  which nothing calls.
- Most lines of the repository are report generation, evidence, fetchers,
  language-model calls, validation scripts, pages of administration and reads.
  They keep no state that two actors share, and stay out.
- Out of reach or of interest: evidence extraction, report generation and the
  language-model client (sequential functions from data to text, about wording),
  GitHub and Stripe clients and e-mail (pure I/O), migrations, administration
  and contact forms (single-row changes without interplay), the command line, the
  front end (a client that holds no state of the server).

## 7 Plan

Done, in this order: the registry, the context lock, slots, quota, portfolio
analyses, single analyses, batches, webhooks, pull-request analyses, usage
reporting, rate limits, subscriptions, the compositions `PortfolioRequests` and
`AnalysisRoutes`, with the proofs of section 4.

What could follow:

1. `Scheduler`: start-up tasks against the loop; the monthly reset that pages
   through users while they change.
2. `Subscriptions` composed with `StripeWebhooks`, so that repeated and overlapping
   deliveries meet the routes.
3. The analysis route composed with `CandidateContext` in place of its refusal,
   behind `RateLimits`.
4. Proofs: every safety invariant and action property that a run checks is proved.
   Further ones worth stating: a weaker `MarkedIsBilled` for executions that overlap;
   a bound on `CancellationEndsPlan`'s exceptions by the events that came out of turn.

## 8 Running it

    tlc -workers 2 -config MCStripeWebhooks.cfg MCStripeWebhooks
    tlapm StripeWebhooksProofs.tla

`PROJECT.json` names module and configuration of every run.
