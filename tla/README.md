# Verification of the CTI platform API

TLA+ models of the parts of this repository that coordinate: who runs the
background services, how work reaches the enrichment queues, how schedules are
kept, what a feed-sync job leaves behind when it is retried, stalled or cut
short, how the search index follows the rows, how the rows of IOCs age and are
hidden beside everybody who writes them, and how playbooks drive sandbox
submissions. TLC checks each model on a small instance; TLAPS proves the main safety properties for every value of the constants.
Every definition is translated from the TypeScript and SQL under `src/`;
`PROJECT.json` ties it to its lines.

Paths below are relative to `src/`; `api/` stands for `apps/api/src/`.

## 1. The system and its components

The platform collects threat intelligence from feeds into Postgres, scores and
enriches it with BullMQ workers (Redis), indexes it in OpenSearch, projects it
into Neo4j, and serves it over REST, GraphQL and WebSocket (`apps/api`, Hono on
Node). `apps/gateway` proxies, `apps/dashboard` and `apps/workbench` are front
ends. Several API processes may run (replicas, `tsx watch` reloads, a crashed one
and its replacement); one of them is meant to own the singleton services. Within
a process everything is one event loop: steps are atomic between two `await`s.
All state that matters is shared: Postgres rows, Redis keys and BullMQ queues.

| Component | State it keeps | Operations | What makes it correct | Module |
|---|---|---|---|---|
| Boot lock (`api/lib/bootlock.ts`, `api/startup.ts`) | one Redis key with a TTL; a heartbeat and a reclaim interval per process | acquire, heartbeat, reclaim poll, fail open, shutdown, exit, kill | one owner; the key outlives late heartbeats; a dead owner is replaced in bounded time | `BootLock`, `SoleOwner`, `BootLockOutage` |
| Work-driven enrichment (`api/services/workListener.ts`, CVE and IOC workers, SQL triggers 0033/0035) | backlog rows in Postgres, dedup keys, job ids, queues, LISTEN connection | trigger, notify, dedup, dispatch, sweep, enrich, reconnect, boot, crash | no row waits for ever; what the dedup lets through is not lost but for a cause; boot catches up | `WorkDriven` |
| Scheduled jobs (`api/queues/scheduler.ts`, `api/services/scheduledJobOverrides.ts`) | override rows in Postgres, repeatables in Redis | PATCH of an override, reconcile, boot of all jobs, cleanup | the schedule of the latest override is there, and nothing else is | `ScheduleControl` |
| Feed-sync runs (`api/queues/workers/feedSyncWorker.ts`, `feedBatchWorker.ts`, `api/services/configStore.ts`) | job state, `feed_sync_runs` rows, the flow of children | run, retry, stall, flow, complete, stamp | rows, stamps and batches agree whatever fails or overlaps; a job ends | `FeedSyncRun` |
| Search index sync (`api/services/db-listener.ts`, `scheduler.ts`, `opensearch/indexing.ts`, `opensearchPrune.ts`) | documents in OpenSearch, LISTEN connection | index on notify, daily or requested reindex, prune | no row is left out; the index converges to the rows; decayed rows leave it | `IocIndex` |
| IOC retention (`api/queues/workers/retentionWorker.ts`, `confidenceDecay.ts`, `scoringEngine.ts`, trigger 0058) | `last_seen`, `risk_score`, `decayed_at`; the worker's page | decay pass, score backfill, and everybody who writes `last_seen` | no fresh IOC is hidden, every stale one is in the end; no score is lost; the jobs end | `IocTable`, `Maintenance`, `IocLife` |
| Report commits (`api/services/reportCommit.ts`) | a draft's status and the rows it imports | commit, dismiss | what a committed report says it imported is there | `ReportCommit`, `IocLife` |
| Sandbox (`api/services/sandbox`, `sandboxPollerWorker.ts`) | report rows | submit, poll, refresh | rows agree with their stamps, and with the vendor in the end | `Sandbox`, `Automation` |
| Playbooks (`api/services/playbooks.ts`, its listener in `startup.ts`) | playbooks, execution rows | match, run, close, enable, delete | a row says what became of its execution; what is disabled stops | `Playbooks`, `Automation` |
| Event streams (`api/services/eventStream.ts`, `api/queues/streamConsumers.ts`) | Redis streams, pending lists | consume, ack, claim; nothing publishes | at-least-once delivery | not modelled |
| Job events (`api/queues/workers/workerEvents.ts`) | what a listener has still to do, in the memory of its process | announce, sync the graph, alert | what is announced is what became of the job, and it is announced | `FeedSyncEvents` |
| Dead letters (`api/routes/admin/dlq.ts`) | DLQ jobs | replay; nothing moves a job there | a lost job is in the DLQ exactly once | not modelled |
| Rate limiting (`api/middleware/rateLimit.ts`) | window counters, warnings, blocks | count, warn, block | a limit is per policy and cannot be overrun | not modelled |
| AI agent (`api/services/agent`) | the log of its runs | turn, tool call | budget and approval hold on every path | not modelled |
| Alerts, federation, response cache, circuit breaker | rows, cache keys, counters | read-modify-write, TTL cache | no lost update; bounded staleness | not modelled |
| Feed connectors, OpenSearch/Neo4j clients, scoring, AI providers, monitors, integrations, HTTP surface, front ends | none of their own, or external | parsing, I/O, CRUD | within the reach of unit tests | not modelled |

How they interact: `startup.ts` takes the boot lock and then starts the
schedules, the work listener (with a sweep) and the database listener. A schedule
adds feed-sync jobs; a feed sync writes CVE and IOC rows, whose triggers notify
the work listener, which adds enrichment jobs; a sync also fans its new IOCs out
as a BullMQ flow whose parent stamps the run. The modules meet at these edges:
`WorkDriven`'s process is one that holds the lock of `BootLock`, `UpsertCve` and
`InsertIoc`, and `Insert` and `Update` of `IocIndex`, are what an `Ingest` of
`FeedSyncRun` writes, and a `Start` of
`FeedSyncRun` is what a repeatable of `ScheduleControl` produces. The modules so
far keep no state of each other: none of them reads what another writes except
through these edges, and each takes the other side as free to act at any time.
Two modules are compositions over shared state: `IocLife` puts the maintenance
worker, the feeds and the commits of a report on one `IocTable`, and `Automation`
lets the executions of `Playbooks` submit to `Sandbox` and die with the
submissions they await. `FeedSyncEvents` extends `FeedSyncRun`: its listeners act
on what an execution returns or throws, in the step that settles the job.

The hard behaviours, each at its line, are the `hazards` of `PROJECT.json`: two
clocks that must agree (lock TTL and heartbeat; dedup window and epoch), state read
before an `await` and used after it (overrides, schedules), commands whose answer
is lost, connections that lose notifications, executions of one job that overlap,
queues that retain ids, and sweeps that take some of the rows.

## 2. What is modelled

### BootLock (with SoleOwner and BootLockOutage)

`lock`/`ttl` are the Redis key; `mode[p]` says where a process is between two
awaits of `startServices`/`startBootReclaimPoll`; `timer[p]` is the one timer that
matters in that mode. Each Redis command (`SetNx`, `CompareAndDelete`,
`CompareAndExpire`) is a helper that covers success, refusal, outright failure and
"applied, answer lost"; the answer to a SET is seen in a later step (`Acquired`,
`Refused`, `FailedOpen`), which is where the interesting races are. `Evict` is
there because `docker-compose.yml` runs Redis with `allkeys-lru`. `Shutdown`
follows the handler's order: heartbeat stopped, lock released, and only then
workers and listeners. `Crash` is SIGKILL. An owner id belongs to one incarnation,
so a crash renames the key's owner to `Ghost`.

`SoleOwner` is the promise: at most one active owner, taken only when there is
none; a process that shuts down is *retiring* and may overlap. It holds until it
is `broken`, which maps to a command that failed or a key that was evicted: from
there on nothing is promised. `ImplementsSoleOwner` is the refinement. `BootLockOutage` adds a counter of how
long nobody serves, to state the bound on an outage.

### WorkDriven

`inbox` counts notifications (they carry only their kind), `window` is the TTL of
the dedup key, `epochJob` whether BullMQ knows the id that carries the epoch.
`handleNotification` is two steps, because it awaits between the SET of the key and
the moment that gives the job id its epoch: `dispatching` counts the handlers between
the two, `DispatchCve` resumes one, in whatever epoch that is, and `straddled` is a
history variable that says that an epoch began with a handler there.

The CVE side keeps the order of `enrichCVSS` (exploited first, `LIMIT` rows in no
order), CVEs that no source can score (`Scorable`), and a job that throws with the rest
of its batch (`FailCveJob`). The IOC side keeps job ids and the retention of finished
jobs, completed and failed ones each with a count of their own (`Retain`), the worker's
early returns for a setting that is off and a value of no known type (`SkipIocJob`:
such a job completes and is retained like any other), its retries (`FailIocJob`), and
the fact that it writes the sources' `verdict` and not `enriched_at`. `Boot`,
`Disconnect`, `Reconnect` (which may have been the last attempt: `givenUp`) and `Crash`
follow `startWorkListener`, `scheduleReconnect` and the sweeps of `startup.ts`.

### ScheduleControl

One `pc` per request and one for the boot; each `await` of `upsertOverride`,
`reconcileScheduledJob`, `setupScheduledJobs` and
`cleanupUnregisteredRepeatables` is a step. A repeatable is (name, pattern), as in
BullMQ's repeat key. `Init` is a quiet system, `InitStale` one that boots with
anything earlier versions and crashes may have left. Two history variables say what
may be expected: `undisturbed`, that nothing but the boot acts since it began, and
`clean`, that no boot and no fault has intervened since a quiet start or an undisturbed
boot.

### FeedSyncRun

Executions `<<job, turn>>` are explicit, because a stalled job runs beside the
execution it overtakes; every execution opens a `feed_sync_runs` row of its own.
The steps are the awaits of the processor with their `try`/`catch`, the refusal of
a late result (`Holds`), retries, the stalled-job check, the flow with its
children, and the batch parent with its stamp. BullMQ and Redis themselves are
external: their actions are what the repository's options and calls rely on.

### FeedSyncEvents

What the platform is told of a sync: every step of `FeedSyncRun`, with the rows the
handler inserts and with the listeners of the job's events beside it. `DeltaCheck`
is the comparison with the `table` that decides what counts as added (`fresh`);
`Insert` and `InsertThrows` come later, so that an overtaken execution, or an earlier
attempt, may have inserted in between. What goes into the batch is up to the feed.
`listener[j]` is what the listener of a job's last event does next: BullMQ emits the
event in the process that settled the job, once, and a listener awaits its calls one
after the other, so one that fails (`ListenerFails`) or a process that dies
(`CrashHeard`) loses the rest. `ReturnHeard` goes by `indicatorsAdded`, `ThrowHeard`
and `StallHeard` by `attemptsMade`. After the bell (`PostBell`) the listener goes
through its lists of sources (`IocSources`, `ActorSources`, `CveSources`,
`KevSources`, in that order: `AfterBell` and its like) and adds to the queue of each
list that the feed is on; a feed on none gets a bell and nothing else. The webhook that
a listener emits first is left out but for its failing, and so is the indexing behind
each sync of the graph, which has a `try` of its own (that of IOCs is a reindexer of
`IocIndex`).

### IocIndex

A row is a version number that every write increments, a document the version it
was made from; that is all the properties tell apart. `Insert`, `Update`, `Decay`
and `Delete` are what the rest of the system does to the table, with the trigger
`Notify` (none for deletions). A handler of the listener is two steps, `ReadRow`
and `IndexRow`, because the embedding and the index call come between; handlers
run side by side and overtake each other. A reindex (`StartReindex`) reads every
row and indexes them later (`BulkIndex`, in any order within and across chunks);
`Reindexers` are the calls of `indexIOCs` under way: the timer's, those of the listener
of completed feed syncs and those of administrators, which all can overlap and of which
a crash takes those of its process. The pruning takes pages
(`SelectPage`) and deletes by id (`DeletePage`). Rows stamped by one UPDATE have
equal `decayed_at`, so a page may be any rows of the right number. The ids are
modelled as they are: `DocId` is not a uuid.

### IocTable, Maintenance, ReportCommit, IocLife

`IocTable` has the columns the maintenance reads and writes: `last_seen` as its
`age` in days, `risk_score`, and the set of `decayed` rows. `Sight` is every
statement that writes `last_seen`, with the trigger of migration 0058, which acts
whenever the date changes, forwards or backwards. `Delete` is a deletion by an
administrator, by ids or by a filter (`batch.ts`), in one statement.

`Maintenance` is the worker of the `maintenance` queue (one job at a time). A decay
is a loop of three calls, `SelectPage`, `WriteScores`, `StampStale`, and between
any two of them feeds, enrichment, a rescoring, deletions and the calendar go on (a row
that is deleted is no longer met by what the page says of it). `Pages`
keeps the ORDER BY, LIMIT and OFFSET as they are: rows of one age come in any
order, and the offset counts rows of a selection that the pass itself shrinks. The
exponential is a choice of a score between the type's floor and the one read. A
backfill (`rescoreAll` with `onlyUnscored`) takes the first page of unscored rows
until there is none; scoring a row may throw now and then (`faults`), and does so
whenever it is tried for the rows of `Unscorable`, which stay in the selection. `raced`
is a history variable: the rows whose `last_seen` was written after the decay had read them. `JobFails` is a
throw or a process that dies, at any step.

`ReportCommit` follows `commitReport`: status check, one upsert per approved IOC
with its `try`, `markCommitted`; `dismissReport` writes the status by id alone.
`IocLife` composes it with the maintenance over one table, where an upsert is one
more writer of `last_seen`. `lost` is a history variable: what a request has imported
or skipped and an administrator has deleted since.

### Sandbox, Playbooks, Automation

In `Sandbox` a submission is its three awaits (insert, vendor, UPDATE), and a
refresh is `ReadRow`, `Answer`, `WriteRow`: what it writes comes from the answer
and from the row *as it was read*, and the UPDATE is by id alone. The poller takes
young unsettled rows with a task and refreshes them a window at a time
(`NextWindow`: `Promise.all`); requests refresh any row beside it. `vendor` is the
vendor's own state of the task; an answer is that state at the time, an error, or a
word that the mapping does not know.

In `Playbooks` an event is evaluated (`eval`): two SELECTs, one for the event's name and
one for its wildcard, each an await of its own (`Lookup`), and then the executions of
what they found, which nobody awaits (`Spawn`). What is disabled or deleted in between
is executed all the same, for `executePlaybook` does not look at `enabled`; a deleted
playbook is an error in `Begin`. Events from outside begin in `Emit`; an
execution goes through its actions one by one, with guards and `continueOnError`
(`Skip`, `After`), and writes its row twice: on beginning and in `Close`. `Notify`
is itself an event: after the deliveries the execution awaits its evaluation, and goes
on in `Notified` with the step that spawns. What a condition or a guard computes is a
choice. `Delete` cascades to the rows, not to the executions under way. `exec` holds executions at
a time: one that is over makes room for the next.

`Automation` composes the two: `SandboxTrigger` submits in the same step as the
execution goes to wait for it, and `ProcessDies` takes an execution, its submission and
the evaluation it awaits together. `ThrowsSomewhere` is a statement that fails, of an
execution or of an evaluation.

## 3. What the runs check

| Run | Instance | Shows |
|---|---|---|
| `bootlock_faulty` | 2 processes, TTL 12, heartbeat 4, lag 1 (ticks of 2.5 s: the real 30 s and 10 s), 2 faults, 1 eviction, 1 crash | `HolderKeepsLock`: one failed or late heartbeat does not cost the key; overlaps only while stopping; a process without the key has a cause; only its owner takes the key away; the lock implements `SoleOwner` until a command fails or the key is evicted |
| `bootlock_live` | 2 processes, TTL 3, lag 1, one fault, eviction and crash, fair | an outage is shorter than `(2 + faults) * (TTL + Lag)` and ends |
| `workdriven_cve` | 3 CVEs, 2 of them exploited and one of these without a score anywhere, batch 2, window 2, one fault, drop and crash, fair | a dispatch is swallowed by its job id only if it straddles an epoch; a CVE that keeps being touched is scored unless rows without a score crowd it out; the boot sweep catches exploited CVEs |
| `workdriven_ioc` | 2 IOCs, one of no known type, sweep limit 1, 1 retained job of each ending, window 2, one fault, switch of the setting and crash, fair | in a backlog that fits a sweep every IOC gets its verdict, or has a job spent in vain for a cause, while notifications come; the boot sweep catches one sweep's worth |
| `schedule_all` | 2 jobs and a retired name; either 3 overlapping requests in a quiet system, or any leftovers, 2 boots, 1 request, 1 fault | the latest override's schedule is there in the end; an undisturbed boot leaves exactly what is wanted |
| `feedsync_all` | 1 job, a batch of none or of 2 IOCs, 1 value of the feed, 3 feeds (of two lists, of one, of none), 2 attempts, 1 stall, 1 fault, fair | stamps and rows agree, a completed job's row announces the batch that exists, rows stay open only for skipped feeds, a job ends, a batch stamps; nothing is announced of a job that did not end so, what was added is announced and goes to the queues its feed is listed for, and a job that used up its attempts is alerted about |
| `index_sync` | 1 IOC with 3 versions, 2 handlers, 3 reindexes (timer, feed sync, administrator), one fault, drop and crash, fair | no row that is not decayed is left out while nothing is lost; once the rows rest the index becomes and stays what these are |
| `index_prune` | 1 IOC, 1 handler, 1 reindex, no fault, fair; TLC finds the property violated | that a decayed row's document is dropped, as the comment of `opensearchPrune.ts` and the roadmap say: it is not (section 5) |
| `maintenance_decay` | 3 IOCs of two types (stale after 1 and 2 days), one of them unscorable, ages 0 to 2, pages of one row, 2 pages per pass, deletions, one fault, fair | a scored row stays scored; once nothing is seen any more and what cannot be scored is deleted, every row is marked although pages shift and jobs fail; a backfill ends |
| `ioclife_all` | 2 IOCs, one unscorable, 2 requests for one report, deletions, one fault of each kind | with feeds and reports as writers, a fresh row is hidden only by the race between the decay's SELECT and its UPDATE; a committed report has imported, or noted as skipped, what its request approved, whatever overlapped or died, but for what was deleted since |
| `sandbox_refresh` | 2 reports, 1 slot of the poller, 1 request, completed and timeout, one loss, fair | the stamp goes with the status whatever is written in which order; a row comes to say what the vendor says, and stays there |
| `automation_all` | 1 report, 2 playbooks (one submits and then notifies, one answers notifications with notifications, by wildcard), 2 executions at a time, 1 event or manual run, one loss, fair | a row left running has lost its process or a statement; a completed execution's submissions carry a task; once the listeners to notifications are disabled, every execution and evaluation ends, those of matches read before included |

Every property of a passing run (all but `index_prune`) has a mutant: the definition it
is about, changed the way a slip in the code would change it, and the run fails.

**Bounds.** Timing constants are ratios, not durations: what matters is how many
heartbeats fit into a TTL and where a window ends in an epoch, and the small values
keep each case (a heartbeat that just fits, one that just does not, a window that
opens in the middle of an epoch). `Max*` constants cap faults, crashes, drops and
queue lengths in the guards and are named in each module; with one of each every
pair "fault here, race there" occurs, and the proofs cover what lies beyond for
the safety properties. Two actors suffice for the races: each is between a process
and one other. Three requests in `schedule_all` let a third one run between
the remove and the add of the other two; `MCSpec` starts in one of two ways, because
three requests beside boots and faults are too many for one graph and the proofs cover
that.
One IOC suffices for `IndexConverges`: rows meet only in the pages of the
pruning, and a document is written from its own row alone; the proof of
`RowsReachIndex` is for any number. Three versions let a handler and a reindex
hold two outdated ones at a time.
In `workdriven_cve` a window of two ticks has an instant inside an epoch, and three CVEs
are an exploited one with a score, an exploited one without and one that these crowd
out of a batch of two. In `workdriven_ioc` the limit of a sweep is below the backlog;
a connection is lost in `workdriven_cve` alone, with which it shares the listener,
because its liveness graph is large.

In `maintenance_decay` three rows, pages of one and a limit of two pages are what
it takes for a pass to skip a row by its own stamps and to stop short of another;
scores are 0 and 1, because what the properties tell apart is scored and unscored.
In `sandbox_refresh` the window is one row, so that the next row waits for the
first (a larger window only lets go of that order, and the proof of
`StampedIffCompleted` is for any); a request beside it makes two refreshes of one
row. `failed` is left out of `Endings` there, because it is settled as `completed`
is, and `timeout` is the one that the poller and the refresh treat differently.
`automation_all` has no refreshes (`Slots` and `Requests` are empty): they do not
read or write what its properties speak of except through `row`, and they are
checked in `sandbox_refresh`; one report and one loss already give the crash
between insert and task. One event from outside, or one manual run, suffices: the
notification it leads to is one that its listener answers again and again.

In `feedsync_all` a feed delivers one value: what a listener asks is whether anything
was added. Its batch is empty or whole (`Batches`), since a part of it goes through what
the whole does. `all` is listed for IOCs, CVEs and their scores, `mitre` for actors,
`cveorg` for nothing, so that every call of the listener is made; the proof of
`AddedAnnounced` is for every feed. A listener may be lost at any of its calls without that being one of the
counted faults, so the properties about it name that outcome.

**Symmetry** is used in `bootlock_faulty` and `schedule_all` alone (safety
only; processes, and requests, are interchangeable).

**Deadlock** is checked except in `feedsync_all`, where all jobs end and
the model, which adds no new jobs, really stops. `ScheduleControl` has an explicit
`Terminated` step for the quiet system.

**Fairness.** Time passes. A due timer or an answered command is served, because
the event loop serves it (each action of a handler is weakly fair). A crashed API
comes back (`Boot` in `WorkDriven`: `restart: unless-stopped` in
`docker-compose.yml`); the stalled-job check runs (`Stall`: every BullMQ worker
runs one). Nothing has to arrive, fail, be disabled or be shut down: data,
requests, faults, crashes and evictions are never fair, and liveness that depends
on them says so in its premise (`KeepsNotifying`, `[](faults = 0)`). In
`IocIndex` the interval of the reindex and the schedule of the pruning fire, but
`Reconnect` is not fair, because the listener gives up after ten attempts (in
`WorkDriven` it is fair, and giving up is one of its outcomes). In `Maintenance` the worker works and the decay's daily job gets its turn
(strongly fair: a queue is served in order, however often other jobs are queued);
nobody has to queue a backfill, or to delete a row. In `Sandbox` the poll is scheduled every five
minutes, calls return, and the vendor does not answer for one row with nothing
but errors for ever (strong fairness of a proper answer, to the poller alone:
nobody has to press refresh). In `Automation` a process that lives goes on with its
executions and evaluations; nobody has to disable anything, which is the premise of
`NotificationsStop`. In
`BootLock` nobody has to start a process, so `ServicesReclaimed` presumes one that
stands by.

## 4. What is proved

All theorems hold for every value of the constants that satisfies the modules'
named assumptions and what the theorem itself assumes.

- **BootLockProofs.** `HolderKeepsLockHolds`: the inductive invariant `KeyInv` is
  the types, the range of each timer (`TimerOK`) and `Covered`: the age of the last
  refresh, `TTL - ttl`, is at most what the failed commands and the lag account for,
  `Late(faults)`, plus the time since the timer was set. Without `Covered`, an
  arbitrary holder with an almost expired key would be allowed; with it, `Fits`
  leaves a positive `ttl` at the latest possible heartbeat.
  `UnguardedHasCauseHolds` and `OverlapOnlyWhileStoppingHolds` follow for timings
  with `Fits(0)`; `ImplementsSoleOwnerHolds` proves the refinement step by step,
  up to the step that breaks the promise. `OnlyOwnerReleasesHolds` needs no more
  than the types: each script compares before it deletes.
- **BootLockOutageProofs.** `OutageBoundedHolds`: while nobody serves, some process is
  on its way to, and the invariant bounds in how many ticks at most it serves if
  nothing fails from now on (`Rest`): the outage so far and the rest stay below the
  bound for the failures so far, and every further one adds a TTL and a lag.
  `OutageObserves`: the count is an observer, so a behaviour with it is one of
  `BootLock`.
- **WorkDrivenProofs.** `SwallowedHasCauseHolds`, for any window and however long a
  handler waits between SET and add: `DedupInv` says of an epoch that began with no
  handler in between that a key set in it outlives it (`KeyOutlivesEpoch`), and that at
  most one such dispatch is under way (`OneDispatch`). Why it is not obvious: the key's
  clock starts anywhere in the epoch, and a handler that straddles its beginning breaks
  it. `IdOnceHolds` and `CooldownHolds`, for any number of sweeps, skips, retries,
  failures and crashes: an IOC has one live or one retained job, never two, and a
  retained one is let go only as the oldest of as many as its ending keeps (`Keep`).
  The lemma about the operator `Retain` (`RetainOne`) carries both.
- **ScheduleControlProofs.** `LatestScheduleSurvivesHolds`, for any number of
  overlapping requests, whatever boots and faults came before: while the system is
  `clean`, for every job its wanted schedule is present, or some request still has to
  remove or add it; that an undisturbed boot leaves it so (`FinishCovers`) is what
  `BootRepairs` adds. The order "remove,
  then read the override, then add" is what carries the proof. `BootRepairsHolds`,
  for any registry and leftovers: an invariant with one clause per phase of the boot.
- **FeedSyncRunProofs.** `StampsAgreeHolds`, `CompletedHasRunHolds` and
  `OnlySkipsStayOpenHolds`, for any number of jobs, attempts, stalls and faults: the
  invariant says per execution what its stage implies for its row, flow and found
  IOCs (`FreshOK`, `FlowOK`, `RowOK`), and per job that its last turn is the one
  that may settle it (`JobOK`). The events only watch (`EventsRefine`: a step of
  `FeedSyncEvents` is one of `FeedSyncRun` or none), so that invariant carries over.
  `AnnouncedAsSettledHolds` adds that a listener at work says how its job has ended
  (`EventsInv`) and that such a job stays as it is (`EndedStays`).
  `FailureAlertedHolds`: attempts are counted in one place, which is heard.
  `AddedAnnouncedHolds`: without a fault no job stalls, so the execution that counted
  is the one that returns (`AddInv`), and the listener has added what its feed is listed
  for up to where it is (`InOrder`). `EventsImplementRun` is the composition itself,
  `EventsSpec => Spec`. `NeverStrandedHolds`, `SyncDescendsHolds` and
  `SettledStaysHolds` are what `SyncSettles` rests on besides fairness: a job that has
  not ended has something to do, a variant (`Left`: the turns it may still take, then
  how far its last execution is) falls with each of its steps and never rises, and an
  ended job stays as it ended. `BatchDescendsHolds` is the same for `BatchStamps`, per
  batch and child (`Ahead`): only a fault takes one back.
- **IocIndexProofs.** `RowsReachIndexHolds`, for any number of rows, handlers and
  overlapping reindexes: `IndexInv` adds that a handler that holds a row has read a
  version of it (or it would index nothing) and that the listener is deaf only
  after a counted loss (or a write could go unnoticed). That the pruning cannot
  undo it is the lemma `DeletePageRemovesNothing`: it asks for ids that no document
  has (section 5). `NothingNewerHolds` and `IndexSettlesHolds` start from one lemma
  about a step (`Following`: where a document, a handler and a reindex take their
  version from). The first bounds every version by the row's. The second is what
  `IndexConverges` rests on besides fairness: while a row keeps its version, the sets
  of handlers and reindexes that hold an outdated one (`Late`, `Old`) only shrink,
  whoever is not among them writes the version there is, and when both are empty a
  document of that version stays.
- **IocLifeProofs**, for any IOCs, types, page sizes and requests.
  `FreshHiddenOnlyByRaceHolds`: the invariant adds that the page it holds is no worse (`HeldIsStale`: what it read as stale is stale or
  raced), so that what it stamps is. `ScoredStaysHolds` needs the floors above 0.
  `CommittedIsCompleteHolds`: whoever is still committing has each approved IOC in
  the table, on record as skipped, deleted since (`lost`), or still to do, and who is
  named in the report is over, so that nothing changes what it did. `ImplementsMaintenance` is the
  composition, `Spec => MaintenanceSpec`: to maintenance an import is a feed's write of
  today's date. Through it `MarksStayHolds` (a row goes only
  by a deletion, and a mark is cleared only by a write of `last_seen` or goes with its
  row: half of `DecayedEventually`) and `BackfillDescendsHolds` (the dues of the rows,
  `Due`, fall with every page and row while no row is added and no scoring throws: what
  `BackfillEnds` rests on besides fairness) are steps of `Maintenance` alone.
- **AutomationProofs**, for any reports, windows, requests, playbooks and losses.
  `StampedIffCompletedHolds` needs that a refresh holds only rows it read as
  unsettled (`ReadUnsettled`): they had no stamp, so what it writes back is
  consistent. `RunningHasCauseHolds` and `CompletedIsTrackedHolds` share one
  invariant per execution (`ExecOK`): where it is, what its row says, and that
  every report of a so far successful execution has its task or is the one being
  submitted; that a task, once written, stays is the reason it survives the
  refreshes. `ImplementsSandbox` is the composition, `Spec => SandboxSpec`: to the
  reports a playbook is one more submitter, and an execution's lost statement the death
  of a process that runs none of theirs. The theorems about reports are therefore
  stated for both. `NoFalseEndingHolds`: a row that says how its task has ended says so
  truly, although every refresh writes what it read earlier; the invariant says it of
  what refreshes have read and been answered as well (`RowTrue`, `CallTrue`), since an
  ended task keeps its ending (`EndingStays`). `RowSettlesHolds` is what
  `RowFollowsVendor` rests on besides fairness: once the task is over, the refreshes
  about to write an older answer (`Late`) only become fewer, any other that is answered
  with a status writes the ending, and when `Late` is empty a row that agrees with the
  vendor goes on agreeing. `ExecutionsEndHolds` is the same for
  `NotificationsStop`: what an execution still has to do (`Todo`), or the evaluation it
  awaits (`Left`), falls with each of its steps; an execution is put under way by hand or
  by an evaluation that had found its playbook enabled, and this ends with it; and with
  no enabled listener the evaluations of notifications find nothing more. A match read
  before is still executed, but once.
- Each module's type invariant (`TypeCorrect`). For `FeedSyncRun` this needs the
  bound on executions by attempts and stalls.

**Model-checked only.** Liveness (`ServicesReclaimed`, `ScoredEventually`,
`IocsEnriched`, the boot sweeps, `SyncSettles`, `BatchStamps`,
`IndexConverges`, `DecayedEventually`, `BackfillEnds`, `RowFollowsVendor`,
`NotificationsStop`) and everything that needs ENABLED: the prover does not reach
them. For `SyncSettles`, `BatchStamps`, `IndexConverges`, `BackfillEnds`,
`RowFollowsVendor`, `NotificationsStop` and, in part, `DecayedEventually` the theorems
above prove the argument up to the fairness: what falls, what never rises again, and
what stays. `OutageBounded` bounds what `ServicesReclaimed` promises. Of
`ScoredEventually`, `IocsEnriched` and the boot sweeps no such half is proved: they
count rows and notifications over many windows. Every safety property that a run
checks is proved.

## 5. Where the code and its words part

Seen while modelling, and reflected in the models, which do what the code does:

- `enrichmentWorker.ts:72` sets severity, confidence, tags and `last_seen`, but not
  `enriched_at`, so a swept IOC stays in the backlog and is enriched again once its
  job id is forgotten; `workListener.ts:203-206` says it is "set by the IOC
  enrichment worker on successful enrichment, so this is naturally idempotent".
- `scheduler.ts:474` removes what it finds, reads the override and adds, with an
  await between each: two requests that overlap both remove before either adds and
  leave two repeatables of one name, or that of a disabled job; `scheduler.ts:449-451`
  says "every prior schedule for that name is dropped before the new one is added".
- `opensearchPrune.ts:86` looks for documents whose `_id` is the row's uuid, but they
  are `ioc-` and the uuid (`indexing.ts:107`, `:456`), so it matches none;
  `opensearchPrune.ts:4-6` says it "Drops documents from the OpenSearch indices for IOCs
  that the confidenceDecay job [...] has marked as decayed", `ROADMAP.md:608-609` that
  "OpenSearch prune deletes decayed-IOC documents daily". `index_prune` shows a decayed
  row that keeps its document for ever. With `DocId(i) == i` (and without
  `DocIdAssumption`) `DecayedDropped` holds, but `RowsReachIndex` does not: a page that was selected before
  a resighting then deletes the document that the resighting has made.
- `workListener.ts:99-100` gives the CVE job an id "so any races in the Redis dedup don't
  create duplicates"; a handler that sets the key in one epoch and adds its job in the
  next lets a second dispatch through in that epoch, which the id swallows, with the news
  of rows written since the first job started (`SwallowedHasCause` says that nothing else
  does).
- `workListener.ts:168`: a listener that has given up stays so until a restart, while the
  API goes on; the liveness of `WorkDriven` presumes that notifications come.
- `enrichmentWorker.ts:20-24` and `:38-41` complete a job without enriching; its id is
  retained all the same, so that an IOC skipped while the setting was off is not enriched
  before 500 later jobs have completed.
- `startup.ts:256` releases the lock before workers and listeners stop, so
  owner and successor overlap; `startup.ts:36-39` speaks of exactly one process.
- `startup.ts:249`: the shutdown hook imports `workerEvents.ts`, and that import
  starts every BullMQ worker, in a process that was refused the lock too;
  `startup.ts:174-176` says only the lock-holder does. `BootLock` has it as
  `workers`, which `Shutdown` has to close whatever the mode.
- `startup.ts:30` discards the function that stops the reclaim poll: a standby can take
  the lock after its own shutdown released it, and exit with it.
- `bootlock.ts:123-124` bounds an outage by one interval; two, and a lag, are
  possible (`OutageBounded` is tight).
- `workListener.ts:11-12`: one wake-up takes one batch and what is left waits for
  the next notification; `startup.ts:199-201`: so does the boot sweep.
- `cveEnrichmentWorker.ts:142`: exploited CVEs that no source can score fill every
  batch, and the others are not looked at while one of them is left (`CrowdedOut`).
- `workListener.ts:213` sweeps with LIMIT and neither order nor cursor.
- `scheduledJobOverrides.ts:127` writes back a row read before: a concurrent patch of
  the other field is lost. `LatestScheduleSurvives` is about schedules and rows
  agreeing, not about which patch wins.
- `scheduler.ts:541` may drop a schedule registered since it resolved the patterns;
  `scheduler.ts:529` leaves the sixth queue out of the cleanup.
- `feedSyncWorker.ts:109` leaves the row of a disabled feed running.
- `feedSyncWorker.ts:188`: a retried sync adds a second batch.
- `feedSyncWorker.ts:201` adds the children without a failure option, so one that
  fails for good leaves the batch in waiting-children; `feedBatchWorker.ts:6-8` says
  the parent runs once every child settles "(success OR failure)".
- Deleted rows keep their documents: there is no trigger for deletions, a reindex
  does not remove anything, and nothing calls `deleteDocument`. `IndexConverges` is
  therefore about live rows.
- `indexing.ts:91` reindexes decayed rows as well, so the next reindex would bring
  back what a working pruning had dropped.
- `retentionWorker.ts:92-134` decays the score it finds, which the day before has
  decayed already, while `confidenceDecay.ts` computes from a base score. A score
  below the type's floor is raised to it; `retentionWorker.ts:107-113` guards only
  unscored rows against what "would invent confidence".
- The pages of the decay shift under its own stamps, so a pass skips rows
  (`DecayedEventually` is what later passes make of that), and a row that a feed
  sees again before the UPDATE is stamped all the same.
- `drizzle/0058_ioc_decay_marker.sql:32` says "Resight = last_seen advanced", but the
  trigger acts on any change: two feeds with different old dates for one IOC bring
  it back at every sync. An enrichment writes `last_seen = now`
  (`enrichmentWorker.ts:77`) and so counts as a sighting.
- `scoringEngine.ts:287`: a row whose scoring always throws stays in the selection,
  and the backfill takes it again for ever, in a worker that runs one job at a time
  (`AllScorable` is the premise of `BackfillEnds` and `DecayedEventually`).
- `retentionWorker.ts:208-214` sets `iocs.status`, a column that the table does not
  have; the statement fails every time and the failure is logged as a warning.
- `reportCommit.ts:84`: overlapping commits and dismissals all go through, and the
  last one decides the status; a commit that dies has imported IOCs from a draft that can be
  dismissed afterwards.
- `sandbox/index.ts:86-121`: a late answer can take a completed row back to running,
  with the verdict kept, until the next poll; `sandboxReports.ts:28-30` says verdict
  and score are "NULL until completion". A refresh takes `timeout` for unsettled,
  the poller for settled.
- `sandbox/index.ts:45`: a row whose process died before it had the task id stays queued; the
  poller asks for rows with a task only, and the vendor may be running it.
- `playbooks.ts:253`: an execution whose process died stays "running" for ever;
  nothing looks for such rows.
- `playbooks.ts:223-261`: a playbook that is disabled between the SELECT that finds it and
  its execution is executed all the same; `playbooks.ts:118` does not look at `enabled`.
- `playbooks.ts:304`: a playbook that listens to `playbook.notification` (or
  `playbook.*`) and notifies triggers itself until it is disabled.
- `alertsStore.ts:114` merges with a row read before, like the overrides.
- `eventStream.ts:319` leaves a failed message to a retry that never comes (the loop
  reads only `>`); nothing publishes to a stream so far.
- `rateLimit.ts:121` keeps one counter per client and window for every policy.
- `workerEvents.ts:36` goes by what the last attempt added: rows that an attempt
  inserted before it threw are in the table for the next, so nobody announces them and no
  graph sync follows. What counts as added includes values of a type that is not
  inserted (`otxSync.ts:68-75` and `:148`); these are added again at every sync.
- `otxSync.ts:205` notes a feed that cannot be fetched and returns, so that its job
  and its row say completed and no failure is heard of.
- `workerEvents.ts:155` goes by `attemptsMade`: a job that fails because it stalled too
  often may have attempts left, and then raises no alert.
- `workerEvents.ts:63`, `:89`, `:113`: news of a feed on none of the lists (`cveorg`, `ofac`,
  `hibp` and others) gets a bell and no sync of the graph.
- `workerEvents.ts:43`: what a listener has still to do is gone with its process, or
  with the first of its calls that fails (`:27` is the webhook); nothing repeats it.
- `definitions.ts:5` and `workerEvents.ts:179` say failed jobs move to the
  dead-letter queue; nothing calls `moveToDeadLetter`.

## 6. What is not modelled

Not modelled for good: feed connectors, clients of external engines, scoring,
AI providers, monitors, the HTTP surface, the front ends and the vendored
`workbench-core` (pure I/O, parsing or CRUD; see `components`); these are most of the
code by lines. Written but without behaviour in the running system: the circuit
breaker (`getBreaker` is never called), the dead-letter queue (nothing calls
`moveToDeadLetter`) and the event streams (nothing publishes). The AI agent is one
loop in one request, whose course is the model's answers. Within the modelled
components the notes of `components` say what is left out: provider choice and
date pass of the CVE worker, one-off triggers, the deletion of old logs,
conditions of playbooks, reads.

What would come next, in this order: `RateLimit` (which policies share a counter),
and `EventStream` and the dead-letter queue once something publishes and something
moves a failed job.
