# Formal models of the portal and its research agent

TLA+ models, TLC configurations and TLAPS proofs for the Django portal in `src/`: `agent_runtime` (research runs,
questions, approvals) and `aggregator` (sources, crawling, ingestion, the paid model's budget), and for the WeWe RSS portal
beside it (`wewe-rss/portal`), which collects the articles of WeChat accounts. Paths below are relative to `src/`. `PROJECT.json` maps every definition to the lines it stands for and lists the hazards line by line.

## 1. The system

Django web processes, Celery workers (one worker of concurrency 1 for agent runs, one for the general queue, started by
`docker-compose.release.yml`), a Redis broker with late acknowledgement (`acks_late`, `reject_on_worker_lost`), a
relational database whose row locks (`select_for_update`) are the only synchronisation, and a browser that follows a run
over server-sent events. Everything hard in it comes from the gaps *between* transactions: a process that dies, a message
that arrives twice, a row read before and saved after somebody else changed it. The WeWe RSS portal is one Node process:
its calls interleave at every `await` and share two guards in memory.

| component | state it keeps | operations | interacts with | what is hard | what makes it correct | module |
|---|---|---|---|---|---|---|
| Research run lifecycle (`admission.py`, `tasks.py`, `research/runtime.py`) | `AgentRun.status`, `input_json.dispatch_meta` (delivery state, token, `execution_started`), `AgentRunEvent` | admit / reuse / retry, publish, claim, execute, save, recover, cancel | broker, event stream, approvals, budget | duplicate publication, redelivery, worker loss at every step, hard limit, cancellation at every step | paid at most once, quotas hold, no recovery of a living execution, cancellation wins, every accepted run resolves | `ResearchRun`, `RunLifecycle` |
| Tool approvals (`research/approvals.py`, admin, `request_agent_repair`) | `AgentApproval.status`, its run | request, approve, reject, execute | run rows, crawl jobs | decision races the command that requests it, crash between decision and tool, cancellation meanwhile | no tool without a persisted decision, a decision stands | `Approvals` |
| Event stream and research page (`views.py`, `research.html`) | handler cursor; page's `currentStatus`, `Last-Event-ID`, requests in flight | poll, send, reconnect, synchronise, cancel | run rows and events | answers overtake events, streams end before the last event, connections break | nothing skipped or repeated, no false end shown, end is learnt and stays | `EventStream` |
| Crawl jobs and scheduling (`aggregator/tasks.py`, `recover_stale_crawl_jobs`, `retry_source`, self heal) | `CrawlJob`, `Source.enabled`, `next_crawl_at`; messages | schedule, publish, pick, crawl, close, recover, heal | ingestion, approvals | rows and messages are not linked; lost publications; late saves over recovered rows | one running job per source, no forgotten row, no rewritten history | `CrawlJobs` |
| Paid model budget (`aggregator/services/ai.py` and its four callers) | `AIUsageDaily.cost_cny`, reservations in memory | estimate, reserve, finalize, release | questions, planner, answers, analysis | concurrent reservations, midnight, crash with a reservation, failure after the answer | day's budget never exceeded, books balance | `Budget` |
| Crawl failures (`services/failures.py`, `pipeline.py`, recheck / cleanup / acknowledge commands) | `CrawlFailure` rows: open or resolved, kind, acknowledgement | record, resolve, recheck, clean up, acknowledge | crawl jobs, WeWe RSS | every statement of a visit commits by itself; several writers of one URL | an uncrossed visit leaves exactly the row it found and heals duplicates, an acknowledged page is one that is gone | `CrawlFailures` |
| WeWe RSS import (`tasks_wewe_rss.py`) | its own `CrawlJob`, failure rows | take the Source's row lock, insert a running job, import, record failure | crawl jobs, crawl failures | shares failure rows with crawls of the same source; its job may be recovered under it | one import at a time, an open failure is not lost | its failure rows in `CrawlFailures`, the rest not |
| Campus questions, sessions, memory (`agent_runtime/services.py`) | `AgentSession` totals, `AgentMessage` | ask, answer, remember | budget, index | two questions of one session save totals read earlier | totals are the sum of the messages | left to do |
| Per-IP admission counter (`admission.py`) | one cache key per address and day | take, give back | research runs | midnight between take and give back, overlapping takes, eviction, cache outage, death | no day above its limit but for units taken by others, nothing refused keeps a unit | `IpQuota` |
| RAG index (`agent_runtime/services.py`, `tasks.py`) | `ContentChunk` rows and search documents per item | index task, rebuild, deletion | ingestion, staff, self heal, questions | tasks and rebuilds of one item cross; attempts fail half way; publications are lost | an undisturbed pass leaves exactly the item's chunks, every text is indexed in the end | `RagIndex` |
| Research graph (`research/workflow.py`, `tools.py`, `planner.py`) | plan, evidence, replan counter, steps | plan, retrieve, verify, replan, answer | run lifecycle, budget | failing tools, second plan, time limits | ends, replans at most once, an answer has evidence | left to do |
| Ingestion pipeline (`services/pipeline.py`, `gate.py`, `dedupe.py`) | `RawDocument`, `ContentItem`, duplicates | fetch, gate, dedupe, analyse, publish | crawl jobs, budget, index | partial failure of one item, concurrent ingestion of one URL | one item per URL, unpublished stays unpublished | left to do; its writes to items and failures are in `RagIndex` and `CrawlFailures` |
| Evaluation (`evaluation/`) | cost so far | run cases | budget | one process, run by hand | cap held | not modelled |
| Self heal (`services.py`, `agent_self_heal`) | – | fail stale jobs, resend retries, rebuild chunks | crawl jobs, failures, index | saves over a list read earlier | see crawl jobs and index | in `CrawlJobs` and `RagIndex` |
| WeWe RSS portal (`wewe-rss/portal/dist/trpc/trpc.service.js`) | `inProgressHistoryMp`, `isRefreshAllMpArticlesRunning`; feeds, articles, accounts | collect a feed's history, stop it, refresh all feeds, refresh one | WeChat platform, WeWe RSS import | a call's guard is taken or reset by another while it sleeps; failures; resumption by counting | guards do not stick, histories have no hole, every call ends | `RssHistory` |
| Accounts, portal pages, fetching and extraction, admission key cleanup, deployment | – | filters, read-only pages, parsers, procedures | – | – | – | not modelled |

## 2. Modules and how they correspond to the code

One transaction (or one request to another process) is one step; between two of them any process may run. A branch that
changes nothing is a stuttering step. A definition named `Mut…` is a plausible bug of the definition after it; no
specification uses it, it exists to show that the properties can fail.

**`ResearchRun`**. Runs are identified by `client_request_id`; a request is one POST, its name also the publication token
and the identity of the one message it may publish.
- *Web*: `Create` / `RetryDispatch` / `Reuse` are the three branches of `admit` under the owner's row lock; `BeginDelivery`,
  `PublishReaches`, `PublishIsLost`, `RecordSuccess`, `RecordFailure` are the pieces of `_deliver` around the broker call,
  which may report failure although the message arrived; `WebCrash` may strike between any two. `Cancel` is
  `cancel_research_run`.
- *Worker*: `TakeToExecute`, `DropDuplicate`, `DeferRecovery`, `TakeToRecover`, `TakeToFinishCancellation` are what
  `execute_research_run_task` decides from the row it reads; `Claim` and `Begin` the conditional update and the re-read;
  `SaveOutcome`, `LogCompleted`, `Raise` the graph's ends; `Recover`, `LogRecovered`, `FinishOrphan` the recovery.
- *Faults*: `WorkerLost` (message put back), `Reconnect` (put back while the worker carries on), `HardKill` (acknowledged).
- *Time*: `age` is the time since the row's last time stamp, in units in which 60 s, 100 s and 130 s are 1, 1 and 2: what
  matters is that a publication may be repeated, that the hard limit is below the recovery delay, and that time passes.
- `EXECUTING`, `VERIFYING`, `RUNNING` are choices of the model that no code assigns to a research run.
- Two workers in a run stand for a rolling deployment or a broker reconnection; the deployed concurrency is 1.
- Left out: the per-IP counter (`IpQuota`), the wider quota of the shared public user, progress events, `run.replayed` (a replay is an
  admission with a fresh key). The two reads at the head of the task are merged into `seen`.

**`RunLifecycle`** is what the runtime promises of a run with no web request, broker or worker in sight: states, and that
it is paid once, from `running`, never once cancellation is asked. `ResearchRun` implements it (`ImplementsLifecycle`).

**`Approvals`**. `CreateRun` … `LogRequested` are the four commits of `request_agent_repair`; `Reject` / `Approve` the
transaction that decides; `CallTool`, `SaveApproval`, `SaveRun`, `LogOutcome` what follows without a lock. Approvals do not
share rows, so one suffices. `disturbed` and `overtaken` are history variables: the approvals with a crash, or on which a
second decision was taken while the first executed; and those whose command saved `waiting_approval` after their decision had
saved its outcome, which `UndisturbedOutcome` finds left waiting. A cancellation excuses nothing.

**`EventStream`** has one run (the steps of `ResearchRun` that change status or log, those of the web processes
`DispatchFails` and `RetryDispatch`, which append no event, among them), one SSE handler (`ReadEvents`, `Send` are its two
queries) and one tab: `Connect` / `Receive` / `StreamEnds` / `Break` / `Refuse` the EventSource, `SyncRead` /
`SyncAnswer` / `SyncFails` `syncRun` with its one-in-flight rule and 3 s throttle, `ClickCancel` … `CancelAnswer` the cancel
button. The stream's deadline is a nondeterministic end. `misled` is a history variable: a request retried the failed dispatch
after the tab had shown "failed", or had it in an answer on its way. Session expiry and submitting from the page are left out.

**`CrawlJobs`** has one source (sources share neither rows nor messages). Rows and messages are separate, as in the code,
where a task takes the oldest queued row whoever sent the message. `old` stands for the operator-chosen age. The reachability
probe, the length of the backoff and the commands that crawl without a broker are left out.

**`Budget`**. `EstimateQuestion` is the lockless check of questions (day and month), `ReadDate` / `Reserve`
`reserve_deepseek_budget`, `Finalize` / `Release` its ends, and `Crash` leaves what is reserved. A question's second HTTP
attempt shares its reservation. Assumed: a reported cost does not exceed its estimate (prompt at one token per character,
answer at `max_tokens`). Not modelled: what the provider bills for calls that fail, and a soft time limit in the instant
between the commit of `finalize` and the assignment that remembers it.

**`RagIndex`**. An item's text is a number, cut into `size` chunks; rows and search documents hold the number they were cut
from. `Ingest` / `IngestKnownText` are the two ends of `ingest_extracted_document`, `Publish` the task sent after the commit;
`ChangeVisibility` and `ReextractItem` are staff actions that send nothing. `ListKnown`, `WriteRow`, `TrimRows`, `Unindex`,
`IndexDocuments` are the statements of `upsert_rag_chunks_for_item`, which no transaction joins, for the item read by
`TakeTask`; `AttemptFails` is the automatic retry, after the soft time limit too, `HardTimeLimit` the kill at 75 s, which is
acknowledged and not retried, `WorkerLost` the redelivery. `RebuildRagIndex`, with and without `--no-meili`, and `SelfHeal` start
`rebuild_rag_chunks` on a snapshot of the newest public items. `trust` is a history variable: `stale` from a commit until a
task reads the item, `task` or `rebuild` while one works that nothing has crossed, then `current`, or `rows` after
a rebuild that sent nothing to the search engine; `excused` once a publication was lost, a task given up or killed, staff
changed the item without a task, or the two wrote over each other. A search engine is configured.
Left out: the commands `reclassify_items` and `reanalyze_items`, which change indexed text and send nothing, embeddings,
merging of duplicates, edits in the admin form, the portal's own search index.

**`IpQuota`** is the counter of one address. `Add`, `Incr`, `GiveBack` are the cache commands of `_reserve_ip`, each atomic in
Redis and each with a key computed anew from the date; `Commit` / `RollBack` the end of `admit`'s transaction, `Publish` /
`DispatchFails` that of `_deliver`. `Midnight`, `Evict`, `CacheFails`, `AnswerLost` and `Die` may strike between any two.
`held` says which day's counter has a request's unit; `strays` and `broken` are history variables: units taken from a counter
by others than their holders (returned to the wrong day, or evicted), and the requests that met a fault.

**`CrawlFailures`** is one URL of one source. `Visit` is a visit by the crawler, the import or the recheck command with its
outcome; `MarkResolved`, or `ReadLast`, `Create`, `ResolveOthers`, `Save`, are the statements that follow, which no
transaction joins; `Cleanup` / `ResolveOlder` the two of `cleanup_crawl_failures` for the URL, `Acknowledge` the locked save of
`acknowledge_crawl_failures`. `ListPage` is a listing page that was fetched: its failures are recorded like an article's, a
success resolves nothing (`pipeline.py:118-124`). `recent` orders rows by `updated_at`, their numbers are the order of
`created_at`: the recorder keeps the newest by the one, the cleanup by the other. `alone` and `settled` are history variables:
the visits nobody else ran beside, and what the last of them that recorded or resolved found. Left out: when a failure is due
again (a visit may come at any time).

**`RssHistory`** is the service object of the WeWe RSS portal. What a call does between two awaits is one step: a history is
`RequestHistory`, `ReadFeed`, `CountArticles`, then pages of `PickAccount`, `Store`, `Update`, `NextPage`; a refresh
`RequestRefresh`, `ListFeeds`, pages, `NextFeed`; `RequestOne` refreshes a single feed. `End` is the `finally` block, which
resets what the calls share, whosever it is by then. `FetchFails` and `QueryFails` are a failing request or query at any
await. The router is not in the repository and is modelled from its callers, the feeds page and `wewe-rss/setup_wewe_rss.py`:
any feed may be asked for at any time, and `StopHistory` is the page's stop button. `crossed` is a history variable: the
feeds whose history was begun while another was under way. Articles are numbered from the newest and none is published
meanwhile; the loop's limit of 1000 pages is not reached.

`MC*` modules add only symmetry and constants; `*Proofs` modules hold the theorems.

## 3. Runs

| run | instance | shows |
|---|---|---|
| `run_quota` | 1 user, 2 keys, 3 requests, 1 worker, limits 1 | `ConcurrencyQuota` and `DailyQuota` hold however creation, retry after failed dispatch, publication, execution and midnight interleave (1.7 M states) |
| `run_race` | 2 users, 1 key, 2 requests, 2 workers, 2 losses, 1 hard kill | the safety of one run under every fault: paid at most once, never executed before its claim or behind a reported failure, no recovery during execution, cancellation recorded once and honoured, sent runs deliverable, and `RunLifecycle` implemented (1.3 M states) |
| `run_live` | 1 run, 2 requests, 2 losses | `SentRunsResolve`: a published run leaves the queue and its work ends (0.27 M states) |
| `run_stuck_cancel` | 1 run, 1 request, 1 loss | **refuted**: a cancellation that lands between the recovery's read and its compare-and-set is never finished |
| `approval_decide` | 1 approval, 3 clicks | no tool without a decision, settled decisions stand, undisturbed ones end as they should, cancelled meanwhile or not, but for overtaken runs left waiting (52 k states) |
| `stream` | pages of 2, 1 progress event, 2 faults (failed dispatches among them), 1 refusal, 1 cancel click | every event once and in order; no false failure or cancellation is shown, but a failed dispatch that was retried; only the cancel answer takes a page back from an end; the page learns the end (1.24 M states) |
| `crawl_jobs` | 1 slot, 4 rows, 1 hand-sent message, 2 faults | one running job, no forgotten row, no rewritten history, every row resolves (0.14 M states) |
| `budget` | 2 questions, 2 other calls, costs 1–2, day 3, month 4, 2 days | the daily budget holds and the books balance (1.85 M states) |
| `rag_index` | 1 item, 2 chunks, 2 texts, 1 retry, 2 interventions, 2 faults | an undisturbed pass leaves exactly the item's rows, and its chunks can be found unless it was a rebuild with `--no-meili`; every text is indexed in the end (1.55 M states) |
| `ip_quota` | 5 requests of one address, limit 2, 2 days, 2 faults | no day admits more than its limit and the units others took; nothing refused keeps a unit, but for faults and midnight (0.56 M states) |
| `crawl_failures` | 4 visits, 1 cleanup, 1 crash, acknowledgements at any time | acknowledged rows are of pages that are gone; an uncrossed visit leaves exactly the row it found, duplicates of crossed ones included (0.94 M states) |
| `rss_history` | 2 feeds (3 articles and none), pages of 1, 2 histories, 1 refresh, 1 retry, 1 account, 1 stop, 1 fault | guards do not stick, an uncrossed history has no hole and is over only when complete, every call ends (0.4 M states) |

*Why the bounds are enough.* Two requests are needed for a duplicate publication and for reuse; a third for a quota with a
retry in between. Two workers are the least for "executed twice" and "recovered while running"; a loss and a reconnection
together exercise redelivery of a redelivered message. Two pages of events and one of each fault cover every
program point of the handler and of the page. Four rows allow a crawl running, one waiting, one recovered and one made by a
task. Two days and four calls let a reservation of each kind cross midnight beside another. Two texts of one or two chunks let an
item shrink and grow, two interventions let a rebuild cross a change; with two items and one intervention the same properties
hold (2.3 M states). Five requests let an address be at its limit while two more overlap between `incr` and `decr` and one of the
day before returns its unit. Four visits are two that leave duplicates and two that meet them beside the cleanup. A feed of three
pages has a page to resume at, one after it and a last one; the feed without articles is resumed at page 0; one stop, one fault
and one account reach every `finally`. `MaxLost`, `MaxKilled`, `MaxFaults`, `MaxRefused`, `MaxCancels`, `MaxProgress`, `MaxChunks`,
`MaxTexts`, `MaxJobs`, `MaxByHand`, `MaxDay`, `MaxCrashes` and `MaxStops` bound what the environment may do; they
restrict no step of the program (`Room` in `CrawlJobs` withholds producers and faults only).

*Limits found while choosing them.* With two worker slots, or with a crawl started by hand beside the worker,
`QueuedJobsHaveMessages` is false, because `crawl_source` looks for a running job and takes its own without a lock. The
model has the deployed single slot; the hazard list keeps the line.

*Deadlock* is checked in `EventStream` and `CrawlJobs`. The others have finitely many requests, clicks, calls, texts and visits and
really stop.

*Fairness.* `ResearchRun`: weak fairness of each worker's steps and of time, since a worker process that is alive takes the
next message and finishes what it holds; nothing about web processes, users or faults. `EventStream`: the handler polls in a
loop, the browser dispatches and reconnects, requests are answered but for `MaxFaults` of them, and three seconds pass;
nothing about the worker or the user. `CrawlJobs`: producers go on to send after their commit and the worker works;
`RagIndex`: the same. `RssHistory`: queries are answered, a request to the platform is answered or times out after its 15 s, and
the timer of a sleep goes off; nothing about the people and scripts that ask. `Approvals`, `Budget`, `IpQuota` and
`CrawlFailures` have safety properties only.

## 4. Proofs

Each `*Proofs` module shows that an inductive invariant holds for every value of the constants that satisfies the module's
assumption, and derives the properties from it. None of the safety properties is inductive by itself. `CrawlProofs` is about two
components of the same crawl, each with its own specification (`Spec` of `CrawlJobs`, `FailuresSpec` of `CrawlFailures`).

| module | properties proved | invariant, and why it is needed |
|---|---|---|
| `ResearchRunProofs` | `TypeOK`, `ExecutedAtMostOnce`, `UnclaimedNotExecuted`, `NoRecoveryWhileRunning`, `RecoverableRows`, `CancelIsHonoured`, `CancellationRecorded`, `ConcurrencyQuota`, `DailyQuota`, `SentRunIsDeliverable`, and the refinement `ImplementsLifecycle` | `TypeInv`: how workers, messages and requests refer to each other. `SafetyInv`, `DeliveryInv`, `LifeInv`: see below |
| `BudgetProofs` | `TypeOK`, `DailyBudgetHeld`, `BooksBalance` | `BudgetInv`: types, a reported cost within its estimate, the property. The books need `BudgetInv`, since a subtraction cut off at zero would unbalance them: see below |
| `ApprovalsProofs` | `TypeOK`, `ToolNeedsApproval`, `UndisturbedOutcome`, `DecisionStands` | `Persisted`: whoever decides has left a decision on the row. `InStep`: until the one who decides saves the run, he finds approval, calls and run where the command and his own steps left them (`Finds`); with nobody deciding they match, or the run waits because it was `overtaken` (`Settled`, `Rests`) |
| `EventStreamProofs` | `TypeOK`, `NothingSkippedOrRepeated`, `ShownEndIsTrue`, `ShownEndStays` | `IdsInOrder`: ids handled, on the wire, read by the handler and in the log each go on where the one before ends. `WorkerAt`, `Truthful`: what a worker can still change at each of its points, and that every event, answer and page that says failed or cancelled is backed by a row that only the retry of a failed dispatch will change (`Told`). `ClosedAtEnd`: a page that shows an end follows nothing |
| `CrawlProofs`, jobs | `TypeOK`, `OneRunningJob`, `QueuedJobsHaveMessages`, `EndedJobsStay`, for `Workers = {w}` | `Alone`: between "no other job is running" and "mine is", none starts. `Awaited`: waiting rows are counted by messages, publications in hand and those that failed. `HeldNotSucceeded`: only its task ends a row with success. `RoomLeft`: each message leaves room for the row it may create |
| `CrawlProofs`, failures | `AcknowledgedIsGone`, `SettledOutcome` | `InHand`: what a recorder holds is a row with a failure. `AloneSees`: what a visit that nobody crosses has read of the rows is still true |
| `RagIndexProofs` | `TypeOK`, `RowsFollowItem`, `DocumentsFollowItem` | `TrustIsEarned`: a task (`TaskProgress`) or rebuild (`RebuildProgress`) of an item that nothing has crossed since it read it has the item as it is in hand, the chunks it wrote so far are the item's, and past the trimming so are all rows; a rebuild that sends nothing earns the rows alone (`RowsFollow`). `TaskHas`, `RebuildHas`, `Cuttable`: what is in hand is public and has chunks |
| `IpQuotaProofs` | `TypeOK`, `DailyLimitPerIp`, `UnitsReturned` | `CounterCounts`: a day's counter is the number of its holders less the units others took; `NoKeyIsZero`; `HeldUnits`: a unit is taken once, and its key stays while its holder meets no fault |
| `RssHistoryProofs` | `TypeOK`, `GuardsDoNotStick`, `HistoryHasNoHole` | `RecordOwned`: while the record names an uncrossed feed one history is under way, so that nobody else counts up its page. `FilledBefore`: a call about to fetch a page has all articles of the pages before it |

In `ResearchRunProofs`, "paid at most once" needs that a claimed, unstarted run has not been paid (`ClaimedIsUnpaid`), that
one worker holds it (`OneExecutor`) and that nobody works on an unclaimed run (`UnclaimedIsFree`), which in turn needs that a
failed dispatch leaves the run failed; "no recovery while running" needs the clock (`ExecutionIsYoung`: an execution is at most
`HardLimit` old; `RecoveryIsLate`: a recovering worker saw at least `RecoveryDelay`) and uses `HardLimit < RecoveryDelay` only.
The lemma `QuietStep` disposes of the many steps that start no work: an invariant survives if no worker gains a commitment
(`NoNewCommitment`) and rows only move on (`RowsMoveOn`). `RecoverySawPlanning` says that what a recovering worker compares with
is a claim, so that its compare-and-set cannot cancel or fail anything else.

On top of `SafetyInv`:

- *The quotas.* Only `Create` and `RetryDispatch` add to the runs that are counted (`OnlyAdmissionAdmits`), and they add one, of
  one owner, below the limit (`AdmissionAddsOne`); every other step leaves a subset (`NoMoreRuns`). This rests on the owner's row
  lock, which makes the count and the insert one step, and needs `IsFiniteSet(Runs)`.
- *The log of cancellations.* Each step leaves being cancelled and the number of `run.cancelled` alone, or changes both
  (`CancellationStep`); `AppendCounts` is the arithmetic of the log.
- *No accepted run is lost* (`DeliveryInv`). The run a queued row's token names is published when the row says "sent"
  (`SentHasMessage`). A message is *spent* once its run has left the queue or has another token, and stays so; workers go past the
  claim, or acknowledge, with spent messages only (`KeptIsSpent`, `AckedIsSpent`).
- *The refinement* (`LifeInv`). `LifecycleIsImplemented` maps every step to a step of `RunLifecycle` or a stutter. A worker
  relies on what it does not read again: the row it claimed is still active, if perhaps being cancelled
  (`ClaimStands`), the outcome it saved is an outcome still (`OutcomeStands`), and the run is paid for (`WorkIsPaid`).

*Sums.* `BooksBalance` is a sum over a set of calls, a fold that the library defines by `CHOOSE` of a recursive function on its
subsets. `BudgetProofs` shows that such a function exists and that the fold is it (`IsTotal`, `SumsAgree`), that any element may be
split off (`TotalSplits`), and that two sums which differ in one element differ by its share (`TotalChanges`); the induction is on
a set of numbers (`Everything`), not on a formula. Each action then moves a day's row and one call's charge alike
(`OneCallMoves`). The one assumption is that the calls are finitely many.

In `RagIndexProofs` the theorems are about items whose `trust`, a history variable, is `current`, or for the rows also `rows`
(a rebuild with `--no-meili` ended): the last pass over them went
through with nothing crossing it, and nothing has changed since. A change makes an item `stale`, and a pass that something
crossed leaves it `excused` or `stale`; the theorems hold under any interleaving of ingestion, staff, retries, lost workers and
rebuilds. `NewestIsIn` (a finite set of items has a newest) is what tells which item a rebuild has come to.

*Only model-checked*: the liveness properties (`SentRunsResolve`, `PageLearnsOutcome`, `QueuedJobsResolve`, `IndexCatchesUp`,
`CallsEnd`) and the refuted `CancellationCompletes`: fairness and `ENABLED` are out of TLAPS's reach. Every invariant and action
property that a run checks is proved.

## 5. What the models found

One run ends in a counterexample (`PROJECT.json`, `findings`): a cancellation that is never finished (`tasks.py:33`). Met while
modelling, without a run of its own:

- A second click on an approval whose tool is still being called calls the tool again (`research/approvals.py:59`):
  `UndisturbedOutcome` is about the others. A rejection is accepted then, too, and a decision saves a run's status over a
  cancellation (`approvals.py:84`, `:93`).
- The approval is committed before its run is marked as waiting (`approvals.py:30-42`): a decision in between is overwritten, and
  the run waits for a decision that nobody will take again (`overtaken`).
- A run whose dispatch failed is shown as failed; a request with the same key puts it back in the queue (`admission.py:83-86`),
  but a tab that shows "failed" has closed its stream and `syncRun` drops the status `queued` (`research.html:163`): it goes on
  showing the failure while the run executes (`misled`).
- A failure of a listing page is never resolved by fetching it again (`pipeline.py:118-124`); only the other paths that visit the
  URL (`recheck_crawl_failures`) resolve it.
- `rebuild_rag_index --no-meili` renews the rows and leaves the search engine with the documents of the text before, or none
  (`services.py:202`); nothing repeats an index task killed at its hard limit (`agent_runtime/tasks.py:50`), which it reaches when
  the soft limit's exception is swallowed (`services.py:270`, `:284`).
- The answer to the page's cancel request is shown without the guard that `syncRun` has (`research.html:295`), so that a page may
  go back from an end; `ShownEndStays` excepts that step.
- A unit of the per-IP counter that is returned after midnight lowers the next day's counter (`admission.py:39`); requests that
  overlap above the limit may refuse one that would have fitted; an evicted key forgets the day. `DailyLimitPerIp` counts these
  as `strays`.
- Crossed writers of failure rows may leave none open after a failure: the recorder saves everything but `resolved_at`, also to
  a row resolved meanwhile, and the cleanup keeps the row updated last where a recorder holds the one created last
  (`cleanup_crawl_failures.py:25`). The next visit that nobody crosses repairs it.
- WeWe RSS portal: a history superseded by another feed's resets the record when it ends and so stops its successor
  (`trpc.service.js:242`; `setup_wewe_rss.py` starts the histories of all feeds three seconds apart), or counts up the
  successor's page (`:238`). Stop and start within the sleep leave two loops that share one page counter and may skip a page; a
  later history resumes at the counted page, above the hole, and once the feed is marked as having no more the page does not
  offer to fetch it. Two refreshes of all feeds may run, as the flag is set after a query (`:255`), the first to end clears it for
  both, and one failing feed ends the refresh of those after it. Accounts answered with 429 are logged as blocked but never
  are. A feed without stored articles is asked for page 0.
- `README.md:14` promises that answers cost nothing beyond a monthly budget; `reserve_deepseek_budget` (`ai.py:184`), the only
  check of crawl analysis, planner and research answers, compares with the day alone.
- `README.md:16` and the action `rebuild missing rag chunks for N item(s)` (`services.py:596`): self heal rebuilds the *newest* N
  items, not the N that are missing.
- The search engine keeps documents of chunks that are gone: `_delete_meili_documents` swallows failures (`services.py:284`), a
  task that dies between deleting rows and documents no longer knows the ids, and `rebuild_rag_chunks` deletes none.
- `docs/api/research-agent.md:3` says a repeated key does not enqueue twice; `_deliver` publishes again once a publication has
  been under way for 60 s (`admission.py:120`). The claim makes it harmless.
- `docs/architecture/research-agent.md:17` names `EXECUTING` and `VERIFYING`, which no run enters; the `manual_review` branch
  of the recovery is unreachable (`RecoverableRows`, proved).
- A run saved as succeeded can be overturned to failed by an exception raised after the commit (`runtime.py:257`, `:267`);
  `RunLifecycle` allows it as `Overturn`. `run.completed` is appended for failed outcomes too.
- After an HTTP error an EventSource does not reconnect, although the page says it will (`research.html:234`).

## 6. Left to do

Modelled so far, in the order of their weight: research runs, approvals, event stream, crawl jobs, budget, index, per-IP
counter, crawl failures, WeWe RSS history. Next:

| module | lines | abstract promise | theorems worth proving |
|---|---|---|---|
| `Questions` | `services.py` 96–134, 341–514 | a session's totals are the sums of its messages (false for crossed questions) | totals of uncrossed questions |
| `ResearchGraph` | `workflow.py` 32–166, `tools.py` 85–149 | plan, act, verify, replan once, end | replans at most once |
| `Ingestion` with the WeWe RSS import | `pipeline.py` 21–234, 290–402, `tasks_wewe_rss.py` | one item per URL, one import at a time | – |

Proofs to come: none of a property that a run checks; `CrawlJobs` for more than one slot, for the properties that survive it.

*Not modelled*, and why: accounts and access filters (no state of their own), fetching, extraction and URL parsing (foreign input
and network), portal pages and Django admin forms (read-only), deployment scripts and online migrations (procedures outside the
program), retrieval ranking, prompts and evaluation scores (data, not control), the evaluation's cap (one process, one comparison
before each case), the admission key table (nothing reads it). Of the WeWe RSS portal: login by QR code, the masking of
credentials in `portal-public.cjs`, and its client `wewe-rss/portal/client/assets/index-DdrV8jkS.js`. That file is the minified bundle
of a third party's web application, most of it React and other libraries; only its feeds page, which starts and stops
histories, belongs to a model of this system (as `Request` of `RssHistory`), so most of its lines stay unmapped however far the
models grow.
