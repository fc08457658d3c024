# TestFlow in TLA+

TLA+ models of TestFlow, a test-case management system that exists twice with
the same domain: a **monolith** (`api/`) and a **microservice edition**
(`services/`), sharing `shared/` and one browser client (`static/app.js`).
The modules here model the parts where several processes, requests, replicas or
browsers meet, and the agents and gates whose answers come from a model; TLC
checks them on small instances, and TLAPS proves the safety properties for every
instance.

## 1. The system

| Part | State it keeps | Operations | Talks to |
|---|---|---|---|
| Run creation and population: `services/runs/main.py` `create_run`, `runs/population.py`, `runs/events.py`, `services/worker/main.py` | `runs_test_runs`, `runs_test_results`; the Redis stream `runs.populate` and its consumer group | create a run; enqueue; populate inline; consume an entry, insert, announce, ack | projects service (HTTP), Redis, browsers through the fan-out |
| Result updates: `_apply_result_update`, `update_result` in `services/runs/main.py` and `api/main.py` | status of each result, `completed_at` of the run | PUT of one result; alert and completion events | Kafka, Redis, fan-out |
| Alert pipeline: `runs/kafka_events.py`, `worker/kafka_consumer.py` | topic, group offset, `runs_alerts`, dead-letter topic | publish, consume, deduplicate, retry, dead-letter, commit | Kafka, database |
| Live fan-out: `ConnectionManager`, `publish_ws_broadcast`, `listen_for_ws_broadcasts` | rooms of sockets per replica, subscriber connections | join, leave, broadcast, publish, fall back, reconnect | Redis pub/sub, browsers |
| Run page: `static/app.js` | the page's view of a run, its socket, its fetches in flight | render, subscribe, apply updates, catch up, record a result | REST and WebSocket |
| AI draft review: `api/ai_review.py`, `api/retrieval.py`, `save_generated_testcases` | test cases, their embeddings, reviews | save drafts, decide a review, backfill embeddings | database, embedding provider |
| Accounts: `services/auth/main.py`, `api/main.py` | users | bootstrap registration, seed, create, delete, deactivate | every service checks tokens by itself |
| Catalogue: `services/projects/main.py`, `api/main.py` | projects, suites, cases, and the runs made of them | create, change, delete with all below, demo seeding | runs service (HTTP) |
| AI gateway, triage: `api/ai_gateway.py`, `api/triage_agent.py`, `api/environment_health.py`, `ai_common/` | messages and verdicts of one loop | bounded tool loop, record verdict, merge with heuristics | model providers, database |
| Statistics: `project_stats`, `project_analytics`, `flaky_tests`, CSV export of both editions | none of their own | read in several SELECTs and count; go on without the runs service | database, runs service (HTTP) |
| GraphQL: `api/gql/` | one session and one set of DataLoaders per request | resolve queries; mutations that call the REST handlers | database, REST handlers |
| Request scheduling: FastAPI's threads, `api/database.py`, `api/gql/context.py` | threads, pooled connections, the event loop | authenticate, handle, commit, close, log | every monolith handler |
| Log center, CI statistics: `api/main.py` | log rows up to a limit; one cached answer | record and trim; fetch and cache | GitHub |
| Monolith live updates: `ConnectionManager`, `/ws/runs/{id}`, `runUpdates` | a room of sockets and of listener queues per run | join, leave, broadcast, subscribe | browsers, result updates |
| Pipeline agents: `agents/pipeline_orchestrator.py`, `scripts/heal_metrics.py` | the checkpoint of a graph's thread; a file of outcomes | plan, approve, generate, approve; run, classify, fix, escalate, record | model provider, a human |
| Assertion guard: `scripts/assertion_guard.py` and its workflow | none of its own | compare what a spec asserts before and after a pull request | pull requests |
| Evaluation gates: `evals/` | baselines in the repository | measure, compare, record | model provider, CI |
| API gateway: `services/gateway/` | the two tasks of each bridged WebSocket | route, proxy, bridge | every service |
| AI service: `services/ai/` | none | one external call | model provider |
| next-app, vite-app, infrastructure, test suites | files | - | - |

### What is hard in it, and what correctness means

* **Population.** The check "does the run have results?" and the insert are two
  statements; no lock, no unique key. An XADD can be applied and still raise.
  A worker can die anywhere. Correct: all rows or none, no duplicate unless a
  reply was lost, no announcement before the commit, no run lost unaccountably.
* **Result updates.** Every update is a transaction at READ COMMITTED that
  judges completion from rows it read earlier. Correct: a finished run is
  completed, a completed one finished, a failure that stands is reported.
* **Alerts.** Redelivery, rebalancing while a message is processed, commits that
  raise after they were applied. Correct: one alert per key, an offset never
  passes an unsettled message, and every message is settled.
* **Fan-out.** Loops that await while others change what they iterate over;
  messages published while a replica reconnects. Correct: at most once, in
  order, to all, or a reason why not.
* **Run page.** Three sources of truth (page fetch, catch-up fetch, live
  updates) and the user's own PUTs, in any order, from a server that may lose a
  broadcast. Correct: a page that has come to rest shows what the database holds
  of every row whose news it was sent.
* **Draft review.** Three commits per save, reviews that refer to drafts by a
  plain id, embeddings computed from rows read earlier, two engines with
  different rules. Correct: the suite follows the verdicts, each draft can be
  reviewed, nothing outlives its test case.
* **Accounts.** A handler checks first and writes later, without a lock, and a
  token outlives what it stands for. Correct: an active admin always remains,
  registration only makes the first account, no status change is lost.
* **Catalogue.** A deletion loads what is below and deletes that, while others add
  to it; the services edition splits the rows between two databases, only one
  of which sees the deletion; an update judges rows that are deleted, or updated,
  before it commits. Correct: nothing refers to what is gone or belongs
  elsewhere, and a run that has become done is completed.
* **Triage.** A model calls tools in any order, with any arguments, while results
  are still being recorded; its verdict is merged with a heuristic that reads the
  database again. Correct: the first legible verdict of a case is final, a
  verdict that needs no review is one the results support, the request ends.
* **Statistics.** An answer is put together from several SELECTs, or from two
  databases, and others commit in between. Correct: an answer no commit fell
  into is the one a single look would give, or says what it left out.
* **GraphQL.** A document's mutations share a session whose rows are not
  refreshed by later SELECTs, or are deleted by it, and loaders that keep their
  lists; a run's summary and results are resolved one after the other. Correct: a field
  sees what the document has written before it, an answer agrees with itself, a
  recorded result is written and the last one completes the run.
* **Request scheduling.** A REST request keeps a connection from its
  authentication on; GraphQL statements block the event loop, which is what
  gives threads and connections back. Correct: every request is served, and a
  wait that only the pool's timeout ends has a named cause.
* **Log center, CI statistics.** Every request counts, lists and deletes log rows
  by itself; the cache's two entries are read and written one after the other.
  Correct: the newest rows are kept, within the limit; an answer is recent.
* **Monolith rooms.** A broadcast iterates the set that sockets join and leave.
  Correct: who was there all the time is sent every update.
* **Pipeline agents.** A checkpoint outlives the feature it was made for; a model
  changes its mind between attempts. Correct: what is committed was approved; a
  failure once called a defect reaches a human.
* **Assertion guard, evaluation gates.** A check sees one merge, and the base moves
  on; a baseline is a report like any other, of a good model or a bad one.
  Correct: assertions weaken only with approval; a model that does nothing right
  does not pass.

## 2. Modules

| Module | Models | Instantiated by |
|---|---|---|
| `RunPopulation` | creation and asynchronous population of runs | `MCRunPopulation` |
| `PopulationLedger` | abstract specification of the same: open, fill at once, tell | INSTANCE in `RunPopulation` |
| `RunPopulationProofs` | the proofs about `RunPopulation` | - |
| `ResultUpdates` | concurrent result updates of one run, both editions | `MCResultUpdates` |
| `ResultUpdatesProofs` | the proofs about `ResultUpdates` and `RunPage` | - |
| `AlertPipeline` | Kafka consumer group, retries, dead letters | `MCAlertPipeline` |
| `LiveFanout` | rooms, broadcasts, Redis pub/sub | `MCLiveFanout` |
| `RunPage` | one browser's run page against the server | `MCRunPage` |
| `DraftReview` | AI drafts, their reviews and embeddings | `MCDraftReview` |
| `Accounts` | user accounts: bootstrap, seeding, admins | `MCAccounts` |
| `AccountsProofs` | the proofs about `Accounts` | - |
| `Catalogue` | projects, suites, test cases and runs: creation against deletion | `MCCatalogue` |
| `CatalogueProofs` | the proofs about `Catalogue` | - |
| `Triage` | a triage request: tool loop, verdicts, heuristics, environment health | `MCTriage` |
| `Histories` | a test case's passes and failures, and how often they flip | EXTENDS in `Triage`, `Statistics` |
| `HistoriesProofs` | lemmas about `Histories` and the order of numbers | EXTENDS in three modules of proofs |
| `Board` | the tables that reading requests see, and the writes of others | EXTENDS in `Statistics`, `GraphApi` |
| `Statistics` | the counting requests of both editions, SELECT by SELECT | EXTENDS in `Readers` |
| `GraphApi` | a GraphQL document: session, loaders, mutations, selections | EXTENDS in `Readers` |
| `Readers` | composes the three above | `MCReaders` |
| `DeliveryProofs` | the proofs about `LiveFanout`, and about `GraphApi` and `Statistics` within `Readers` | - |
| `Requests` | threads, connections, event loop and Log Center of a monolith process | EXTENDS in `ServerProcess` |
| `PipelineStats` | the CI statistics cache | EXTENDS in `ServerProcess` |
| `Rooms` | sockets, broadcasts and subscriptions of a run in the monolith | EXTENDS in `ServerProcess` |
| `ServerProcess` | composes the three above: a process of the monolith | `MCServerProcess` |
| `MonolithProofs` | the proofs about `ServerProcess` and `Triage` | - |
| `Authoring` | the authoring graph and its two approvals | EXTENDS in `Pipelines` |
| `Healing` | the healer graph and the file of outcomes | EXTENDS in `Pipelines` |
| `AssertionGuard` | the assertion guard over the life of pull requests | EXTENDS in `Pipelines` |
| `EvalGates` | the gates of the four evaluation tools | EXTENDS in `Pipelines` |
| `Pipelines` | composes the four above: the offline tools | `MCPipelines` |
| `PipelinesProofs` | the proofs about `Pipelines`, `DraftReview` and `AlertPipeline` | - |

Correspondence to the code (`PROJECT.json`, "map", gives the lines of each
definition):

* **RunPopulation.** `request[r]` is the program counter of one `create_run`;
  an action ends at each point where another process can get in between:
  `FetchCases`, `CommitRun`, `Enqueue`, `InlineCheck`, `InlineInsert`. A worker's
  loop is `Read`, `Check`, `Insert`, `Notify`, `Ack`. `stream` holds undelivered
  entries and `pel` the group's pending entries. Faults: `EnqueueFails`,
  `EnqueueReplyLost`, `ReadReplyLost`, `ProcessingFails`, `CommitReplyLost`,
  `NotifyFails`, `InlineFails`, `RequestDies`, `WorkerDies`, `RedisRestarts`
  (Redis runs without a volume in `k8s/base/redis.yaml`).
* **ResultUpdates.** One action per database round trip of
  `_apply_result_update`: `Load`, `ReadRun`, `Judge`, `Commit`, `Refresh`, then
  `Alert`, `CountRow` for each row (the commit expired them) and
  `PublishCompleted`. `edition` picks the code base: the monolith stamps
  `completed_at` on each judged update and publishes nothing.
* **AlertPipeline.** A replica receives, checks, inserts (up to `MAX_RETRIES`
  times), dead-letters and commits. The broker (external) appends, assigns the
  single partition, may take it from a replica at work, and refuses its commit.
* **LiveFanout.** `Begin`, `SendNext` and `Finish` are the loop of
  `ConnectionManager.broadcast`, with a step per awaited send; `Abort` is the
  exception a set raises when its size changed under the iteration. `Take` is
  the subscriber loop, which awaits one broadcast before the next message.
* **RunPage.** A status is the number of the commit that wrote it, so that
  "older" can be said. `Rendered`, `Subscribed`, `ResultUpdated`,
  `ResultsPopulated`, `CaughtUp` and `Answer` are the continuations of the
  page's fetches and messages. On the server, an update goes through
  `CommitUpdate`, `RefreshUpdate` and `Publish`; `relay` is what was published and
  the page's replica has not broadcast yet. Nothing of it is sure: `UpdateDies` is a
  replica that dies, or a refresh that fails, after the commit; `BroadcastMisses`,
  a subscriber that was reconnecting to Redis (`services/runs/events.py:118-137`) or
  a loop over the room that raised before this socket (`services/runs/main.py:71`);
  `AnnouncementLost`, a worker that died or did not reach Redis. `Populate` leaves
  the announcement due (worker) or never to be made (`create_run` itself,
  `services/runs/main.py:203-213`). `missed` names the rows with a status lost since the page
  joined; what was lost before, the catch-up repairs.
* **DraftReview.** Every row of `test_cases` ever inserted has a birth number,
  so that a reused id can be seen. `database` picks the engine's rules for ids
  and foreign keys. `SaveDrafts`, `RefreshDraft`, `StoreEmbedding`,
  `RecordDrafts` are one save request; `OpenReview`, `LoadDraft`, then `Keep` or
  `RejectDraft`, one review request; `ReadMissing`, `Backfill` a generation that
  looks for similar cases.
* **Accounts.** A task is a request or the start of a process. It ends a step at
  each point where another transaction can commit: `Authorize` reads the token's
  account (`require_admin`, which does not look at its status), `CheckName` or
  `FindAccount` what the request is about, and `Create`, `Delete` or `Toggle`
  commits. `CountUsers` and `Register` are the bootstrap registration,
  `FindSeed` and `Seed` are `_seed_admin` (and the monolith's `debug_seed`).
  `Fails` stands for every refusal and failure before the commit.

* **Catalogue.** A request that reads first and writes later is a task: a deletion
  is `LoadDeletion` (the ORM's cascades) and `Delete`, whose guard `Covers` is
  the foreign-key check; a run is `AskRun`, `CommitRun` and, in the services
  edition, `Populate`; a demo is `SeedDemo` and, there, `CountDemo` and
  `SeedRun`; an update of a result is `ReadResult`, `JudgeRun` and `CommitResult`.
  Requests whose check the foreign key repeats at the commit are one step. `edition` says whether runs are in the same database. In the services
  edition the run of a suite that is gone is made all the same, because the
  projects service answers `[]` for it (`services/projects/main.py:42-48`), never
  the 404 that `create_run` waits for. A demo run there numbers its cases from 1,
  whichever suite they are of (`services/runs/main.py:169-172`).

* **Triage.** One request, as `at` says: `Collect` (`collect_evidence`), then
  `CallModel` and `Dispatch` in turns, or `SingleShot`; `Recall` and `Judge` for
  each failing case, and `Respond`. The model is external: any sequence of tool
  calls, or a text. A case's history is read by SELECTs of its own, so
  `RecordResult` and `HealthMoves` of others come in between. The trajectory eval
  is a second caller, whose repeats are `ReVerdictAttempts`. A history of statuses
  is a function from runs (`Histories`, also of `Statistics`), and its flips are those
  runs whose result differs from that of the run before.
* **Statistics, GraphApi.** `place` and `step` are the next SELECT. `held` are the
  columns that SQLAlchemy's identity map keeps, `caseList`, `runList` and `rowList` what
  the loaders keep; a commit expires the first and not the others. A REST
  handler called by a mutation runs in the document's session, so `_apply_result_update`
  judges completion on rows that may be stale, and an UPDATE that
  changes nothing of the held row is not issued. Rows that the session deletes are not
  expired but detached with the columns they were loaded with (`detached`, `LetGo`):
  a list that a loader kept still shows them. `ReadSummary` and `ReadResults` resolve
  the two fields of each run, in any order, with commits of others between. `OtherRequest`
  (`Board`) is any commit of another request.
* **Requests.** `stage` of a request goes from thread to session to handler to
  response; `threads`, `session` and `loop` say who holds what. A log writer
  (`InsertRow`, `CountRows`, `ListSurplus`, `DeleteSurplus`) has a thread and a
  connection of its own, or blocks the loop when the client's log is written by
  its handler. `PoolTimeout` is the pool's 30 seconds. `CanMove` writes out the guards
  of all other steps of a request.
* **PipelineStats.** `ReadData`, `ReadTime`, `Fetch`, `StoreData`, `StoreTime` and
  `ReturnAndExtend` are the accesses to the two entries of the dictionary; `Tick` is time.
* **Rooms.** `Join`, `Welcome`, `Disconnect` are the endpoint;
  `StartBroadcast`, `Send`, `IterationFails`, `EndBroadcast` the loop over the
  set itself; `Listen`, `Yield`, `Unlisten` a subscription.
* **Authoring, Healing.** One action per node of a graph and per answer to an
  interrupt. A thread that is invoked again keeps the keys that no node has
  written since.
* **AssertionGuard.** A spec is its assertions, each with its form and the test it is
  in, and the tests that have a skip or fixme marker. The guard counts texts
  (`Expects`, `Skips`, `Of`): a marker is one, whatever number of assertions it keeps from
  being evaluated. `Check` compares the merge of a branch with the base as it
  is then; `MergePull` merges three ways with the base as it is later.
* **EvalGates.** A job measures (`GateSuite`, `GateTrajectory`, `GateVerdicts`,
  `GateRetrieval`) or records a baseline (`RecordSuite`, `RecordTrajectory`);
  `ChangeDataset` is a commit between two jobs. Shares are compared by
  cross-multiplication; those of the trajectories as the code rounds them, in
  thousandths (`Accuracy`).

A composition whose parts share nothing (`ServerProcess`, `Pipelines`) follows one
of them in a behaviour: they are together to be checked in one run, not because
they interact. `Readers` composes the readers with the writers of one board.

History variables are marked in the VARIABLES of each module. No guard reads
one; they let a property name the accident it excuses.

## 3. Runs

| Run | Bounds | What it shows |
|---|---|---|
| `population` | 2 runs, 2 cases, 2 workers, 2 faults | rows come twice only after a lost XADD reply (`DuplicatesOnlyAfterLostReply`), no unaccounted loss (`NoSilentLoss`), each created run settles, and refinement of `PopulationLedger` (`ImplementsLedger`): rows all at once, and announced only then |
| `updates` | 2 users, 2 cases, 3 updates, both editions | `completed_at` (`CompletionMissedOnlyIfStale`, `CompletedRunIsDone`) and alerts, events and counts (`NotificationsHold`) are wrong only if updates overlap, a result is set back, or a fault swallowed an event |
| `alerts` | 2 replicas, 2 keys and a malformed message, log of 2, 3 attempts, 2 faults | offsets never pass unsettled messages, one alert per key unless a replica lost the partition at work, every message settled |
| `run_page` | 2 cases, 2 updates, one population, any of which may be lost on the way | a settled page agrees with the database (`PageAgrees`) on every row of which no status was lost since it joined, except after a late broadcast, a crossed answer, overlapping or failed catch-ups; rows that it lacks were announced past it or not at all |
| `live_fanout` | 2 replicas, 2 sockets, 2 messages, 1 fault | once and in order (`OnceInOrder`), to everyone who stayed, or a named reason |
| `drafts` | 2 reviewers (symmetric), 2 births, both engines | the suite and the embeddings follow the verdicts (`VerdictsTakeEffect`), drafts are reviewable, verdicts stand; each but for named races |
| `accounts` | 2 tasks (symmetric), 3 names, 3 accounts | an admin, and an active one, remains while there are accounts (`AdministratorRemains`) but for named races |
| `catalogue` | 1 project, 2 suites, 2 cases, 1 run, 2 tasks (symmetric), both editions | nothing refers to a row that is gone from its database or to a row of another suite (but demo runs of the services edition); a run whose rows are all recorded is completed, unless its last pending row went with its test case or two updates of it overlapped |
| `triage` | 2 cases and a stranger, 4 runs, 2 environments, 2 turns of at most 2 calls | the first legible verdict stands and a later one is refused (`VerdictsAreFinal`), a verdict that asks for no review is supported by results of the database (`UnflaggedIsSupported`), every request is answered |
| `readers` | 2 cases, up to 3 runs, 2 writes of others, a history of 2 runs, 2 HTTP attempts, documents of up to 2 mutations, and of 3 around a deletion | a summary is that of the results beside it (`SummaryMatchesResults`), a field sees the document's own commits (`ReadsOwnWrites`), undisturbed figures are right (`QuietAnswersAreRight`), a mutation's status is written (`UpdateIsWritten`) and the last one completes the run (`LastResultCompletes`), but for rows that others changed while the session held them |
| `server` | 2 threads, 2 connections, 4 REST or 3 mixed requests, 1 log row; or 2 readers for 8 ticks with a lifetime of 3; or 2 sockets and 2 updates, or 3 and 1, with a subscription | who waits for a timeout is in a named circle (`StuckIsNamed`), everyone is served (`EveryoneServed`), the log is the newest rows (`LogIsNewest`), cached answers are recent unless the cache was read torn (`AnswersAreRecent`), who stays hears every update (`StayersHear`, `SubscribersHearAll`) |
| `pipelines` | 1 thread with 3 features; or 2 healing jobs of 3 attempts; or 2 pull requests (symmetric) with 4 edits of 3 assertions in 2 tests, from a spec with no test skipped or with the short one; or 2 cases of 3 runs, 3 trajectories, 3 queries | a spec for the last feature is ready to commit only after both approvals, an older one only after the last plan was rejected (`CommitsAreApproved`), suspected defects are escalated (`SuspicionEscalates`), assertions become fewer or more lenient, skip markers more, and, from a spec without any, evaluated assertions fewer, only with approval or past a check that was overtaken (`WeakerOnlyIfApproved`), a model that does nothing right fails the gate (`CollapseIsCaught`) |

**Why the bounds suffice.** Each hazard needs two of something: two actors
between a check and its use, two rows of which one is still pending, a message
behind another. Two faults let a fault follow a lost reply. In `updates` the
third update lets one follow two that overlapped. In `drafts` the second birth is
the one that can take over the first one's id; with a third birth there is no new
kind of step, only a second case beside it. In `accounts` three accounts are
two admins who act on each other and a third to be created, and two tasks are
both of them at work. In `catalogue` the second suite is the one that rows could
wrongly come from, and the second case lets one be deleted from a run that goes
on, or updated by the other request; each request updates as often as it likes. A second
run adds nothing an update or a deletion would see, and more than 15 million
states; that three or more requests overlap is covered by the proof. In `triage` the second call of a turn repeats the first one's verdict, the
second turn is the forced one, and four runs in two environments hold every
history that the heuristic tells apart (two flips, a pass elsewhere, a failure
elsewhere). In `readers` the second write undoes or follows the first between
two SELECTs, and the second mutation meets what the first one left in the
session; the third shows a list kept by the first after the second has deleted a
row of it. In `server` two threads and two connections are enough for each to wait
for the other: four REST requests are two that hold the connections and two that hold
the threads, and the mixes with GraphQL have one on the loop while others are authenticated or log. Eight ticks let a value be fetched, expire and be
served again. Fewer than five sockets never make the set rehash, so the order of
iteration does not change; three sockets with two updates (8.3 million states)
have been checked as well and hold. In `pipelines` the fourth edit is what a
pull request needs to overtake another one's check, and the third feature meets a
checkpoint that two rounds have written.
`MAX_RETRIES`, `DefaultCount`, `max_attempts`, the thresholds and tolerances of
the gates have the code's values.
Workers, users and replicas are not declared symmetric where liveness is checked.
In `run_page` the updates are numbered as they commit instead, so that none is counted
twice.

`CHECK_DEADLOCK FALSE` is set in every configuration: the behaviours are finite
by their bounds, and a system with no requests left stops. That nothing is stuck
on the way is what the liveness properties say.

**Where the code differs from what the repository says of it.** The exceptions
that the properties name are races and losses of the code. Some of them
contradict a sentence of the repository:

* `services/worker/main.py:44-46` promises at-least-once redelivery; the worker
  reads new entries only (`>`), so what a dead worker had not acknowledged stays
  pending for ever (`RunPopulation`, in `NoSilentLoss`).
* `tests/api/test_runs.py:52-58` expects a run to complete when its results are
  done; two concurrent last updates each see the other's row pending, and
  nobody stamps `completed_at` (`ResultUpdates`, `stale`).
* `static/app.js:5243-5244` says that the catch-up covers what was missed; a page
  rendered empty that missed `results_populated` has no row to update. Nor does it
  cover what is lost while the page is joined: the page does not fetch again until it
  is rendered anew (`RunPage`).
* `services/README.md:120-123` says that each replica broadcasts to its
  connections; a join or leave during a send makes the loop raise
  (`LiveFanout`, and `Rooms` for the monolith, where the client gets a 500
  although its update is committed).
* `tests/api/test_event_loop_db.py:1-12` says that no database work is done on
  the event loop; GraphQL resolvers and the closing of sessions are
  (`Requests`).
* `api/gql/context.py:2-3` says that loaders cache per request only, so that no
  stale rows of another request are seen; a document of several mutations is one
  request, and a list that an earlier field read stays (`GraphApi`, `listed`).
* `scripts/assertion_guard.py:10-11` says that a weakened test cannot merge looking
  like a selector fix; an assertion moved into a test that is skipped, or a skip
  marker moved to a longer test, leaves every count as it was and raises no finding
  (`AssertionGuard`; `WeakerOnlyIfApproved` says what the guard does promise).

And some behaviours have no sentence against them, but a reader may not expect
them:

* A reused authoring thread whose later plan is rejected still ends as
  `ready_to_commit` with the spec of an earlier round, approved or not
  (`agents/pipeline_orchestrator.py:157`); a healing job that raises after a fix
  leaves the fix and no record (`:210-225`).
* An approval marker, once merged, approves every later weakening of its file
  (`scripts/assertion_guard.py:121`); the guard does not run again when the base
  moves; an assertion replaced by one with other matchers gives no finding.
* Suites that share no case with their baseline pass, and so does an empty
  dataset; a baseline recorded of a collapsed model lets a collapse pass. The
  trajectory gate compares floats without the 1e-9 of the suite gate
  (`evals/triage_trajectory_eval.py:267-268`).
* A run that `create_run` populated itself is announced to nobody: a page opened between
  the two commits stays empty (`services/runs/main.py:203-213`).
* A result whose test case the same GraphQL document has deleted is still listed with its old
  status, by a list that an earlier field read (`api/gql/loaders.py`,
  `api/main.py:804-810`).
* A torn read of the CI cache can serve arbitrarily old data (`api/main.py:1325`).

## 4. Fairness

* `RunPopulation`: weak fairness of each started request and of each worker's
  loop. A handler runs to its end; a worker process is restarted by its
  deployment and polls forever. Creating runs and faults are not fair.
* `ResultUpdates`: weak fairness of each update that has been accepted.
* `AlertPipeline`: each replica goes on with the message it has, and the broker
  does not leave the partition unassigned for ever.
* `LiveFanout`: the event loop gets to each coroutine that can go on.
* `RunPage`: requests are answered, arrived messages and answers are handled.
  What is published is broadcast or lost, and a due announcement made or lost.
  Sending an update, populating the run, losing a message or the connection are not fair.
* `Triage`: the request goes on: it waits for nothing but the model's answer,
  which comes or fails. The recording of results is not fair.
* `ServerProcess`: threads run on, the event loop takes what is ready, and a
  wait for a connection ends, at last with its timeout. The cache and the rooms
  have safety properties only.
* `DraftReview`, `Accounts`, `Catalogue`, `Readers` and `Pipelines` have safety
  properties only.

No property depends on strong fairness. Faults that repeat without end are
excluded by the fault budgets, which is where the bounded models are weaker than
the code.

## 5. Proofs

Every safety property of every run is a theorem. A module of proofs EXTENDS the
modules it is about. Where these are several systems, all but one have a
specification with a name of its own (`PageSpec`, `TriageSpec`, `ReviewSpec`,
`AlertsSpec`, `ReadersSpec`). Each proof is of one inductive invariant: the property
and what it needs to survive every step. The types stand in the modules they
speak of; the other parts of the invariants, which are no property of a run, stand in
the modules of proofs, each before the lemmas that keep it. Added to the MC module, each
can be given to TLC as an invariant of the same configuration, and holds there.

`RunPopulationProofs` proves, for every set of runs, cases and workers and every
fault budget (assumption `PopulationAssumption`: `NoRun` is not a run,
`MaxFaults` is a natural number):

| Theorem | Property |
|---|---|
| `TypeCorrect` | `TypeOK` |
| `PopulationAtomic` | `AllOrNothing` (no run checks it by itself; `ImplementsLedger` implies it) |
| `DuplicatesBounded` | `DuplicatesOnlyAfterLostReply` |
| `AnnouncementsTrue` | `AnnouncedArePopulated` (likewise) |
| `RunsAccountedFor` | `NoSilentLoss` |
| `LedgerImplemented` | `ImplementsLedger`, the refinement of `PopulationLedger` |

The argument is one inductive invariant, `IInv`. None of the properties is
inductive by itself: that a second insert cannot follow a first depends on there
being only one entry per run. So

* `EntryUnique`: an entry is in the stream once or with one worker, not both;
  `NothingBeforePost`: before the XADD there is no trace of the run. These two
  (with `TypeOK`) are `EntryInv` and are inductive on their own.
* `InsertBudget`: the rows of a case plus the inserts still to come, from the
  entry and from the request, stay within one (two after a lost reply). The
  fault that loses the reply raises the allowance and adds the second insert in
  the same step; no other step raises the sum.
* `AllOrNothing` and `WorkerKnows` (a worker about to announce holds a populated
  run; one about to ack holds a populated or a discarded one) give
  `AnnouncedArePopulated`; that rows and announcements only grow (`Grows`)
  carries it over the steps of others.
* `NoSilentLoss` uses all of them: a run leaves "in flight" only by an insert or
  by a step that names its loss.

There is a lemma per invariant and group of actions, with one step per action.

The refinement follows from it in two lemmas. `LedgerInit`: no run is wanted or
shown at first. `LedgerStep`: the commit of a run opens it in the ledger; the
first insert, by a worker or inline, fills it with the cases its request
fetched; a worker's announcement tells; and every other step leaves what the
ledger sees as it is. That a second insert shows no more rows than the first, and that
an announced run is filled, is what `IInv` is for.

`ResultUpdatesProofs` proves, for every non-empty finite set of cases, every set
of users and every number of updates (assumption `UpdatesAssumption`, which also
says that `NoCase` is not a case and names the editions):

| Theorem | Property |
|---|---|
| `TypeCorrect` | `TypeOK` |
| `MissedOnlyIfStale` | `CompletionMissedOnlyIfStale` |
| `CompletedMeansDone` | `CompletedRunIsDone` |
| `StampedOnce` | `CompletedOnce` (proved only, no run checks it) |
| `FailuresReported` | `FailureReported` |
| `CompletionsPublished` | `CompletionPublished` |
| `PublishedCountsAddUp` | `CountsAddUp` |
| `NotificationsAlwaysHold` | `NotificationsHold`, the last three together, as the run checks them |

The completion properties speak of the database at a commit, while the commit
writes what was judged from earlier reads. What connects them is `ReadsAreFresh`:
as long as nobody has committed since an update began, all that it has read and
judged still holds. A commit that does not make `stale` true therefore stamps
the run exactly when it leaves it complete (`FreshCommit`). Only commits write
the database (`DatabaseFrame`), so no other action matters.

`FailureReported` and `CompletionPublished` need no freshness: the proof follows
the request that owes the notification to its end.

`CountsAddUp` holds even when updates overlap. Unless a result is set back, a
row read as recorded stays recorded and a run judged complete stays complete
through anybody's commits (`JudgementsStand`); the update's own commit is
included because it writes nothing when its value equals the one it read. With
`CountersJudged`, each row counted has a verdict, and three disjoint sets that
cover the cases have the cardinality of the cases.

The bound `MaxUpdates` is in the guard of `Load`; the proofs never use it, so
they hold of the unbounded system too.

It also proves of `RunPage`, for any rows and any updates
(assumption `PageAssumption`: updates are numbers, `Absent` is none):

| Theorem | Property |
|---|---|
| `PageTyped` | `PageTypeOK` |
| `SettledPageAgrees` | `PageAgrees` |

`PageAgrees` speaks of a page at rest; the invariant says what will bring a page
there. `NothingAhead`: nobody holds a status later than the database's.
`NewsToCome`: the last commit of a row has been broadcast or lost, or its update is still
to publish it or in `relay`. `WireIsCurrent`: of the messages about a row on the wire, the last
has the latest status that was broadcast, unless the row is in `missed`. So if the page listens, a row without news on
the wire is shown as it is, or the catch-up in flight will show it
(`ShownIsCurrent`). That needs `CatchingUp`: one catch-up at a time fetches for the
page that is shown, unless two overlap. Rows that the page lacks are announced to it
still (`RowsAnnounced`), because it renders once and once more (`RendersInOrder`).

`AccountsProofs` proves, for any set of names and tasks and any number of
accounts (assumption `AccountsAssumption`: the seed name is a name, `Nobody` is
neither an account nor an id):

| Theorem | Property |
|---|---|
| `TypeCorrect` | `TypeOK` |
| `AdminAlwaysRemains` | `AdminRemains` |
| `ActiveAdminAlwaysRemains` | `ActiveAdminRemains` |
| `AdministratorAlwaysRemains` | `AdministratorRemains`, the two together, as the run checks them |
| `TogglesAddUp` | `StatusFollowsToggles` (proved only) |
| `RegistrationOnlyFirst` | `RegistrationIsFirst` (proved only) |

No handler asks whether another admin is left; what keeps one is that nobody may
change its own account. `AskersAreAdmins` says that whoever changes an account
is an admin of another one, unless its own is gone, and `IdsInOrder` that no
session and no request can refer to an id before it is handed out. A deletion
therefore leaves the deleting admin, unless that one is gone, which is what
`crossed` records. The invariants speak of "once there was an account"
(`AdminsStay`, `ActiveAdminsStay`) and not of "while there are accounts": an
emptied database must not look like a new one, because `register` does not tell
them apart. `RegistrationsSeeNone` is what a registration knows of the accounts
it counted: still none, unless another bootstrap overlapped. `LoadedStatusStands`
does the same for the status that a toggle read.

`CatalogueProofs` proves, for any projects, suites, runs and tasks and any number
of test cases (assumption `CatalogueAssumption`: the two numbers are natural and
`None` is no project and no suite):

| Theorem | Property |
|---|---|
| `TypeCorrect` | `TypeOK` |
| `AlwaysConsistent` | `Consistent` |
| `DoneRunsAreComplete` | `DoneRunsComplete` |

The tree holds because of `Covers` alone: a deletion that has loaded too little
is refused. The rows of a run need more, since between reading the active cases
and inserting rows anything may be deleted. `FetchedStands` says what is left of
what was read: each case is still in the suite, or gone for good. It survives
the steps of others because test cases are never moved and ids never given twice
(`CasesStay`), and because in the services edition runs are never deleted
(`RunsStay`, `RunsApart`). `IdsInOrder` ties rows to ids that were given before, so
that a new test case cannot turn up under an old row; the rows of demo runs,
which are numbered without asking, are the ones that escape it, and the
exception in `RunsHold`. A run that is done is completed by the update that found it so;
`UpdatesStand` says what an update that found it open is worth at its commit: a row
of the run is pending still, or it went with its test case (`pruned`), or another update
that had found the run open has committed since (`overlapped`). `IInv` is the conjunction; `TypeOK` is inductive only
with it, because a stamp on a run presumes that rows belong to runs.

`PipelinesProofs` proves, for any threads, rounds, jobs, attempts, pull requests,
edits, datasets and tallies (assumptions `AssertionGuardAssumption`: the assertions and
tests of the spec are finitely many, there is a test, and the first specs are made of
them; `EvalGatesAssumption`: the cases
of a suite are finitely many and each is run at least once):

| Theorem | Property |
|---|---|
| `TypesCorrect` | `AuthoringTypeOK`, `HealingTypeOK` |
| `CommitsAlwaysApproved` | `CommitsAreApproved` |
| `SuspicionsEscalate` | `SuspicionEscalates` |
| `GuardHoldsTheLine` | `WeakerOnlyIfApproved` |
| `CollapseCaught` | `CollapseIsCaught` |

`CommitsAreApproved` speaks of a thread that has ended; `RoundKnown` says for
every node of the graph what is known there: before the plan's answer nothing of
this round is approved and the spec is an older one (`NothingYet`), because
approvals and specs never are of a later round than the thread's. For the
healer, `RecordsAreFinal` ties a record to a job that is over, so that a later
classification cannot make an old record wrong.

The guard compares one merge with its base, while `WeakerOnlyIfApproved` compares any
number of merges with the first spec. `PassedIsWeighed` keeps what the check found
until the merge, on the base that it saw; if that is the base that is merged into, the
merge is not weaker, and "not weaker" is transitive. Without approval there is no marker or
label (`ApprovalIsKnown`), and the spec is never deleted (`SpecStays`), which the
guard would not report for a spec that is not there.

`PassedItsGate` keeps what a job that passed has gated until something else is
measured or committed. Three of the gates refuse a model that never worked by one
comparison. The suite's compares shares, so that the proof is one of sums: a
report of such a model has an error in each of its runs, which the baseline's errors
plus the band cover only if the baseline has errors in 80 percent of its own. A sum
over the cases is the size of a disjoint union, which needs no induction over them.

The two graphs and the other tools share no variable, which is why each
invariant survives the others' steps.

It also proves of `DraftReview`, for any reviewers, any number of births and either
engine (assumption `ReviewAssumption`):

| Theorem | Property |
|---|---|
| `DraftsTyped` | `ReviewTypeOK` |
| `SuiteFollows` | `VerdictsTakeEffect` |
| `NoDraftOutOfReach` | `EveryDraftReviewable` |
| `DraftVerdictsStand` | `VerdictStands`, an action property |

Reviews refer to drafts by an id that SQLite may give again. What makes the id mean its
draft is that an id is one living case's (`IdsInOrder`), that a review whose draft lives
holds that draft's id (`ReviewsAtHome`), and that nothing at the ids of a batch under way
has a review yet (`BatchAtHome`). A request in between knows (`OpenedReview`) that the
review it loaded is still pending, unless another has it open too (`together`),
and that the case is as it should be, unless one of the named races changed it.
`TextsAreCurrent` says the same of texts that are being embedded.

And of `AlertPipeline`, for any keys and replicas, and any number of messages,
attempts and faults (assumption `PipelineAssumption`: the malformed message is
no key, `Nobody` no replica, there is at least one attempt):

| Theorem | Property |
|---|---|
| `AlertsTyped` | `AlertsTypeOK`, and that no offset is ahead of the topic (`OffsetsInTopic`) |
| `CommitsAreEarned` | `CommittedAreSettled` |
| `AlertsUnique` | `OneAlertPerKey` |

An offset that is committed covers all before it, though a replica settles one
message at a time. `SettledBehind` closes the gap: whoever is about to commit has
settled the message at its position, and the owner left nothing unsettled
behind its position that `skipped` does not name. What is settled stays so
(`SettledStays`). An alert is unique because a replica checks before it inserts and, as
long as the partition was never taken from one at work, only the owner works
(`OneAtWork`).

`DeliveryProofs` proves of `LiveFanout`, for any replicas and connections and any
number of messages and faults (assumption `FanoutAssumption`: each connection has a
replica):

| Theorem | Property |
|---|---|
| `FanoutTypes` | `TypeOK` |
| `EachOnceInOrder` | `OnceInOrder` |
| `NoneLostUnnamed` | `DeliveredOrNamed` |

A replica's subscriber loop awaits one broadcast before it takes the next message
(`OneAtATime`), so what a socket was sent is before what is being sent, and that
before what waits (`InTurn`, `QueuesInOrder`); what a replica broadcasts by itself
is outside the order, as `OnceInOrder` says. `Counted` is a budget: what a socket
was sent and may yet be sent is one, or two if the publisher repeated the message.
`OnItsWay` says that a message which a replica did not miss waits there, is being
broadcast or has arrived; `Sending`, for whom a broadcast began and whom it has served.

And of `GraphApi`, among the `Readers` of a board that others write, for any cases,
runs and documents and any number of writes (assumptions `BoardAssumption`: runs are
numbered from 1; `GraphAssumption`: documents are made of the schema's fields;
`ReadersAssumption`: the first board is one that can be):

| Theorem | Property |
|---|---|
| `ReadersTyped` | `BoardTypeOK`, `GraphTypeOK` |
| `SummariesMatch` | `SummaryMatchesResults` |
| `OwnWritesRead` | `ReadsOwnWrites` |
| `ReportedIsWritten` | `UpdateIsWritten`, an action property |
| `LastOneCompletes` | `LastResultCompletes`, an action property |

`SessionSound` is what a session can rely on: what it holds of a row was there since its
last commit, and is there still unless another request changed it; what it keeps of a row it
deleted was there since the commit before. `AnswerAsKept` says that while the fields of
a run are resolved, whatever is answered already is what the session keeps of the
row: others cannot change that, and only the session's commit expires it. That the summary
counts the results is then a matter of one session, in whichever order the two are read.
`InItsPlace`
says what a step may presume of the session (a mutation holds the rows of its run before
it judges), and `CaseInLists` and `RunInLists` follow what a field created through the
lists that its selection reads.

And of `Statistics`, among the same `Readers`, for any number of rows, runs and HTTP
attempts (assumption `StatisticsAssumption`: the limits are at least one; runs
and cases are finitely many, by `BoardAssumption`):

| Theorem | Property |
|---|---|
| `QuietAnswersHold` | `QuietAnswersAreRight`, an action property |

`QuietAnswersAreRight` is about the step that answers. `CountingInv` says what the
figures are worth until then: at each place, that what was counted so far (`SoFar`) is what
the tables hold, as long as nobody wrote since the first SELECT. The points of the
history are those of the newest runs up to the next one to show, in order
(`PointsSoFar`). At the answer, four facts about data remain: a case flips twice
exactly if it swung and swung back (`FlipsMeanSwings`), the runs that `LIMIT` keeps are
the newest and fewer only if there are no more (`LastAreNewest`), the counts of the
statuses add up to the rows because the rows are their disjoint union
(`RowsCounted`), and the rounded rate is off by half a step at most
(`RateIsNearest`).

`HistoriesProofs` has these facts where they are about numbers alone. They read like
inductions along a history; what is used instead is that a set of natural numbers
with a member has a least one, and a bounded set a greatest. Between two results that
differ lies a turn, where the first that differs from the earlier one is
(`TurnBetween`); so a swing and its way back are two flips, and two flips are a swing.

`MonolithProofs` proves of `ServerProcess`, for any requests, threads, connections,
log rows, statistics readers, sockets, subscriptions and updates (assumptions
`RequestsAssumption`, `MixesAssumption`, `PipelineStatsAssumption` and
`GatheringsAssumption`, which say what the parameters are, and that `Free`, for nobody
on the loop, is no client):

| Theorem | Property |
|---|---|
| `LogKeepsNewest` | `LogIsNewest` |
| `KnotsAreNamed` | `StuckIsNamed` |
| `AnswersYoung` | `AnswersAreRecent` |
| `NobodyMissed` | `StayersHear` |
| `EventsInOrder` | `SubscribersHearAll` |

Every writer of the log counts and trims by itself. `ExcessIsSomebodys` says that rows
too many are always within what some writer will delete, whoever else deletes
first; `CountsHold`, that a count nobody overtook is still right, so that what it
deletes is the oldest; `LogOrder`, that row numbers are given in order.

`StuckIsNamed` speaks of states in which no step but a timeout is possible, as
`CanMove` says it. `Standing` ties what a request holds to where it stands, and
`WithinPools` says that threads and connections are within their numbers; each kind of
step keeps both (`LoopWaits`, `ThreadWaits`, `WriterWaits`, `TimeoutWaits`). If nobody
can move and the loop is free, somebody wants a thread or a connection and none is
left, and counting says who has them all (`KnotsNamed`): no writer of the log,
because a writer with a connection can go on. `StepsAreGuarded`
proves that a request with a step to take `CanMove`, so that where nobody can move,
nothing but a timeout is possible. The converse, that whatever `CanMove` has a step, is a
statement about ENABLED; TLC has checked it in all states of the `server` run.

In the cache,
`EntriesMatch` bounds how much younger the time can be than the data beside it, by how
long a request takes (`Patience`), and `ReadsMatch` carries that to a reader whose
two reads were not torn. In a room, `WaitingAreLeft` says that whoever is still to hear an
update is left to be met by the iteration over the set, since only the lost leave.

And of `Triage`, for any cases, turns, calls of the model and recorded results
(assumption `TriageAssumption`: finitely many runs, numbered from 1, and the sets of
calls and first states that the eval and the endpoint have):

| Theorem | Property |
|---|---|
| `VerdictsStand` | `VerdictsAreFinal` |
| `SettledVerdictsHold` | `UnflaggedIsSupported`, an action property |

`SinkHasFirst` ties the verdict kept for a case to the first legible call of the
trace, and `AcceptedAreFirst` says that no other call for it was accepted. The upper bound on
repeats is by an injection: of the attempts that count as repeated, one that was
accepted stands for the first call of its case, which was refused, so the attempts are no
more than the refusals.

A verdict needs no review if it is the heuristic's own or one the agent shares with it, so
`UnflaggedIsSupported` is about `heuristic_verdict`. `EvidenceInv` says that the
statuses and the health read by the first SELECT are still those of the database,
unless something between the two reads made them `torn`. Then each rule of the heuristic
means what the property says of the database: two flips with the present failure are a
failure followed by a pass; less than two, with the last two passed, are a case that
never failed before (`FlipsMeanSwings`, `LastAreNewest`).

The types of the modules with proofs are theorems and not properties of a run.
Bounds such as `MaxUpdates` or `MaxFaults` occur in guards; that they are numbers is
used, their size is not.

**Only model-checked.** The liveness properties: `EventuallySettled` of `population`,
`alerts` and `run_page`, `FailureEventuallySettled`, `EventuallyThrough`,
`EventuallyAnswered` and `EveryoneServed`. The prover does not reason about fairness,
whose definition is by ENABLED; for the same reason, that `CanMove` is no more than
what is ENABLED. No module declares a RECURSIVE operator.

## 6. Plan

Every part that is to be modelled is, and every safety property of a run is proved.
What is left is out of the prover's reach: the liveness properties above. When the
code changes, the order is that of section 1: model, run, and the lemma of the
action that changed.

## 7. Not modelled, and why

* **API gateway.** A stateless proxy. Its WebSocket bridge is two tasks, one per
  direction, that pass frames in order and end together; a bridged socket
  that is lost is a socket that leaves, in `LiveFanout`.
* **AI service.** One request to an external model with a fallback; no state.
* Rendering, validation of request and response bodies (the latter in the threadpool,
  one more wait with a connection held, in the same circles that `StuckIsNamed` names), the format and expiry of tokens, rate
  limits, GraphQL depth, alias and token limits, and logging to files: they
  refuse or describe, and no property tells them apart.
* Prompt texts, the arithmetic of embeddings and similarity, and the scorers and
  judges of the evaluations: the models take any answer of a model, and any tally
  of a dataset, instead.
* LangGraph's recursion limit of 25 steps, which the default of three healing
  attempts does not reach; `test_plan_reviewer`, a single call of a model; the
  pages of the scripts that only write reports.
* A `renderRun` whose fetch fails, pages other than the run page, and reconnects
  of the page's socket (the client has none).
* Deletion of a suite that has drafts under review, a change of the embedding model, and the
  export of reviewed cases.
* The catalogue on SQLite, which may give an id again and enforces no foreign
  keys; a monolith test case with an embedding, whose deletion PostgreSQL refuses
  (`DraftReview` has it); demo projects of more than one suite or with drafts.
* Accounts on SQLite, which may give an id again; e-mail addresses, which are
  unique as names are; and passwords.
* Statistics of more than one suite per project, which are sums of those of one.
* The pool of connections on PostgreSQL: the monolith opens one connection per
  use there (NullPool) and waits for none; `Requests` is SQLite's queue of 5
  and 10 more, which the services edition has as well.
* Kafka with several partitions: the topic is created with the broker's default.
* Timing: delays, back-offs and timeouts appear as steps that may happen at any
  time; how long they take is modelled in `PipelineStats` only.
* Infrastructure, next-app, vite-app and the test suites: no shared state between
  processes, or only a description of a deployment.
