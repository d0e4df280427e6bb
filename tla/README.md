# HO: a TLA+ verification of the brain and what surrounds it

HO (`src/`) is one Go process that builds and looks after web projects ("sites").
Each site has an SQLite database of its own and one *pipeline worker*, the brain: a
goroutine that drives a language model through the stages EXPAND, PLAN, BUILD,
VALIDATE and COMPLETE, asks its owner questions, then monitors the site.  In BUILD the
model calls tools that make tables, endpoints, pages and files; a public server shows them
to visitors.  Owners act through an admin API, a Telegram bot and a chat; a scheduler and a
job worker act on their own; a tunnel shows a site through a broker.  The whole process may
die at any time, and what it knows afterwards is in the databases and on disk.

This directory specifies that system in TLA+: the worker and the row it keeps, the tool
loop, the background jobs, the scheduled tasks with the life of their site, the content and
the tables of a site, its public interface with events, webhooks and payments, its rooms
and streams, and the bot, the tunnel and the chat.  All of it is model-checked; the central
safety properties of five components are proved for every value of the constants.

## 1. Inventory

| Component (source) | State it keeps | Operations | Talks to | What is hard | What makes it correct | Module |
|---|---|---|---|---|---|---|
| Pipeline row (`brain/plan.go`) | `ho_pipeline_state`: stage, plan, pause and reason, error count | AdvanceStage, ResetPipeline, PausePipeline, ResumePipeline, IncrementErrorCount, saving the plan | everything below | many writers, no transactions | stages follow the stage graph; no stage without its plan | `PipelineRow` |
| Pipeline worker (`brain/pipeline.go`, `stages.go`) | its state, stage and retry count, wake context, command channel | Run, autoRecover, build, paused and monitoring loops, handleCommand | row, questions, manager, model | crashes, stops, retries, commands at any time | breaker survives restarts; builds end; answers resume; memory agrees with the row | `Pipeline` |
| Questions, approvals (`server/admin/questions.go`, `tools/communication.go`, `tools/approval.go`) | `ho_questions`, `ho_answers` | ask, supersede, answer, request and use an approval | bus, worker | an answer racing the question and the pause | the worker resumes when all is answered | `Pipeline`, `SiteTables` |
| Tool loop and executor (`brain/tool_loop.go`, `messages.go`, `progress.go`, `tools/executor.go`) | conversation, counters, progress, checkpoint | call the model, run tools, prune, mark, checkpoint, pause | tools, row | parallel calls, timeouts that do not stop a tool, pruning, restored conversations | results with their calls; marks are earned; the budget; an end | `ToolLoop` |
| Background jobs (`brain/jobs.go`, `tools/jobs.go`) | `ho_jobs` | enqueue, claim, run, complete, retry, cancel | a job worker per site | overlap, crash, cancel while running | attempts bounded; done is done; nothing lost | `JobQueue` |
| Manager and databases (`brain/manager.go`, `db/sitedb.go`, `server/admin/sites.go`) | workers, open databases, `sites`, directories | create, delete, toggle, start, stop, open, sweep | everything | deletion and reopening under use, creation that stops half way | no worker on a dead database; no listed site without data | `Sites` |
| Scheduler (`brain/scheduler.go`, `scheduled.go`, `tools/scheduler.go`) | `ho_scheduled_tasks`, `ho_task_runs` | find due, record, dispatch, move next_run, execute, edit | manager, worker | three writes without a transaction, full channels, edits meanwhile | each due time recorded once and served; runs get finished | `Scheduler`, `RunRecord` |
| Content (`tools/pages.go`, `layout.go`, `editing.go`, `storage.go`, `media.go`, `server/admin/site*.go`) | rows, files, histories | save, edit, revert, rollback, rename, delete, fetch, resize | site database, disk | tools of one answer side by side, row and file apart | what is replaced is kept; numbers name one text; rows have files | `Content` |
| Tables and endpoints (`tools/tables.go`, `endpoints.go`, admin handlers) | physical tables, registry, secure columns, full text index, endpoints, secrets | create, alter, drop, write and import rows | approvals, site database | statements that fail half way, overlapping drops, stale security metadata | nothing dangles; secrets are sealed | `SiteTables` |
| Events, webhooks, actions (`events/bus.go`, `webhooks/outgoing.go`, `actions/runner.go`) | subscriptions, deliveries, log | publish, deliver with retries, run actions, edit | bus, outside servers | deliveries outliving their webhook | one log row per delivery, with its outcome | `SiteEvents` |
| Public API (`server/public/handler.go`, `cache.go`, `auth.go`, `webhooks.go`) | response cache, rows, accounts, uploads | read, write, register, log in, upload, receive | events, site database | reads and writes that overtake, look up then insert | no stale answer; no twin accounts | `PublicApi` |
| Payments (`tools/payments.go`) | orders, subscriptions | configure, create, cancel, check, webhook | provider | lost answers, late and repeated webhooks, rows nobody is asked about | rows tell the truth | `Payments` |
| Rooms, streams, model endpoints (`server/public/ws_hub.go`, `handler.go`) | rooms, channels, subscriptions, rate windows | join, switch, send, leave, publish, ask | bus, model | connections that end in any order, full channels | nothing is left open; limits hold | `Realtime` |
| Telegram bot (`bot`) | offset, chat states, sessions | poll, handle, create a project, reload the token | Telegram, bus, manager | restarts, token changes, two pollers | no update lost or handled twice | `Telegram` |
| Tunnel (`tunnel`) | entry, connection, requests, relays | start, stop, proxy, relay | broker, public server | many writers on a line, ends racing restarts | frames stay with their bodies; nothing is left open | `Tunnel` |
| Chat (`chat`) | messages of a session | send, ask, run tools, save, load | tools, worker | overlapping requests, partial saves | a history the model accepts | `Chat` |
| LLM clients, prompts, middleware, cryptography, configuration, Caddy, web UI | little or none | calls and formatting | outside services | data, not control | - | section 7 |

## 2. Plan

In the order it was followed, the most important behaviour first:

1. `PipelineRow`, `Pipeline`, `MCPipeline`, `PipelineProofs`.
2. `JobQueue`, `MCJobQueue`, `JobQueueProofs`.
3. `Sites`, `RunRecord`, `Scheduler` (which extends `Sites`), `MCScheduler`, `SitesProofs`,
   `SchedulerProofs`.
4. `ToolLoop`, `MCToolLoop`, `ToolLoopProofs`.
5. What the tools make: `Content`, `SiteTables`, `MCSiteTables`, `SiteTablesProofs`.
6. What visitors reach: `SiteEvents`, `PublicApi` (which extends `SiteEvents`), `Payments`,
   `MCData`, `DataProofs` (with `Content`).
7. The edges: `Realtime`, `Telegram`, `Tunnel`, `Chat`, `MCEdge`, `EdgeProofs`.

Left for later, in this order: two overlapping pipeline workers on one row (jobs and sites
have the overlap already); the single-statement tools (components, SEO, memory) should they
grow control of their own.

## 3. Modules and how they correspond to the code

Two abstract specifications are stated and implemented: `PipelineRow` by `Pipeline`
(`RowSpecImplemented`, checked and proved) and `RunRecord` by `Scheduler`
(`RunsImplementRecord`, checked and proved).

Everywhere: one SQL statement goes through the database's serialized writer and is atomic,
and so is one call of the file system or of an outside service.  Statements share a step
only where no other actor can tell.  Handlers that only read, or only report, are left out.
An operator marked "Wrong on purpose" is a plausible bug in the definition that
follows it; no specification uses it, and it serves to see a property fail.

### `PipelineRow`

Variables `stage`, `planned`, `pause`, `errs` are the columns `stage`, `plan_json IS NOT
NULL`, `paused`/`pause_reason` and `error_count`.  Every SQL statement of the program
that writes one of them is an action with that statement's effect; its guard is what the
callers must guarantee.  `Edges` is the stage graph of the build loop, with the edge
VALIDATE -> MONITORING that appears when the advance past a failed VALIDATE could not be
written.  `"failure"` stands for the free-text reasons ("permanent error in ...", "stage
... failed n times"), which is exactly the class autoRecover lifts.

### `Pipeline`

One site's worker and everything that touches its row.  `loc` is where the goroutine is:

| `loc` | code |
|---|---|
| `off`, `gone` | no goroutine; the goroutine returned and its entry is still in the manager |
| `boot`, `enter` | `Run`, `runBuildPipeline` before its loop |
| `top`, `run`, `done` | loop head; inside a stage handler; handler returned a stage, before AdvanceStage |
| `asking`, `patching` | inside runPlan's loop of INSERTs; inside runUpdatePlan between deleting pages and saving the plan |
| `failed`, `judge`, `tripped`, `backoff` | handler returned an error, through to the wait before the next try |
| `paused`, `monitor`, `tickwait`, `tick` | the two loops, and a monitoring tick before and after it has the semaphore |

`bstate`, `cur`, `retries`, `wakeCtx`, `chan` are `PipelineWorker.state`, the local
`stage` and `stageRetries`, "wakeContext carries an answer" and the command channel.
`qst` is the status column of each question; `waking` the progress of the handler that
answers it (mark, count, publish, retry of the send); `modeReq` the admin handler between
writing `sites.mode` and sending; `chatq`/`chats` the chat goroutines before and after
the semaphore; `cancelled` the worker's context.  `broken` is a history variable.

One step are: the INSERT of a secret question with the pause that follows in the tool loop
(the INSERT alone is `InfoAsked`), status and answer of a question, the few statements of
autoRecover, and a scheduled task (which the loop runs inside `handleCommand`, so no command
is handled meanwhile).  A stage handler's LLM and tool work is its outcome (success, pause,
or an error that is transient, permanent or critical) and the writes of the row and the
questions it makes on the way; the loop of BUILD is `ToolLoop`.

### `JobQueue`

The table `ho_jobs` and the workers that poll it.  `status`, `attempts` and `limit`
(`max_attempts`) are columns; `due` says whether `scheduled_at` has come.  A worker's `pc`
names the point of `processPending` it is at, between two SQL statements: `poll` (waiting
for its ticker), `claim` (a row was read), `exec`, `done`/`erred` (executed, result not
yet written), `retry`/`giveup` (counts read).  `handle` is the manager's entry for the
site: `Stop` drops it and goes on, so `Start` may start a second worker while the first
holds a job; only the wait for the ticker notices the cancelled context (`Exit`).

`Enqueue` is the tool, which clamps `max_attempts` to 1..10; `ActionEnqueue` the action
`enqueue_job`, which truncates any positive number.  What a job does is its outcome.

### `Sites`, `RunRecord`, `Scheduler`

`Sites` is one site's row, directory, cached open database and worker, with the creating,
deleting and toggling requests step by step.  A database opened is known by a number, so
that a handle to a closed one can be told; `late` are workers started after a deletion had
begun, which the code lets happen and which the property excuses.  A creation whose database
fails takes its row back (`CreateUndo`); that may fail too, nobody looks, and the row is `"left"`.

`Scheduler` extends it.  `spc` is where the scheduler's goroutine is in its pass (between
selecting, the run record, the send, the failure mark and the update of `next_run`);
`queue` and `wpc` are the command channels and the workers; the tool's and the admin's edits
are actions of their own, two-statement ones in two steps (`editing`, `flipping`).  Whether a
time has come is all that is kept of time.  `RunRecord` says what a row of `ho_task_runs` may
go through.

### `ToolLoop`

The loop of one BUILD after another: `loop` the goroutine and its locals, `messages` and
`checkpoint` the conversation in memory and in the row, `group` the calls of one answer and
how each stands, `late` the calls that were given up at their timeout and go on in their
goroutine, whose item `LateWrite` makes or drops at any time later or never, `bp` the progress
tracker, `spent`/`burnt` the cost tracker and (a ghost) all that was spent, `breaks` (a ghost)
the loops that were paused, failed or crashed, `undone` (a ghost) the items such a call has dropped.
An answer costs any number of `Costs`, at most `MaxAnswer`, and is looked at when it is paid.
Pruning, anchors and truncation are operators on sequences of messages.

### `Content`, `SiteTables`

Operations under way are records with the statement they are at; several run side by side,
as the tools of one answer, chats, ticks and the owner do.  In `Content` a text is a number,
a document has a row, a file one or two places on disk (the tools write to `ho_assets`, the
admin to `assets`), and a history that is pruned.  Only files in `TextFiles` have versions kept
by a save.  A read that fails is what the handler makes of it: nothing there (`BeginUnread`), no
version yet, so number 1 again (`Number`), or no version kept; `unsure` (a ghost) are the
documents with numbers of that kind or numbers looked for at once.  In `SiteTables` a column is
secure or not, a value stored is clear or sealed, and each endpoint kind is the set of its
endpoints; the ghost `torn` holds tables whose operation was cut short or overlapped by a
removal.  Every call that reads `secure_columns` may fail to and go on (`BeginReading`); the
ghosts are `exposed`, the tables that calls shaped side by side or left with the registry behind
the columns, and `blind`, the writes whose read failed or whose table was shaped after it.

### `SiteEvents`, `PublicApi`, `Payments`

`SiteEvents` has the webhooks, one action, and for each event one delivery per webhook and
one execution, each a goroutine.  `PublicApi` extends it with the requests that publish
those events: the table is known by how many changes were made, a cached answer by the
change it was made after.  `Payments` has the provider's record and ours for each order, the
calls between, the webhooks it may send late and more than once, and the provider's type, which
`configure` may replace at any time: without a request for it (`supported`), or an id in the row
(`blank`), a cancellation writes its row and asks nobody, and the ghost `unasked` keeps which.
A registration whose look-up fails goes on as if the name were free.

### `Realtime`, `Telegram`, `Tunnel`, `Chat`

`Realtime`: for each room and client whether it has the channel its connection drains, a
later one, or none; the read pump, the deferred leave, and Publish's copy of the handlers.
`Telegram`: what Telegram holds, which update the offset confirms, and each poller's place;
a handler is one step but for the creation of a project.  `Tunnel`: the last two frames of
each line and who holds its lock, requests and relays on it, the manager's entry.  `Chat`: the
last messages of a session by kind and group, and each request's round.

### Instances and proofs

`MCPipeline`, `MCJobQueue`, `MCScheduler`, `MCToolLoop` and `MCSiteTables` hold the instances'
bounds.  `MCData` and `MCEdge` put modules that share no state beside each other: a behaviour
picks an *area* at the start and only that area moves.  The states are then the sum of the
areas' and not their product, and since no area reads another's variables no interleaving is
lost; where two components do interact they are one area (`api` is requests, deliveries and
actions together) or one module extends the other (`Scheduler` and `Sites`).  The modules
named `...Proofs` hold the theorems of section 6.

## 4. What the runs check

Every bound on the environment (commands, crashes, failures, edits, messages) is a constant
marked as a bound where it is declared; the components' own steps are not bounded.

| Run | Instance | Checks | Result |
|---|---|---|---|
| `safety` | 1 question, all seven commands; one each of command, mode change, crash, database failure | `TypeOK`, `WorkerInv`, `BreakerHolds`, `RowSpecImplemented` | hold, 2.50 million states |
| `liveness` | 1 question, wake, one crash, one stop, fair | `BuildEnds`, `StopTerminates`, `InterruptedBuildResumes`, `AnsweredResumes` | hold, 69 thousand states |
| `jobs` | 2 jobs, 2 workers, limits 0 and 2, one stop, crash and failed statement, fair | `OneRunner`, `StopsLoseNothing`, `ResultStands`, `JobsEnd` | hold, 410 thousand states |
| `tasks` | 1 task, 2 runs, 2 workers, 2 openings, 1 channel place, 2 edits, one trouble of each kind, fair | `ListedHasData`, `WorkerHasDatabase`, `RunningIsOnItsWay`, `RunsImplementRecord`, `NotTwice`, `DueIsServed` | hold, 668 thousand states |
| `loop` | 1 table, 1 page, 4 iterations, 2 calls an answer and 3 in all, window 3, budget 5, answers of 1 and 3, one fault, fair | `ToolLoopTypeOK`, `GroupsInOrder`, `BudgetHolds`, `MarksAreEarned`, `LoopEnds` | hold, 804 thousand states |
| `tables` | 2 calls at a time and 3 in all, 1 table, path and provider, one fault | `TablesTypeOK`, `NothingDangles`, `SecretsAreSealed` | hold, 1.05 million states |
| `data` | content: 2 writers, 2 files (one a text), 3 operations, one failure; events: 1 webhook, 2 events; api: 2 requests, 1 row, 1 account; payments: 2 payers, 1 checkout, 1 subscription, 4 calls, 2 faults | `DataTypeOK`, `RowHasFile`, `NumberNamesOneText`, `OverwrittenIsKept`, `FreshUnlessOvertaken`, `TwinsOnlyIfRaced`, `LoggedOnce`, `RowsTellTheTruth` | hold, 1.36 million states |
| `edge` | 2 clients, rooms, streams, pollers, tunnels and chat requests; 1 chat of the bot, request, relay, asker; 2 messages, updates, sends; 6 ticks | `EdgeTypeOK`, `NothingLeftOpen`, `RateHolds`, `UpdatesHandled`, `FramesPaired`, `HistoryWellFormed` | hold, 832 thousand states |
| `approval` | the worker undisturbed | `ApprovalWaits` | violated |
| `update` | the worker, one update command, fair | `UpdateStarts` | violated |
| `jobs_cancel` | 1 job, 1 worker, undisturbed | `CancelStands` | violated |
| `rooms` | the instance of `edge` with fewer updates, tunnels and sends | `SwitchedAreHeard` | violated |

Why the bounds are enough.  The worker has one row and one channel, so one event of each
kind gives every pairwise order of command, mode change, crash, failure and question with
every point of the worker; `MaxStageRetries` is 2 (3 in the code), the smallest value with
both a retry and a trip.  Elsewhere the hazards are races of two: two workers are a stopped
one and its successor, two writers, requests or calls a race, a third operation one that
finds what the race left.  Two runs of one task are a due time recorded twice; one channel
place fills at once.  A history of one version prunes at the second save; four iterations
with a window of three prune in the last; the limit of two requests and a minute of three
ticks in six put every boundary of the sliding window inside the clock.  With a budget of 5, 2 of
it used, answers of 1 and 3 reach the budget exactly, pass it, and stay below it.  One
fault per component is what the single-fault claims speak of; the bot has two, to take a
token away and give it again, and payments have two, to lose an answer and the retry's.  The
proofs of section 6 lift the safety results they name to all values.

Callers in `tables` and writers in `data` are declared symmetric: no definition tells them apart
and the properties are safety.  In the area `api` a table has a unique index just when it has a
row at the start, since accounts and cached rows do not interact.

`CHECK_DEADLOCK` is FALSE: with the bounds used up and nothing to read the instance rests.

What the passing properties say:

* `WorkerInv`: among its parts, the stage being run is the stage a restart would run, except
  COMPLETE on a row that still says VALIDATE.  `BreakerHolds`: after `MaxStageRetries`
  failures in a row no stage runs until the owner resumes, updates or restarts the build -
  also if the process dies between the count and the pause.  `RowSpecImplemented`: the worker
  refines `PipelineRow`.
* `BuildEnds`, `StopTerminates`, `InterruptedBuildResumes`, `AnsweredResumes`: retries are
  bounded; a cancelled context is noticed wherever the goroutine waits; after a crash in
  building mode the stage of the row is run; no worker waits for answers it already has.
* `OneRunner`, `StopsLoseNothing`, `ResultStands`, `JobsEnd`: the claim alone keeps
  overlapping workers from one job; only a crash or a failed statement strands a job; an
  ended job stays as it is; a pending one ends.
* `ListedHasData`, `WorkerHasDatabase`: a listed site has its data, but for a crash between
  row and database, or a failed creation whose clean-up failed too, and the worker
  that commands go to has the open database, unless it was
  started while the site was being deleted.
* `RunningIsOnItsWay`, `NotTwice`, `RunsImplementRecord`, `DueIsServed`: a run is in one
  pair of hands and not forgotten, a due time is recorded once, verdict and result never
  meet on a run, and a due task of an open site is reached though its worker builds for ever.
* `GroupsInOrder`, `BudgetHolds`, `MarksAreEarned`, `LoopEnds`: in what is sent to the model,
  every message with calls has its results behind it, one each and in order, whatever was
  pruned or injected (the first of them only, where a checkpoint was restored), and a result
  that lost its call comes before all of them; a build burns at most a ceiling - less than the
  budget and one whole answer - for each of its loops that was broken off and once more; progress
  marks what was made, and what is gone by then was dropped by the same group or by a call given
  up; the loop ends though tools hang and providers fail.
* `OverwrittenIsKept`, `NumberNamesOneText`, `RowHasFile`: what an operation has read is in
  the history when it overwrites it (binary saves, uploads and the admin's page editor read
  nothing and keep nothing); numbers are unambiguous unless two operations looked at once or
  the newest could not be read; rows have files.
* `NothingDangles`, `SecretsAreSealed`: endpoints stand on registered tables, those on real
  ones, providers on secrets; a secure column gets a clear value only by an import that could
  not seal it, a write that could not read which columns are secure or whose table was shaped
  under it, or in a table whose registry a failed read, the owner's gate, a removal, a failure
  or two calls shaping it at once have left behind - never by calls one after the other.
* `FreshUnlessOvertaken`, `TwinsOnlyIfRaced`, `LoggedOnce`, `RowsTellTheTruth`: the exact
  races under which the cache is stale, and the races and failed look-ups under which a name
  has two accounts; deliveries are logged once with their outcome; no order is final here that
  is not at the provider, but for subscriptions canceled without asking.
* `NothingLeftOpen`, `RateHolds`, `UpdatesHandled`, `FramesPaired`, `HistoryWellFormed`: the
  edges clean up, keep their limits, lose no update, keep frames with bodies, and load
  conversations a model accepts but for the failures and overlaps named.

The four violations are disagreements between code and text, listed in `PROJECT.json`
under `findings`: an approval does not stop the build that asked for it
(`tools/approval.go:106`); an update command received while monitoring is recorded and never
run (`brain/types.go:67`, `brain/pipeline.go:508`); a job cancelled while it runs is
overwritten by its result (`tools/jobs.go:31`); and a WebSocket client that switches rooms
hears nothing of the new one (`server/public/handler.go:2754`).

Met while modelling and not stated as a run:

* Pruning backs up over results and stops at any other message, while anchors and page
  contexts are injected between the results of one message (`brain/tool_loop.go:506`): with a
  table and a page made by one answer the window can begin behind the anchor, and the page's
  result is sent without its call, although calls and results are not to be split
  (`brain/messages.go:90`).  `CutsAtInjected`, which is proved, says that this is the only way.
* A wake-up may come with a question of the same plan pending, since questions are inserted
  one by one before the pause (`server/admin/questions.go:268`).
* An incremental update interrupted by a crash is abandoned, since the restart goes by
  `sites.mode` (`README.md:44`).
* The budget of a build is passed by as much as the last answer costs, and once more by each
  loop that was paused, failed or crashed, whose tokens are never added
  (`brain/stages.go:487`), though it is a "hard ceiling for the entire build"
  (`brain/progress.go:129`).  `BudgetHolds` says how far.
* Errors are dropped where the outcome then is the opposite of what was meant: the removal of a
  site's row (`server/admin/sites.go:136`), the newest version number (`tools/storage.go:361`),
  the secure columns of a table (`tools/tables.go:181`), the look-up of a name
  (`server/public/auth.go:166`).  The properties about them name these cases.
* A subscription whose row has no id, or with a provider that is neither Stripe nor PayPal, is
  canceled in the row and goes on at the provider (`tools/payments.go:1097`).
* With a channel that can be full the wake-up is dropped after two tries.
* COMPLETE marks what the plan names as done though a tool of the same build dropped it
  (`brain/progress.go:67`).
* `alter` adds columns and then returns for the approval to drop others; the columns exist
  at the second call, and secure ones among them are never registered
  (`tools/tables.go:621`, against line 648).
* A rollback keeps nothing of a file that the admin uploaded, although it is to be reversible
  (`tools/storage.go:1080`); a save of a binary file keeps no version (`tools/storage.go:347`); and
  the row of a media output is never inserted, since it names a column there is not
  (`tools/media.go:166`).
* `run_now` is overwritten if the scheduler is at that task (`tools/scheduler.go:306`).
* The bot takes "/cancel" for the description of a project it awaits, its answer buttons
  carry two parts where three are read, and a bot without a provider at the start never
  subscribes (`bot/service.go`).
* `ws_broadcast` sends to the room "default", while a client that names none joins another
  (`actions/runner.go:603`).
* The result of a tool refused in a chat is not saved with its call (`chat/session.go:283`).
* `Close` of a tunnel waits for a write that hangs, and the client never reconnects although
  it has constants for it.

## 5. Fairness

`Pipeline`: weak fairness of the worker's own steps (a goroutine that can run does; every LLM
call has a timeout, `stageTimeouts` and the clients' own), of starting a site's worker (the
process is restarted and `AutoStart` runs), of the chat goroutines and of the handlers that
count and send; strong fairness of handling a command and of noticing a cancelled context,
since Go's `select` picks at random among ready cases and the loop comes back to it.

`JobQueue`: weak fairness of a worker's steps (executions have timeouts or their clients do),
of time passing and of starting the site again; strong fairness of `Exit`, again Go's `select`.

`Scheduler`: weak fairness of the scheduler's pass alone: its ticker comes again and a send
has its timeout.  Workers may build for ever.

`ToolLoop`: weak fairness of the loop's goroutine (a provider call ends with an answer or at
its timeout), of the tools that do not hang, and of the timeouts.

Nothing is assumed of owners, visitors, the monitoring timer, crashes, stops or failures.
`Content`, `SiteTables`, `MCData` and `MCEdge` state safety only.

## 6. What is proved

TLAPS proves, from the named assumptions on the constants alone:

**The worker** (`PipelineProofs`; any questions, capacity, semaphore,
retry limit and bounds).  `RowPlanBeforeBuild`: the row's protocol keeps its types and never
records a stage that needs a plan without one.  `PipelineInvariant`: `[](TypeOK /\
WorkerInv)`, from which `PipelineTyped`, `PipelineMemoryMatchesRow`, `PipelineBreakerHolds`.
`PipelineImplementsRow`: `Spec => RowSpec`, and with the first `PipelinePlanBeforeBuild`.
That `retries` stays within its type needs that it is below the limit wherever it is about
to be incremented (`RetriesBounded`); that the breaker holds needs that the row counts at
least as much as the loop and that a tripped worker is never at the start of the loop with a
count below the limit (`BrokenStaysOut`); that memory matches the row needs that the stage a
handler named is a successor of the one that runs (`SuccessorIsNext`).  `WorkerInv` is their
conjunction.

**The jobs** (`JobQueueProofs`; any number of jobs, workers, limits up to 61).
`JobsInvariant`: `[](TypeOK /\ JobInv)`, from which `JobsTypeCorrect`, `JobsOneRunner`,
`JobsAttemptsBounded`, `JobsStopsLoseNothing`; and `JobsResultStands`, an action property.  A
claim is exclusive because what a worker holds is marked running or cancelled and so never
pending.

**The site** (`SitesProofs`; any number of workers, openings and troubles).
`SitesInvariant`, from which `SitesListedHaveData` and `SitesWorkerHasDatabase`.  The
strengthening, `SitesOrder`, is the order in which things go: a cached database has its
directory, files are removed only after the row, a worker present during a deletion is late,
and a row without a directory is one being made, one being taken back or one left.

**The scheduler** (`SchedulerProofs`; any tasks, runs, edits).  The site's invariant holds
under the scheduler's own look-ups and openings, by one lemma saying that every other step
leaves the site alone or is a failed statement (`SchedulerListedHasData`,
`SchedulerWorkerHasDatabase`).  `SchedulerNotTwice` rests on `FiredIsCurrent`: a task whose
run is recorded and whose `next_run` is old is the one the scheduler is at.
`SchedulerRunsAreHeld` and `SchedulerImplementsRecord` (`FairSpec => RunsImplementRecord`) come from
`WayInv`: no two hands have one run (`Apart`), a run in a hand has not ended (`Unended`), and
while nothing was stopped, crashed or failed no running run is in no hand (`CalmInv`).

**The tool loop** (`ToolLoopProofs`; any plan, limits, window and faults).  `ToolLoopIsTyped`
needs that the head of an iteration is within the limits (`Within`).  `BudgetIsACeiling`
needs that before an answer the account is below the budget, or nothing was added to it yet, so
that after it the account is at most the `Ceiling`; and that what the account has forgotten is at
most a ceiling for each loop broken off (`BudgetInv`).
`MarksHaveCalls` needs that a call that succeeded has made its item, unless the group has a
call that drops it or it was undone by a call given up (`MarksInv`).
`CallsKeepTheirResults` and `CutsAreAtInjected` come from
`TalkInv`, on the conversation and on the checkpoint: numbers of calls rise along it
(`InOrder`), a result behind a call is of the last call before it and the earlier results are
there (`Grouped`), no number is above the last one asked (`Numbered`), and all calls are
answered, except while their tools run and after a restart (`Whole`, `Asked`).  Rising numbers
are what makes it inductive: a result kept without its call cannot be taken for one of a later
call.  What pruning does is one lemma: the result is a `Cut`, the first message, summaries, and
a selection of the rest that leaves out stale contexts only.  The conversation is built by
`FlattenSeq`; its steps are followed from the least one at which a claim would fail, since
the library's induction theorems cannot be instantiated.

**Content, events, public API, payments** (`DataProofs`; any writers, requests, webhooks,
orders and faults).  `RowsHaveFiles`, `NumbersNameTexts` and `OverwritesAreKept` from
`ContentInv`: what each operation has read and is about to write (`JobsSound`, `ReadIsKept`),
that the file a row is made for is there (`FilesThere`), and that a history has a newest
number and that an operation about to write one in a document that is not `unsure` has one
beyond it (`NumbersAhead`).  `EventsLogOnce` from `EventsInv`: where a delivery is in its course
and what it has logged by then.  `CacheFresh` from `CacheInv`: a read about to fill the cache
knows every promised change unless an invalidation overtook it (`ReadsFresh`), and no promise
is ahead of the table (`PromisesMade`).  `TwinsHaveRaced` from `ApiInv`: what a registration
about to insert has seen (`AccountsKnown`).  `PaymentsTruthful` from `PayInv`: what a call
knows (`AnswersTrue`) and what a webhook says (`NewsTrue`) of a final state was true when it
was learnt, and final states stay; a call that is about to cancel a row has asked, or is on
record as one that did not.  `DataTyped` and `AreasAreTheirs` carry them over to
`MCData`, whose behaviours implement `ContentSpec` and `PaymentsSpec`.

**Tables and endpoints** (`SiteTablesProofs`; any tables, paths, callers and faults).
`TablesInvariant`, from which `TablesTyped` and `NothingDanglesEver`: something registered or
served stands on what it needs, or its table is *torn* (removed under other work, or half
made), or a removal is at the stage that explains it; and what a call has found is there until
such a removal (`CallsStand`).  `SecretsStaySealed`, an action property, from `SecretInv`: a
table neither torn nor exposed has at most one call that shapes it, which knows its secure
column; with none its registry names the column; and a write that is not blind has seen it.

**The edges** (`EdgeProofs`; any clients, streams, relays, chats, requests and faults).
`EdgeInvariant`, the conjunction of an invariant for each part; a step moves one part and
leaves the variables of the others.  `NothingStaysOpen`: a client is where its read pump says
or nowhere (`InItsRoom`), a room is there exactly while it has members, and of a tunnel's
relays the open ones are known and told (`OpenIsKnown`, `ToldIsRelayed`).  `RateHoldsAlways`:
the log keeps all of the last minute (`RemembersTheMinute`).  `FramesStayPaired`: whoever
announced a body holds the lock (`LockedUntilBody`).  `UpdatesAreHandled`: all before a
poller's place is handled, and nothing behind it while nothing was upset (`Passed`, `Ahead`).
`HistoryStaysWellFormed`: while tools run, the history awaits exactly the results still to
come (`HistoryAwaits`).

`MemoryMatchesRow`, `PlanBeforeBuild`, `AttemptsBounded`, `CutsAtInjected` and the jobs' types
are proved and need no run of their own; `WorkerInv` in `safety` contains the first.  Every
safety property of a passing run is proved.  Only model-checked are the liveness properties (`BuildEnds`,
`StopTerminates`, `InterruptedBuildResumes`, `AnsweredResumes`, `JobsEnd`, `DueIsServed`,
`LoopEnds`): they need fairness and `ENABLED`, which this prover does not reason about.

## 7. Not modelled

Within the modules.  `Pipeline`: two overlapping workers (in `JobQueue` and `Sites` they do
overlap), the manager's lock while a send waits, writes whose error the code ignores, the
idle counter, the stage log, what questions ask.  `ToolLoop`: the loops of other stages,
owner messages taken in between, and what anchors say.  `JobQueue`: the text comparison of
`scheduled_at`, attempts beyond 61, a site without a database.  `Scheduler`: cron syntax and
when the next time is.  `Content`: what texts say; components, SEO, site settings, search,
memory, analytics and diagnostics, which write single statements.  `SiteTables`: queries,
filters, the SQL of a schema, blobs and stored secrets.  `PublicApi`: rendering, `authMe`
and token refresh, filters, host names.  `SiteEvents`: signatures, headers, templates.
`Payments`: plans (`createPlan`).  `Telegram`: the wording, and `answerQuestion`, which no
button reaches.  `Chat`: the map of sessions and the merged history of the page.

Without a module, because they keep no control state of their own or are outside this
repository: LLM clients (an outcome of the step that calls), prompts and manifests, the rate
limiter of the middleware (buckets of x/time/rate), cryptography, configuration and
migrations, Caddy, and the web UI, whose requests are the owner's actions.
