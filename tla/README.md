# easytask in TLA+

A verification project for easytask, a distributed task scheduler in Go: several
processes share a MySQL database, one of them is elected master, and the master
calls HTTP callback services when tasks are due. The modules here model the core
of the program (`src/internal/task`, `src/internal/registry` and the repositories
under `src/internal/task/impl`) and the end of a process (`src/main.go`, the HTTP
router), TLC checks them on small instances, and TLAPS proves the most important
safety properties for every value of the constants.

## 1. Inventory

| component | source | state | operations |
|---|---|---|---|
| task table | `impl/repo/mysql/task_repo.go`, `data_model.go`, `task/task.go` | row per task: plan, run_times, allow_max_run_times, last_run_at, deleted_at | AddTask, DelTaskById, TimeoutTasks, LockTask, ConfirmTask, DelTasks |
| task log | `impl/repo/mysql/task_log_repo.go` | row per (task_id, run_times): status, ended_at, resp_extra | SaveTaskStartedLog, SaveTaskCallbackLog, SaveTaskConfirmedLog, DelLogs |
| task API | `apihandler/http.go`, `apihandler/service/service.go` | none | AddTask, StopTask, ConfirmTask |
| scheduler | `task/sched.go` | cursor, the batch being sent, channel `taskCh` | schedule, stop |
| worker engine | `task/worker.go` | the task each worker holds, pause flag, WaitGroup | runWorker, Stop |
| callback executor | `impl/callback/http.go` | none; shared variables inside HeartBeat | CallbackSrv, HeartBeat |
| registry | `registry/registry.go`, `impl/repo/mysql/task_srv_repo.go` | rows of services and routes; offset and batch of a health check round; pause flag | Register, Unregister, Discover, HealthCheck, Stop |
| election | library `autoelect`, started in `main.go` | who is master | IsMaster, StopElect |
| HTTP server | `apiserver/http_router.go` | pause flag, requests in progress | Boot, Stop |
| shutdown | `main.go` | signal channels | the signal handler |
| maintenance tool | `tool/main.go` | none | ClearExpiredTasks, ClearExpiredTaskLogs |

How they interact. API calls and the scheduler meet only in the database; there
are no transactions, so every statement is visible to everybody at once. The
scheduler of a node hands tasks to the node's workers over an unbuffered channel
and a task in a channel or a worker is a *snapshot* of its row. A worker claims a
run with one compare-and-set UPDATE (`LockTask`), inserts the started log, posts
the callback, updates the log with what came back (deferred in `CallbackSrv`) and
then once more (`submitTaskResp`). A service that answers "asynchronous" calls
`confirm_task` some time later, on any node. The registry's health check runs on
the master beside register and unregister calls and deletes routes with the same
statements.

What is hard here: snapshots that are stale when used; two nodes that both
believe to be master; calls of several statements interleaved with each other; a
statement that fails or whose answer is lost; a process that dies between claim,
log and callback; bookkeeping that arrives late; workers that are lost; a paging
cursor over rows that change. `PROJECT.json` lists each such place under
"hazards" with its line and the property that covers it.

What makes each part correct: a run number is claimed, logged and called at most
once (tasks, log, workers); a due task is claimed in the end (scheduler); a
stopped task is not claimed and a one-shot runs no more often than it was asked for
(API and workers); a confirmed result stays (log); a service and its routes exist
together, routes go when their process does not answer, and a service whose
processes all answer loses none (registry); a task finds
its service without a route only while somebody is changing it (registry and
scheduler together); a process that is told to stop cuts off nothing and does
stop (shutdown).

## 2. Modules

| module | models | how |
|---|---|---|
| `TaskTable` | rows of `task` and `task_log` and the rules of single statements | operators only: what AddTask, TimeoutTasks, LockTask and the log statements make of a row |
| `TaskRun` | API, schedulers, workers and callback services around these tables | state machine, one action for each statement or message |
| `RunLedger` | the abstract promise about runs | state machine of three actions: Claim, Start, Call |
| `Registry` | register, unregister, health check | state machine, one action for each statement |
| `EasyTask` | `TaskRun` and `Registry` over one database and one election | `EXTENDS Registry`, `TaskRun` as an instance whose view of the registry is read from the registry's tables |
| `Shutdown` | the end of one process | state machine: the signal handler and everything it stops |
| `MCTaskRun`, `MCRegistry`, `MCEasyTask` | instances for TLC | request sets, cron expressions |
| `TaskRunProofs`, `ClaimProofs`, `ResultProofs`, `ScheduleProofs` | theorems about `TaskRun` | see 5 |
| `RegistryProofs`, `HealthProofs`, `EasyTaskProofs`, `ShutdownProofs` | theorems about the others | see 5 |

**TaskTable.** `SameAsSnapshot` is the WHERE and `LockedRow` the SET of LockTask,
`IsTimeout` the WHERE of TimeoutTasks with the `deleted_at = 0` that gorm's
soft-delete plugin adds, `Rearms`/`UpdatedRow` the UPDATE of AddTask, and so on. A
task is known by its unique (name, biz_id) pair, its *key*; names, arguments and
paths are left out. A row is live, soft-deleted or gone: `InTable` is what an
unscoped statement finds, `Live` what a scoped one finds. `SchedNextAt` is `Task.GetSchedNextAt` with the cron library as
the constant operator `CronNextAt`. `MaxInt` stands for `math.MaxInt`.

**TaskRun.** State: the two tables, `srvLive` and `srvRouted` (which services have a
row and a route, as far as the scheduler reads them), the clock, `master`, the
scheduler (`sched`) and workers of each node with their program counters, the
`add_task` calls in progress (`client`), and two history variables that belong to
the callback services: `called` and `confirmed`. Actions:

- `AddTask` (Discover, plan), `AddTaskFind`, `AddTaskInsert`, `AddTaskUpdate`: the
  statements of `TaskService.AddTask`. `FirstOrCreate` is a SELECT and an INSERT.
- `StopTask`, `ConfirmTask`. `ResultColumns` says whether table `task` has the
  columns last_success_at and last_failed_at, which ConfirmTask writes and
  AutoMigrate does not create; FALSE is the schema of the program, TRUE a table
  somebody added them to.
- `PollTasks`, `PollSrvs`, `PollRoutes`, `Send`: a turn of `schedule()`; the three
  SELECTs of TimeoutTasks are separate steps. `Send` is the rendezvous on `taskCh`
  with the check for routes at the head of the worker's loop.
- `LockTask`, `SaveTaskStartedLog`, `CallbackSrv`, `CallbackRefused`, `CallbackReply`,
  `CallbackLost`, `SaveTaskCallbackLog`, `SubmitTaskResp`: a worker.
  A callback may be refused, lost, late, or answered by a body that is not the one
  expected: `json.Unmarshal` then fails after it has filled a part of the response, and
  the deferred record may say success or running while the worker is handed an error
  (`FilledReplies`; the worker's `err` keeps it from submitting that reply).
- `ClearExpiredTaskLogs`: the maintenance tool. Its statement (`DelLogs`) names the
  model of table `task`, and `created_at > ?` selects the young rows; ids stand for
  their age. `ClearExpiredTasks` deletes with a type that has no table: the
  statement fails and is no action.
- `Elect`, `Depose`, `Crash`, `RegistryStep`, `Tick`: the environment.

A statement is one atomic step with an *outcome*: done, refused (no effect) or
lost (effect, but the caller sees an error). `Env` and `MaxFaults` say which
failures a run may have. Times and intervals are integers, negative ones included,
for the API refuses nothing but 0. `RegistryStep` lets the row of a service or its routes
come and go in any order: that includes everything `Registry` does to them.

**Registry.** State: the two tables (rows are only soft-deleted, so a row is
"none", "live" or "deleted"), which processes answer, and the program counters of
API calls, health check rounds and health check workers. A call is the sequence
of statements of `AddSrvRoutes` or `DelSrvRoutes`. `NoReplies` says which routes
`HeartBeat` may report as dead: its goroutines share the error, the response and
both result slices, so with more than one route, one of them silent, any subset is
possible. A route is silent when its process is down (`HeartBeat`) or when the request
to it meets an error on the way (`HeartBeatLost`, Env "net"): the code takes every error
alike. `Restart` is a failure, too: it is what makes an answer of the past wrong. A page
without ORDER BY is any subset of its size. `checked_health_at`
is not read by anything and left out. `Abort` ends a call or check at any point: a
failing statement or, several times, a dying process.

**EasyTask.** All variables of both, with `master` shared. `LiveSrvs` and `RoutedSrvs`
take the place of `srvLive` and `srvRouted`. `TaskStep` and `RegistryStep` are the
steps of one side with the other unchanged; `Crash` ends the scheduler, the workers,
the health check and any set of API calls of a node at once. `TaskRun!RegistryStep`,
where a service's row or its routes change at will, is thereby an assumption that
`ImplementsTaskRun` discharges.

**Shutdown.** One process. `main` is how far the signal handler of `main.go` has come;
the two loops (`round`, `sched`) take their signal at their head only; the two pools
(`checker`, `worker`) look at their pause flag only while they wait; `Counted` is what
their WaitGroups count, a worker that returned on a task without a route (`dead`)
included. `request` is the life of each HTTP request from `servingWait.Add` to the
answer that leaves net/http's buffer, and `ArriveDuringDone` the panic of a WaitGroup
whose Add meets the releasing Done. What loops and workers do with tasks and services
is in the other modules: here a page is a number, a run and a heart beat one step.

Abstractions that matter: the random choice of a route becomes the question
whether there is one; a callback service that says both "asynchronous" and
"success" is not modelled (the program takes it as a success); times are small
numbers and the clock may advance at any moment.

## 3. Runs

| run | instance | shows |
|---|---|---|
| `core` | 2 nodes, 1 worker each, 1 periodic task, 2 runs, 2 API calls (the maintenance tool's among them), 1 fault of any kind, both nodes may be master, asynchronous services, a table with the result columns | types; runs are claimed, logged and called once (`RunClaimedOnce`, `StartedLogFresh`, `CallbackAtMostOnce`), the inductive invariant `ClaimInv`, the refinement `KeepsLedger`; confirmed results stay |
| `api` | 2 clients, 3 calls (enough to add, stop and add again), 1 crash or failing statement, one one-shot key, a node with 2 workers, a service that comes and goes | it runs once; no snapshot leads to a claim of a stopped task |
| `runs_end` | 2 nodes, pages of one row, a periodic task and a one-shot that may be moved, 3 runs, 1 crash, failing statement or broken callback, services of both kinds, no result columns | a due task is claimed in the end, a due run is written down and gets its result (the ones a failure takes excepted); a fault takes no more runs than one process held (`LossBounded`); a one-shot runs no more often than the API was called (`RunsWithinCalls`) |
| `reg_calls` | 2 concurrent calls and a checker, 1 service, 2 addresses, 4 calls, 1 restart or lost heart beat, processes die | no interleaving leaves a service without routes, and an empty service is always in somebody's hands (`EmptySrvSettled`); the check takes no route from a service whose processes all answer (`HealthyServiceKept`) |
| `reg_health` | 1 client and a checker, 2 services behind pages of one, 1 failing statement or lost heart beat, mastership moves | the check removes the routes that died, also when a page was skipped; a failure leaves one empty service at most (`NeglectBounded`) |
| `easytask` | 1 node, 1 service on 1 machine that may die, 2 registry calls and 1 `add_task`, 1 failing statement or lost heart beat, 1 crash, a run | the composition implements `TaskRun`; a task is without a route only in passing |
| `shutdown` | 2 health check workers, 2 workers, 2 requests, rounds of 2 pages of 2, batches of 2 | no run, heart beat or admitted request is cut off; the process ends unless `Obstructed` |
| `retried_oneshot`, `early_confirm`, `fresh_schema`, `orphan_route`, `stuck_shutdown` | the smallest instance that shows it | disagreements of code and documentation, see 4 |

Bounds. `MaxRuns` (2) bounds run_times by guards in `Timeouts` and `LockTask`: two
runs are what is needed for late bookkeeping of one run to meet another, and the
number a third would take is new for the same reason as the second's. `MaxTime`
bounds the clock, `MaxCalls` the API calls, `MaxFaults` the failures; the proofs of
5 hold for all values. Two nodes with one worker each behave as two workers with
snapshots of different age; more workers of one node share a scheduler and differ
in nothing, except that a snapshot may wait in one while another one runs the task, for
which `api` has two, and that a crash takes them all, which `LossBounded` is proved for. The
three runs of `runs_end` are one more than its two calls, so that `RunsWithinCalls` can fail
there. Pages of one row make every task but the first one depend on the cursor, and pages of
one service make the check skip a service when another one leaves. `easytask` has one of
everything, for what it asks is whether one service's facts change as `TaskRun` says, and
each side alone is explored in the runs above.
In `shutdown` two workers of each kind let one be busy while another leaves, pages
and batches of two let a loop be stopped between two sends, and two requests let one
arrive while the last one leaves; `PageLoads` keeps a round finite, as the table does.
A request is a token that is used once. `CHECK_DEADLOCK` is off because all these
bounds end a behaviour (and in `Shutdown` because the process exits).

Fairness (`FairSpec`). The steps of a scheduler and of a worker, and an election
when there is no master, are weakly fair: they are goroutines in endless loops and
the database answers, if only with an error (failures are bounded, so they end). A step
that may fail is owed without its failure (`A /\ UNCHANGED faults`): fairness of the step
as a whole would oblige a process at rest, whose polls change nothing, to fail in the end,
and a property checked under it would say nothing of the days when nothing fails.
`CallbackReply` is fair too, that is, a service that was called answers; the code
does not enforce it (see `hung_callback` below), and `HangingSpec` leaves it out.
`CallbackLost` is fair only as the HTTP client's timeout, not as a failure. Health
check rounds, workers and calls of `Registry` are fair in the same way; heart beats
end because the routes of the model have a timeout. That a service which is checked
again and again is on some page is strongly fair (`ReadsSrv`): without ORDER BY a database
might keep it out of every page, but one that reads along an index does not.
`reg_health` has one route for each service: with several a dead route may hide behind the
answers of the others in every heart beat, for no fairness of the goroutines decides who
writes a shared variable last. In `Shutdown` the handler, the
loops, each worker and each request are weakly fair in the same sense: runs, heart
beats and API calls end; sending on an unbuffered channel is a step of the sender that
is enabled while a receiver waits. Nobody has to call the API, to
fail, or to let time pass.

## 4. Where the code and its documentation disagree

The runs that expect a violation, with the lines involved, are in `PROJECT.json`
under "findings":

- `retried_oneshot`: repeating the `add_task` of a one-shot whose key has run before
  sets allow_max_run_times back to 1 and the pending run is lost.
- `early_confirm`: the worker's own records overwrite a result that was confirmed
  early.
- `fresh_schema`: ConfirmTask writes two columns that AutoMigrate does not create, so on the
  schema of the program no service can confirm a result (`ConfirmRecorded`).
- `orphan_route`: a register between the statements of an unregister leaves a live
  route under a deleted service.
- `stuck_shutdown`: a worker that was lost to a task without routes stays counted, and
  when it was the last one the scheduler blocks before it can be stopped: the process
  never exits. The same comes of `Registry.Stop`, which sets the pause flag before it
  stops the loop that feeds the workers (they leave, and a round with a service to send
  blocks), and of a misused WaitGroup; `ShutdownEndsUnlessObstructed` says that these
  three are all.

Further counterexamples, each with a configuration that is not in the list of runs
(`tlc -config <name>.cfg <module>`, the module is `MCTaskRun` where none is named):

| configuration | property | what happens |
|---|---|---|
| `empty_id` | `AddTaskAnswersId` | when the insert of `add_task` fails (`task_repo.go:148` returns the wrong variable) the caller gets success and an empty id |
| `stop_running` | `StoppedNotCalled` | a run that was claimed is called although its task was stopped since |
| `ended_async` | `EndedHasResult` | the answer "asynchronous" stamps ended_at |
| `hung_callback` | `CallbackEnds` | the timeout of a callback is always 0 (`TimeoutTasks` does not read max_run_time_sec), which the HTTP client takes for none |
| `orphan_page` | `ClaimedWithAllWorkers` | a page of tasks of deleted services resets the cursor, and tasks behind it are never reached |
| `exhausted_cron` | `CronClaimedOnTime` | an expression that never fires again has a plan in the far past and runs in a loop |
| `stale_snapshot` | `ClaimOnlyWhenDue` | `LockTask` does not compare the plan, so a task that was moved to a later time is claimed at the old one; the claim spends the run of a one-shot and overwrites its new plan |
| `dead_workers` | `ReadyTaskClaimed` | a task without routes ends the goroutine of the worker that took it; with all gone a due task is never claimed |
| `expired_logs` | `PendingTaskKept` | the tool that clears old logs removes young tasks that have not run |
| `lost_worker` (`MCEasyTask`) | `WorkersStay` | the ordinary unregister and register of the only route of a service is enough to lose a worker |
| `racy_heartbeat` (`MCRegistry`) | `AnsweringRouteKept` | an answering route is removed because another one of its service is dead; what remains is `HealthyServiceKept` |
| `stuck_flag` (`MCRegistry`) | `FlagMeansChecked` | has_enable_health_check stays set when no checked route is left |
| `lost_answer` (`Shutdown`) | `NoAnswerCut` | the process exits while the answer of a finished API call is still in net/http's buffer |

## 5. Proofs

`TaskRunProofs` proves `TypeCorrect == Spec => []TypeOK`, one lemma for each group of
actions. `TypeOK` is inductive together with `UpdatesFoundRow` (the row an `add_task`
call is going to update was inserted; a removed row stays in the model, as "gone").

`ClaimProofs` proves the claims about runs. None of `RunClaimedOnce`,
`StartedLogFresh` and `CallbackAtMostOnce` is inductive: that a claim takes a new
number has to do with every log row and every worker. The argument is in the
conjuncts of `ClaimInv`: a worker holds a number only after the row has passed it
(`HeldIsClaimed`), the log has no number above the row's (`LoggedIsClaimed`), no
service was asked to do a run that is not logged (`CalledIsLogged`), and a worker
about to call has logged (`CallIsLogged`). `LockTask` is the only step that changes
run_times, by one (`OnlyLockTaskClaims`, `RunTimesGrow`); so the number it hands out
is above everything that is held, logged or called. Steps that touch neither rows,
log, calls nor what workers hold (`Quiet`) keep the invariant at once, and the others
have a lemma each. `ClaimStep` puts them together.

`ResultProofs` has two results about what becomes of a run.

- `ConfirmedKept`: a run that was confirmed is in the log and in no worker's hands, and
  since `ClaimInv` says that its number is below what LockTask gives out next, no worker
  takes it up again. This needs services that confirm after the worker has recorded the
  callback (`"early" \notin Env`); `early_confirm` shows what happens otherwise.
- `LossBounded`: the set of lost runs grows only in a step that spends a fault. A worker
  that gets as far as the record of the callback finds the row it changes, and leaves
  "running" in it only for a service that works asynchronously (`RecordInv`); so a step of
  its own that ends its hold on a run leaves it with an outcome or, where a statement
  fails, loses that one run. A crash empties the hands of the workers of one node, and the
  runs lost are among the images of `Slots` (`CrashLoses`). This needs no hypothesis; that
  `Slots` is finite is the assumption `SlotsAssumption`.

`ScheduleProofs` is about when and how often a task runs.

- `OneShotRunsOnce`: for a key that everybody asks for with one time (`OneShotKeys`), the
  plan is that time wherever it is (row, call in progress, snapshot), so no `add_task`
  re-arms it; and a snapshot a scheduler or worker holds has run_times 0, which LockTask
  refuses once the row has run (`OneShotInv`).
- `RunsWithinCalls`, for keys that are asked for as one-shots at any times: a limit is
  raised only by the last statement of an `add_task`, to one more than the runs the row
  has, and that statement ends its call; so limits, and runs that a snapshot may still
  claim, stay within the number of ended calls, which never decreases (`CallInv`).
- `ClaimOnlyWhenDue`: a snapshot that passes the compare-and-set has the run_times of the
  row, and a row keeps its plan as long as it keeps its run_times, unless an `add_task`
  moves it (`DueInv`). `ClaimsDueUnlessMoved` proves it of all behaviours in which
  no `add_task` changes the plan of an existing row (`PlansNotMoved`), whatever
  else happens: the boundary of `stale_snapshot`, whose behaviour the hypothesis
  excludes.

`RegistryProofs`: an empty service is in the hands of a process that will fill or drop
it (`EmptySrvSettled`): a service becomes empty only by a delete whose process goes on
to count, or when it is inserted or revived by a call that goes on to its route; and a
process leaves its count without dropping the service only if it saw a live route. With
failures the same argument, service by service (`SettledKept` and its companions), gives
`NeglectBounded`: a process has one service in its hands, so when it is aborted one
service is neglected at most. `OrphansOnlyByOverlap` turns `orphan_route` round: whoever
will write a route finds the service there, whoever will drop a service has seen it
without routes (`OrphanInv`), and neither changes as long as two processes are not at
these two points for one service at once. `Apart` says just that, so it holds in
particular when the calls and checks for a service come one after the other.

`HealthProofs` (`HealthyServiceKept`): the routes a worker is going to delete were silent, or
mixed up with one that was, when it asked for the service, and as long as nothing has failed
a process that was down stays down; so as long as the worker holds them a registered process
of that service does not answer (`HasDead`). It holds for clusters of any size and says what
`racy_heartbeat` leaves standing. The second half asks whether the check can miss a route:
a call that registers a checked route sets the flag of the service or has read it set, and
no statement takes a flag back (`FlagInv`), so with `Apart` and without failures every
live checked route belongs to a service that the round selects (`CheckedRoutesFound`).
That the flag may be set for nothing is `stuck_flag`.

`EasyTaskProofs`: each step of `Registry` changes one of the two facts about one
service, which is what `TaskRun!RegistryStep` allows; steps of the tasks' side are
steps of `TaskRun`; a crash, which ends several calls of the registry, leaves its
tables alone. `SystemInv` carries the invariants of `RegistryProofs` over, up to the
first failure.

`ShutdownProofs`: `StopInv` says of each stage of the handler that what it waited for
has left and does not come back; the decisive facts are that a stopped loop sends
nothing (so a pool seen empty stays empty) and that a request is counted before it
looks at the flag.

| module | theorem | says |
|---|---|---|
| `TaskRunProofs` | `TypeCorrect` | `Spec => []TypeOK` |
| `ClaimProofs` | `ClaimInvariant` | the inductive invariant `ClaimInv` |
| | `OneWorkerPerRun`, `OneCallbackPerRun`, `StartedLogsFresh` | `RunClaimedOnce`, `CallbackAtMostOnce`, `StartedLogFresh` |
| | `StoppedTasksNotClaimed` | the action property `StoppedNotClaimed` |
| | `LedgerKept` | `TaskRun` implements `RunLedger` under the mapping of `Ledger` |
| `ResultProofs` | `ConfirmedResultsKept` | `ConfirmedKept`, if `"early" \notin Env` |
| | `LossesBounded` | `LossBounded` |
| `ScheduleProofs` | `OneShotsRunOnce`, `OneShotsRunWithinCalls` | `OneShotRunsOnce`, `RunsWithinCalls` |
| | `ClaimsDueUnlessMoved` | `ClaimOnlyWhenDue`, if `[][PlansNotMoved]_vars` |
| `RegistryProofs` | `TypeCorrect` | `Spec => []TypeOK` |
| | `EmptyServicesSettled`, `NoEmptyService` | `EmptySrvSettled`, `NoEmptySrv`, if `"fail" \notin Env` |
| | `NeglectedServicesBounded` | `NeglectBounded` |
| | `OrphansOnlyByOverlap` | `NoOrphanRoute`, if `[]Apart` |
| `HealthProofs` | `HealthyServicesKept` | `HealthyServiceKept`, if API calls and health check workers are different processes |
| | `CheckedRoutesFound` | `CheckedFound`, if `[]Apart` and `"fail" \notin Env` |
| `EasyTaskProofs` | `SystemInvariant` | the invariants of the registry in the composition |
| | `SystemImplementsTaskRun` | `SystemSpec => ImplementsTaskRun` |
| | `UnroutedInPassingHolds` | `UnroutedInPassing` |
| `ShutdownProofs` | `TypeCorrect`, `StopInvHolds` | `TypeOK`, `StopInv` |
| | `NoWorkCutHolds`, `AdmittedHandledHolds` | `NoWorkCut`, `AdmittedHandled` |

Apart from the hypotheses in the table they rest on the assumptions of `TaskTable`,
`TaskRun`, `Registry`, `EasyTask` and `Shutdown` about their constants (ids and times
are naturals, `MaxRuns` is below `MaxInt`, the cron library answers integers). Where
the table names no `Env`, two masters, crashes, the maintenance tool and every failure
are included. `Apart` and `PlansNotMoved` hold of many behaviours and not of all; the
configurations `orphan_route` and `stale_snapshot` show what happens without them.

`SystemImplementsTaskRun` says that every behaviour of the composition is one of `TaskRun`,
of which the theorems above hold. The last step, from there to each of these properties
read in the variables of `EasyTask`, is not written down as a theorem: the prover
does not use a theorem of an instantiated module.

Only model-checked: liveness (`ReadyTaskClaimed`, `ReadyTaskStarted`,
`StartedRunGetsResult`, `DeadRouteRemoved`, `ShutdownEndsUnlessObstructed`), which the
prover does not reach. Every other property of a passing run is proved, under the
hypotheses of the table.

## 6. Not modelled, and the plan

Not modelled, and not meant to be: configuration, logging and tracing, error codes, the
Go client, wire formats, the request and response snapshots in the log (no property
speaks of them, nothing in the program reads them back); the decoding and validation of
requests and the routing table of the HTTP server, which is filled before it listens;
how `autoelect` elects, which is a library. The process of a callback service is part
of the environment. A callback or heart beat that never ends is shown once
(`hung_callback.cfg`) and otherwise excluded by fairness. The memory effects of the
unlocked slices in `HeartBeat` are modelled by their outcomes, any subset of the routes.

What could still be added:

1. Where nothing fails, no `add_task` of a single client is answered with an empty id, and
   without asynchronous services a run that has ended_at has a result: the boundaries of
   `empty_id` and `ended_async`, as theorems.
2. A worker is lost only to a task whose service was being changed while the scheduler
   read it: the boundary of `lost_worker`, in the composition.
3. A larger `easytask` instance, with two nodes, for the liveness of tasks whose service
   comes and goes.
