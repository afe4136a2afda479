------------------------------- MODULE TaskRun -------------------------------
(***************************************************************************)
(* The life of a task in an easytask cluster: clients add, stop and        *)
(* confirm tasks; on every node that believes to be master the scheduler   *)
(* reads the tasks that are due and hands them to the node's workers; a    *)
(* worker claims the run in the database, writes the started log, calls    *)
(* the callback service, and records what came of it.  Every statement     *)
(* that reaches MySQL is one atomic step; between two statements anything  *)
(* else may happen, a crash of the node included.                          *)
(***************************************************************************)
EXTENDS TaskTable, FiniteSets

CONSTANTS
  Nodes,            \* easytask processes
  Slots,            \* the workers of one process, by number
  Clients,          \* concurrent callers of add_task
  Requests,         \* the add_task requests they may send
  PageSize,         \* `size` of schedule(): 1000 in the code
  MaxCalls,         \* bound on calls of the API
  MaxFaults,        \* bound on failures
  RouteTimeoutSec,  \* callback_timeout_sec of the routes
  ResultColumns,    \* has `task` columns last_success_at and last_failed_at?
  SrvModes,         \* how services run a callback: "sync", "async"
  Env               \* what the environment may do; see EnvAssumption

ASSUME RequestsAssumption == Requests \subseteq Request
ASSUME SlotsAssumption == IsFiniteSet(Slots)
ASSUME BoundsAssumption ==
  /\ PageSize \in Nat \ {0}
  /\ MaxCalls \in Nat
  /\ MaxFaults \in Nat
ASSUME RouteAssumption == RouteTimeoutSec \in Nat
ASSUME ColumnsAssumption == ResultColumns \in BOOLEAN
ASSUME SrvModesAssumption == SrvModes \subseteq {"sync", "async"}
ASSUME EnvAssumption ==
  Env \subseteq
    {"crash",     \* a process dies and starts again
     "db",        \* a statement fails, with or without effect
     "net",       \* a callback request or its answer is lost, or is malformed
     "elect",     \* mastership moves; two nodes may believe to hold it
     "registry",  \* callback services and their routes come and go
     "early",     \* a service confirms a run before the callback is recorded
     "tool"}      \* an operator runs the maintenance tool

VARIABLES
  task,       \* table task: a row for each id
  log,        \* table task_log: a row for each run
  srvLive,    \* services whose row is not soft-deleted
  srvRouted,  \* services with a route that is not soft-deleted
  now,        \* time.Now().Unix()
  master,     \* the nodes whose elect.IsMaster() answers true
  sched,      \* the scheduler of each node
  worker,     \* the workers of each node
  client,     \* the add_task calls in progress
  called,     \* the runs callback services were asked to do, and how they run
  confirmed,  \* the runs whose confirm_task call succeeded, and its status
  calls,      \* API calls so far
  faults      \* failures so far

vars == <<task, log, srvLive, srvRouted, now, master, sched, worker, client,
          called, confirmed, calls, faults>>

Workers == Nodes \X Slots

(* A client's last answer: none or an error, success with the empty id, or *)
(* success with the id of the task.                                        *)
NoId    == -1
EmptyId == 0
Answers == {NoId, EmptyId} \cup TaskIds

IdleWorker  == [pc |-> "idle"]
FreshSched  == [pc |-> "poll", cursor |-> 0]
IdleClient(answer) == [pc |-> "idle", answer |-> answer]

(* What a statement does when the database may fail: "done" takes effect   *)
(* and answers, "lost" takes effect and loses the answer, "refused" has no *)
(* effect.                                                                 *)
Outcomes == {"done"} \cup IF "db" \in Env /\ faults < MaxFaults
                            THEN {"lost", "refused"} ELSE {}
Spend(outcome) == faults' = IF outcome = "done" THEN faults ELSE faults + 1

Fault(kind) ==
  /\ kind \in Env
  /\ faults < MaxFaults
  /\ faults' = faults + 1

ApiCall ==
  /\ calls < MaxCalls
  /\ calls' = calls + 1

-----------------------------------------------------------------------------
(* The API: add_task, stop_task, confirm_task *)

(* TaskService.AddTask up to the SELECT: Discover by name refuses a service *)
(* that is not there; the plan is computed before the row is looked up.     *)
AddTask(c, req) ==
  /\ client[c].pc = "idle"
  /\ ApiCall
  /\ client' = [client EXCEPT ![c] =
       IF req.srv \in srvLive
         THEN [pc |-> "find", req |-> req,
               plan |-> SchedNextAt(req.mode, req.param, req.param, now)]
         ELSE IdleClient(NoId)]
  /\ UNCHANGED <<task, log, srvLive, srvRouted, now, master, sched, worker,
                 called, confirmed, faults>>

WithKey(key) == {id \in TaskIds : InTable(task[id]) /\ task[id].key = key}

(* FirstOrCreate's SELECT.  An error makes TaskRepo.AddTask return the     *)
(* outer err, which is nil: the call succeeds with an empty id.            *)
AddTaskFind(c) ==
  LET req == client[c].req
      plan == client[c].plan
  IN /\ client[c].pc = "find"
     /\ \E outcome \in Outcomes :
          /\ Spend(outcome)
          /\ \/ /\ outcome = "done"
                /\ WithKey(req.key) = {}
                /\ client' = [client EXCEPT ![c].pc = "insert"]
             \/ /\ outcome = "done"
                /\ \E id \in WithKey(req.key) :
                     client' = [client EXCEPT ![c] =
                       [pc |-> "update", req |-> req, plan |-> plan, id |-> id,
                        rearm |-> Rearms(task[id], req, plan)]]
             \/ /\ outcome # "done"
                /\ client' = [client EXCEPT ![c] = IdleClient(EmptyId)]
     /\ UNCHANGED <<task, log, srvLive, srvRouted, now, master, sched, worker,
                    called, confirmed, calls>>

(* The next auto-increment id. *)
IsNextId(id) ==
  /\ task[id] = NoRow
  /\ \A other \in TaskIds : task[other] = NoRow => id <= other

(* FirstOrCreate's INSERT; the unique index refuses a key that another     *)
(* call has inserted since the SELECT.                                     *)
AddTaskInsert(c) ==
  LET req == client[c].req
  IN /\ client[c].pc = "insert"
     /\ \E outcome \in Outcomes :
          /\ Spend(outcome)
          /\ IF WithKey(req.key) # {} \/ outcome = "refused"
               THEN /\ client' = [client EXCEPT ![c] = IdleClient(EmptyId)]
                    /\ UNCHANGED task
               ELSE \E id \in TaskIds :
                      /\ IsNextId(id)
                      /\ task' = [task EXCEPT ![id] = NewRow(req, client[c].plan)]
                      /\ client' = [client EXCEPT ![c] =
                           IdleClient(IF outcome = "done" THEN id ELSE EmptyId)]
     /\ UNCHANGED <<log, srvLive, srvRouted, now, master, sched, worker,
                    called, confirmed, calls>>

(* The UPDATE of a found row, by id, unscoped: it revives a stopped task.  *)
(* Of a row that is gone since it updates nothing, and that is no error.   *)
AddTaskUpdate(c) ==
  LET id == client[c].id
  IN /\ client[c].pc = "update"
     /\ \E outcome \in Outcomes :
          /\ Spend(outcome)
          /\ task' = IF outcome = "refused" \/ ~InTable(task[id]) THEN task
                     ELSE [task EXCEPT ![id] =
                            UpdatedRow(@, client[c].req, client[c].plan,
                                       client[c].rearm)]
          /\ client' = [client EXCEPT ![c] =
                          IdleClient(IF outcome = "done" THEN id ELSE NoId)]
     /\ UNCHANGED <<log, srvLive, srvRouted, now, master, sched, worker,
                    called, confirmed, calls>>

(* TaskService.StopTask: soft-delete, by id. *)
StopTask(id) ==
  /\ InTable(task[id])
  /\ ApiCall
  /\ task' = [task EXCEPT ![id].state = "deleted"]
  /\ UNCHANGED <<log, srvLive, srvRouted, now, master, sched, worker, client,
                 called, confirmed, faults>>

(* TaskRepo.ConfirmTask stamps last_success_at or last_failed_at before it *)
(* touches the log; where `task` lacks the columns the call ends there.    *)
ReachesLog(status) == status \in Final => ResultColumns

Holding == {"start", "call", "wait", "log", "confirm"}
Holds(w, r) == /\ worker[w].pc \in Holding
               /\ <<worker[w].task.id, worker[w].task.runTimes>> = r

(* TaskService.ConfirmTask, called by the service that runs r in async     *)
(* mode until it succeeds.  Without "early" the service is slow: the       *)
(* callback has been recorded.                                             *)
ConfirmTask(r, status) ==
  /\ called[r] = "async"
  /\ confirmed[r] = "no"
  /\ "early" \in Env \/ \A w \in Workers : ~Holds(w, r)
  /\ ApiCall
  /\ \E outcome \in Outcomes :
       /\ Spend(outcome)
       /\ log' = IF outcome # "refused" /\ ReachesLog(status)
                   THEN [log EXCEPT ![r] = ConfirmedLog(@, status, "confirm")]
                   ELSE log
       /\ confirmed' = IF outcome = "done" /\ ReachesLog(status)
                         THEN [confirmed EXCEPT ![r] = status]
                         ELSE confirmed
  /\ UNCHANGED <<task, srvLive, srvRouted, now, master, sched, worker, client,
                 called>>

-----------------------------------------------------------------------------
(* The maintenance tool, a process of its own beside the cluster *)

(* ClearExpiredTaskLogs: DelLogs deletes with the model of table `task`, so *)
(* it removes tasks, and created_at > ? selects those younger than the time *)
(* given: the ids from `first` on, for both grow together.                  *)
(* (ClearExpiredTasks deletes from a table that nothing creates: its        *)
(* statement fails and changes nothing.)                                    *)
ClearExpiredTaskLogs(first) ==
  /\ "tool" \in Env
  /\ ApiCall
  /\ task' = [id \in TaskIds |->
               IF task[id] # NoRow /\ id >= first
                 THEN [task[id] EXCEPT !.state = "gone"] ELSE task[id]]
  /\ UNCHANGED <<log, srvLive, srvRouted, now, master, sched, worker, client,
                 called, confirmed, faults>>

-----------------------------------------------------------------------------
(* The scheduler of node n: Sched.schedule and TaskRepo.TimeoutTasks *)

(* The page of the SELECT: the PageSize smallest ids after the cursor.  A  *)
(* task that has reached the bound MaxRuns is not scheduled any more.      *)
Timeouts(cursor) ==
  {id \in TaskIds : /\ id > cursor
                    /\ IsTimeout(task[id], now)
                    /\ task[id].runTimes < MaxRuns}
Page(cursor) == {id \in Timeouts(cursor) :
                   Cardinality({other \in Timeouts(cursor) : other < id}) < PageSize}

(* Mutant of NoMoreTasks: the cursor is not reset. *)
NoMoreTasksKeepsCursor(n) ==
  sched' = [sched EXCEPT ![n] = [pc |-> "poll", cursor |-> sched[n].cursor]]

(* Back to the head of the loop with the cursor reset: no task was found. *)
NoMoreTasks(n) == sched' = [sched EXCEPT ![n] = FreshSched]

(* The loop goes on with the same cursor: TimeoutTasks failed. *)
PollFailed(n) ==
  sched' = [sched EXCEPT ![n] = [pc |-> "poll", cursor |-> sched[n].cursor]]

(* One turn of the loop: only a master reads `task`. *)
PollTasks(n) ==
  LET ids == Page(sched[n].cursor)
  IN /\ sched[n].pc = "poll"
     /\ n \in master
     /\ \E outcome \in Outcomes :
          /\ Spend(outcome)
          /\ \/ /\ outcome = "done"
                /\ ids = {}
                /\ NoMoreTasks(n)
             \/ /\ outcome = "done"
                /\ ids # {}
                /\ sched' = [sched EXCEPT ![n] =
                     [pc |-> "srvs", cursor |-> sched[n].cursor,
                      rows |-> [id \in TaskIds |->
                                  IF id \in ids THEN task[id] ELSE NoRow]]]
             \/ /\ outcome # "done"
                /\ PollFailed(n)
     /\ UNCHANGED <<task, log, srvLive, srvRouted, now, master, worker, client,
                    called, confirmed, calls>>

(* The ids of the rows that were read. *)
Read(rows) == {id \in TaskIds : rows[id] # NoRow}

(* GetSrvs, first SELECT: the services of the page that are there. *)
PollSrvs(n) ==
  LET rows == sched[n].rows
      srvs == {rows[id].callbackSrvId : id \in Read(rows)} \cap srvLive
  IN /\ sched[n].pc = "srvs"
     /\ \E outcome \in Outcomes :
          /\ Spend(outcome)
          /\ \/ /\ outcome = "done"
                /\ srvs = {}
                /\ NoMoreTasks(n)
             \/ /\ outcome = "done"
                /\ srvs # {}
                /\ sched' = [sched EXCEPT ![n] =
                     [pc |-> "routes", cursor |-> sched[n].cursor,
                      rows |-> rows, srvs |-> srvs]]
             \/ /\ outcome # "done"
                /\ PollFailed(n)
     /\ UNCHANGED <<task, log, srvLive, srvRouted, now, master, worker, client,
                    called, confirmed, calls>>

(* GetSrvs, second SELECT, and the list of tasks: a row whose service was  *)
(* not found is skipped, and the cursor becomes the last id of the list.   *)
PollRoutes(n) ==
  LET rows == sched[n].rows
      ids == {id \in Read(rows) : rows[id].callbackSrvId \in sched[n].srvs}
  IN /\ sched[n].pc = "routes"
     /\ \E outcome \in Outcomes :
          /\ Spend(outcome)
          /\ \/ /\ outcome = "done"
                /\ \E last \in ids :
                     /\ \A id \in ids : id <= last
                     /\ sched' = [sched EXCEPT ![n] =
                          [pc |-> "send", cursor |-> last,
                           batch |-> {ToEntity(id, rows[id],
                                        rows[id].callbackSrvId \in srvRouted) :
                                      id \in ids}]]
             \/ /\ outcome # "done"
                /\ PollFailed(n)
     /\ UNCHANGED <<task, log, srvLive, srvRouted, now, master, worker, client,
                    called, confirmed, calls>>

(* The unbuffered channel taskCh: the scheduler offers its tasks in order  *)
(* of id, and the offer of t is taken by an idle worker of the same node.  *)
(* A worker that is given a task without a route returns: its goroutine is *)
(* gone for the life of the process.                                       *)
Send(n, k) ==
  LET w == <<n, k>>
      batch == sched[n].batch
  IN /\ sched[n].pc = "send"
     /\ worker[w].pc = "idle"
     /\ \E t \in batch :
          /\ \A other \in batch : t.id <= other.id
          /\ sched' = [sched EXCEPT ![n] =
               IF batch = {t}
                 THEN [pc |-> "poll", cursor |-> sched[n].cursor]
                 ELSE [pc |-> "send", cursor |-> sched[n].cursor,
                       batch |-> batch \ {t}]]
          /\ worker' = [worker EXCEPT ![w] =
               IF t.routed THEN [pc |-> "lock", task |-> t]
                           ELSE [pc |-> "dead"]]
     /\ UNCHANGED <<task, log, srvLive, srvRouted, now, master, client, called,
                    confirmed, calls, faults>>

-----------------------------------------------------------------------------
(* A worker w = <<node, slot>>: WorkerEngine.runWorker *)

RunOf(w) == <<worker[w].task.id, worker[w].task.runTimes>>

(* LockTask's UPDATE.  On an error the worker drops the task, even when the *)
(* statement took effect.                                                   *)
LockTask(w) ==
  LET t == worker[w].task
      row == task[t.id]
      locked == SameAsSnapshot(row, t)
  IN /\ worker[w].pc = "lock"
     /\ locked => row.runTimes < MaxRuns
     /\ \E outcome \in Outcomes :
          /\ Spend(outcome)
          /\ task' = IF locked /\ outcome # "refused"
                       THEN [task EXCEPT ![t.id] = LockedRow(row, t, now)]
                       ELSE task
          /\ worker' = [worker EXCEPT ![w] =
               IF locked /\ outcome = "done"
                 THEN [pc |-> "start",
                       task |-> [t EXCEPT !.runTimes = @ + 1]]
                 ELSE IdleWorker]
     /\ UNCHANGED <<log, srvLive, srvRouted, now, master, sched, client, called,
                    confirmed, calls>>

(* Mutant of LogFree: the unique index is on run_times alone. *)
LogFreeOfNumber(r) == \A s \in Run : s[2] = r[2] => log[s] = NoLog

(* The unique index (task_id, run_times) lets the row of r in. *)
LogFree(r) == log[r] = NoLog

(* LockTask's INSERT of the started log.  Where it fails the run is lost. *)
SaveTaskStartedLog(w) ==
  LET r == RunOf(w)
  IN /\ worker[w].pc = "start"
     /\ \E outcome \in Outcomes :
          /\ Spend(outcome)
          /\ log' = IF LogFree(r) /\ outcome # "refused"
                      THEN [log EXCEPT ![r] = StartedLog]
                      ELSE log
          /\ worker' = [worker EXCEPT ![w] =
               IF LogFree(r) /\ outcome = "done"
                 THEN [pc |-> "call", task |-> worker[w].task]
                 ELSE IdleWorker]
     /\ UNCHANGED <<task, srvLive, srvRouted, now, master, sched, client,
                    called, confirmed, calls>>

(* Mutant of Replied: a callback without an answer is posted again. *)
RepliedOrRetry(w, reply, err) ==
  worker' = [worker EXCEPT ![w] =
    IF err THEN [pc |-> "call", task |-> worker[w].task]
    ELSE [pc |-> "log", task |-> worker[w].task, reply |-> reply, err |-> err]]

(* The callback is over: `reply` is the status that the response stands for, *)
(* which an empty one leaves "failed", and err says whether Task.run gets an *)
(* error in its place.                                                      *)
Replied(w, reply, err) ==
  worker' = [worker EXCEPT ![w] =
               [pc |-> "log", task |-> worker[w].task, reply |-> reply, err |-> err]]

(* HttpExec.CallbackSrv: the request reaches the service ... *)
CallbackSrv(w) ==
  /\ worker[w].pc = "call"
  /\ worker' = [worker EXCEPT ![w] = [pc |-> "wait", task |-> worker[w].task]]
  /\ \E mode \in SrvModes : called' = [called EXCEPT ![RunOf(w)] = mode]
  /\ UNCHANGED <<task, log, srvLive, srvRouted, now, master, sched, client,
                 confirmed, calls, faults>>

(* ... or does not. *)
CallbackRefused(w) ==
  /\ worker[w].pc = "call"
  /\ Fault("net")
  /\ Replied(w, "failed", TRUE)
  /\ UNCHANGED <<task, log, srvLive, srvRouted, now, master, sched, client,
                 called, confirmed, calls>>

(* The service answers: the result of a run done at once, or that it runs   *)
(* asynchronously.                                                          *)
CallbackReply(w) ==
  /\ worker[w].pc = "wait"
  /\ IF called[RunOf(w)] = "async"
       THEN Replied(w, "running", FALSE)
       ELSE \E status \in Final : Replied(w, status, FALSE)
  /\ UNCHANGED <<task, log, srvLive, srvRouted, now, master, sched, client,
                 called, confirmed, calls, faults>>

(* What can end the wait without a good answer: a broken connection or a     *)
(* malformed body, and the timeout of the HTTP client where it has one.      *)
Breaks(w) ==
  (IF "net" \in Env /\ faults < MaxFaults THEN {"net"} ELSE {}) \cup
  (IF CallbackTimeoutSec(RouteTimeoutSec, worker[w].task) > 0
     THEN {"timeout"} ELSE {})

(* Of a body with one field of a wrong type json.Unmarshal fills in the      *)
(* others: the callback fails, but the response may say what was done.       *)
FilledReplies(w) ==
  {"failed", IF called[RunOf(w)] = "async" THEN "running" ELSE "success"}

CallbackLost(w) ==
  /\ worker[w].pc = "wait"
  /\ \E break \in Breaks(w) :
       /\ faults' = IF break = "net" THEN faults + 1 ELSE faults
       /\ \E reply \in IF break = "net" THEN FilledReplies(w) ELSE {"failed"} :
            Replied(w, reply, TRUE)
  /\ UNCHANGED <<task, log, srvLive, srvRouted, now, master, sched, client,
                 called, confirmed, calls>>

(* The deferred SaveTaskCallbackLog; its failure is only logged. *)
SaveTaskCallbackLog(w) ==
  /\ worker[w].pc = "log"
  /\ \E outcome \in Outcomes :
       /\ Spend(outcome)
       /\ log' = IF outcome # "refused"
                   THEN [log EXCEPT ![RunOf(w)] = CallbackLog(@, worker[w].reply)]
                   ELSE log
  /\ worker' = [worker EXCEPT ![w].pc = "confirm"]
  /\ UNCHANGED <<task, srvLive, srvRouted, now, master, sched, client,
                 called, confirmed, calls>>

(* submitTaskResp: TaskRepo.ConfirmTask by the worker.  The response that   *)
(* stands for an error carries run_times 0, which no log row has.           *)
SubmitTaskResp(w) ==
  LET reply == worker[w].reply
      r == RunOf(w)
  IN /\ worker[w].pc = "confirm"
     /\ \E outcome \in Outcomes :
          /\ Spend(outcome)
          /\ log' = IF ~worker[w].err /\ outcome # "refused" /\ ReachesLog(reply)
                      THEN [log EXCEPT ![r] = ConfirmedLog(@, reply, "reply")]
                      ELSE log
     /\ worker' = [worker EXCEPT ![w] = IdleWorker]
     /\ UNCHANGED <<task, srvLive, srvRouted, now, master, sched, client,
                    called, confirmed, calls>>

-----------------------------------------------------------------------------
(* The environment *)

(* The election library makes n the master; with "elect" an older master   *)
(* may not have noticed that it lost the lease.                            *)
Elect(n) ==
  /\ n \notin master
  /\ master = {} \/ "elect" \in Env
  /\ master' = master \cup {n}
  /\ UNCHANGED <<task, log, srvLive, srvRouted, now, sched, worker, client,
                 called, confirmed, calls, faults>>

Depose(n) ==
  /\ n \in master
  /\ "elect" \in Env
  /\ master' = master \ {n}
  /\ UNCHANGED <<task, log, srvLive, srvRouted, now, sched, worker, client,
                 called, confirmed, calls, faults>>

(* The process n dies and starts again, with all it held in memory lost;   *)
(* add_task calls it was serving end without an answer.                    *)
Crash(n) ==
  /\ Fault("crash")
  /\ sched' = [sched EXCEPT ![n] = FreshSched]
  /\ worker' = [w \in Workers |-> IF w[1] = n THEN IdleWorker ELSE worker[w]]
  /\ master' = master \ {n}
  /\ \E served \in SUBSET {c \in Clients : client[c].pc # "idle"} :
       client' = [c \in Clients |->
                    IF c \in served THEN IdleClient(NoId) ELSE client[c]]
  /\ UNCHANGED <<task, log, srvLive, srvRouted, now, called, confirmed, calls>>

(* The registry writes its tables one statement at a time: the row of a    *)
(* service and its routes come and go independently.                       *)
RegistryStep(s) ==
  /\ "registry" \in Env
  /\ \/ srvLive' = srvLive \cup {s} /\ UNCHANGED srvRouted
     \/ srvLive' = srvLive \ {s} /\ UNCHANGED srvRouted
     \/ srvRouted' = srvRouted \cup {s} /\ UNCHANGED srvLive
     \/ srvRouted' = srvRouted \ {s} /\ UNCHANGED srvLive
  /\ UNCHANGED <<task, log, now, master, sched, worker, client, called,
                 confirmed, calls, faults>>

Tick ==
  /\ now < MaxTime
  /\ now' = now + 1
  /\ UNCHANGED <<task, log, srvLive, srvRouted, master, sched, worker, client,
                 called, confirmed, calls, faults>>

-----------------------------------------------------------------------------
Init ==
  /\ task = [id \in TaskIds |-> NoRow]
  /\ log = [r \in Run |-> NoLog]
  /\ srvLive = Srvs
  /\ srvRouted = Srvs
  /\ now = 1
  /\ master = {}
  /\ sched = [n \in Nodes |-> FreshSched]
  /\ worker = [w \in Workers |-> IdleWorker]
  /\ client = [c \in Clients |-> IdleClient(NoId)]
  /\ called = [r \in Run |-> "no"]
  /\ confirmed = [r \in Run |-> "no"]
  /\ calls = 0
  /\ faults = 0

ClientStep(c) ==
  \/ \E req \in Requests : AddTask(c, req)
  \/ AddTaskFind(c)
  \/ AddTaskInsert(c)
  \/ AddTaskUpdate(c)

SchedStep(n) ==
  \/ PollTasks(n)
  \/ PollSrvs(n)
  \/ PollRoutes(n)
  \/ \E k \in Slots : Send(n, k)

WorkerStep(w) ==
  \/ LockTask(w)
  \/ SaveTaskStartedLog(w)
  \/ CallbackSrv(w)
  \/ CallbackRefused(w)
  \/ CallbackReply(w)
  \/ CallbackLost(w)
  \/ SaveTaskCallbackLog(w)
  \/ SubmitTaskResp(w)

Next ==
  \/ \E c \in Clients : ClientStep(c)
  \/ \E id \in TaskIds : StopTask(id) \/ ClearExpiredTaskLogs(id)
  \/ \E r \in Run, status \in Final : ConfirmTask(r, status)
  \/ \E n \in Nodes : SchedStep(n) \/ Elect(n) \/ Depose(n) \/ Crash(n)
  \/ \E w \in Workers : WorkerStep(w)
  \/ \E s \in Srvs : RegistryStep(s)
  \/ Tick

Spec == Init /\ [][Next]_vars

(* The goroutines of a live process are scheduled and the database answers; *)
(* an elected node is found; a service that was called answers, unless the  *)
(* run is about services that hang.  Nobody has to call, to fail or to wait *)
(* for time to pass: a step that may fail is owed without its failure, or a *)
(* process at rest would owe one.                                           *)
SystemFairness ==
  /\ \A n \in Nodes : WF_vars(SchedStep(n) /\ UNCHANGED faults) /\ WF_vars(Elect(n))
  /\ \A w \in Workers :
       /\ WF_vars(LockTask(w) /\ UNCHANGED faults)
       /\ WF_vars(SaveTaskStartedLog(w) /\ UNCHANGED faults)
       /\ WF_vars(CallbackSrv(w))
       /\ WF_vars(CallbackLost(w) /\ UNCHANGED faults)
       /\ WF_vars(SaveTaskCallbackLog(w) /\ UNCHANGED faults)
       /\ WF_vars(SubmitTaskResp(w) /\ UNCHANGED faults)

FairSpec     == Spec /\ SystemFairness /\ \A w \in Workers : WF_vars(CallbackReply(w))
HangingSpec  == Spec /\ SystemFairness

-----------------------------------------------------------------------------
(* Types *)

SchedState ==
  [pc : {"poll"}, cursor : {0} \cup TaskIds] \cup
  [pc : {"srvs"}, cursor : {0} \cup TaskIds,
   rows : [TaskIds -> TaskModel \cup {NoRow}]] \cup
  [pc : {"routes"}, cursor : {0} \cup TaskIds,
   rows : [TaskIds -> TaskModel \cup {NoRow}],
   srvs : SUBSET Srvs] \cup
  [pc : {"send"}, cursor : {0} \cup TaskIds, batch : SUBSET Task]

WorkerState ==
  [pc : {"idle", "dead"}] \cup
  [pc : {"lock", "start", "call", "wait"}, task : Task] \cup
  [pc : {"log", "confirm"}, task : Task, reply : {"running"} \cup Final, err : BOOLEAN]

ClientState ==
  [pc : {"idle"}, answer : Answers] \cup
  [pc : {"find", "insert"}, req : Request, plan : Int] \cup
  [pc : {"update"}, req : Request, plan : Int, id : TaskIds, rearm : BOOLEAN]

(* Every variable has its type: rows, log rows, snapshots in memory. *)
TypeOK ==
  /\ task \in [TaskIds -> TaskModel \cup {NoRow}]
  /\ log \in [Run -> TaskLogModel \cup {NoLog}]
  /\ srvLive \subseteq Srvs
  /\ srvRouted \subseteq Srvs
  /\ now \in 1 .. MaxTime
  /\ master \subseteq Nodes
  /\ sched \in [Nodes -> SchedState]
  /\ worker \in [Workers -> WorkerState]
  /\ client \in [Clients -> ClientState]
  /\ called \in [Run -> {"no", "sync", "async"}]
  /\ confirmed \in [Run -> {"no"} \cup Final]
  /\ calls \in 0 .. MaxCalls
  /\ faults \in 0 .. MaxFaults

-----------------------------------------------------------------------------
(* Safety: a run has one worker *)

(* LockTask's compare-and-set gives a run to one worker of the cluster, even *)
(* when two nodes schedule at once and hold the same snapshot of the task.   *)
RunClaimedOnce ==
  \A v, w \in Workers :
    v # w /\ {worker[v].pc, worker[w].pc} \subseteq Holding => RunOf(v) # RunOf(w)

(* A callback service is asked to do a run at most once: when a worker is    *)
(* about to post the callback, nobody has posted it, not even a worker that  *)
(* died since or lost the answer.                                            *)
CallbackAtMostOnce ==
  \A w \in Workers : worker[w].pc = "call" => called[RunOf(w)] = "no"

(* The INSERT of the started log never meets the unique index (task_id,      *)
(* run_times), which would silently drop a claimed run.                      *)
StartedLogFresh ==
  \A w \in Workers : worker[w].pc = "start" => log[RunOf(w)] = NoLog

(* How often the task was claimed. *)
RunTimes(id) == IF task[id] = NoRow THEN 0 ELSE task[id].runTimes

(* Why these hold: a worker holds a number only after the row passed it, the *)
(* log knows no number above the row's and the services none that is not in  *)
(* the log, so the number the next claim takes is new to everybody.          *)
UpdatesFoundRow ==
  \A c \in Clients : client[c].pc = "update" => task[client[c].id] # NoRow
HeldIsClaimed ==
  \A w \in Workers : worker[w].pc \in Holding =>
    worker[w].task.runTimes \in 1 .. RunTimes(worker[w].task.id)
LoggedIsClaimed == \A r \in Run : log[r] # NoLog => r[2] <= RunTimes(r[1])
CalledIsLogged  == \A r \in Run : called[r] # "no" => log[r] # NoLog
CallIsLogged ==
  \A w \in Workers : worker[w].pc = "call" => log[RunOf(w)] # NoLog

ClaimInv ==
  /\ UpdatesFoundRow
  /\ HeldIsClaimed
  /\ LoggedIsClaimed
  /\ CalledIsLogged
  /\ CallIsLogged
  /\ RunClaimedOnce
  /\ StartedLogFresh
  /\ CallbackAtMostOnce

(* The runs of a task as the ledger of RunLedger sees them: numbered without *)
(* a gap, started once, called once and after they were started.             *)
Ledger == INSTANCE RunLedger WITH
            claimed <- [id \in TaskIds |-> RunTimes(id)],
            started <- {r \in Run : log[r] # NoLog},
            called  <- {r \in Run : called[r] # "no"}
KeepsLedger == Ledger!LedgerSpec

-----------------------------------------------------------------------------
(* Safety: a task and its schedule *)

Claimed(id) == task[id] # NoRow /\ task'[id].runTimes = task[id].runTimes + 1

(* No run of a stopped or removed task is claimed, whatever snapshots of it  *)
(* are in the memory of schedulers and workers, until somebody adds the task *)
(* again.                                                                    *)
StoppedNotClaimed ==
  [][\A id \in TaskIds : Claimed(id) => task[id].state = "live"]_vars

(* A run is claimed only when the plan in the row is due: a snapshot taken   *)
(* for an earlier plan does not run the task again.                          *)
ClaimOnlyWhenDue ==
  [][\A id \in TaskIds : Claimed(id) => task[id].planSchedNextAt <= now]_vars

(* A cron task is claimed for a moment its expression names: Next's zero     *)
(* time, which says that there is none, is not a moment.                     *)
CronClaimedOnTime ==
  [][\A id \in TaskIds :
       Claimed(id) /\ task[id].mode = "cron" => task[id].planSchedNextAt > 0]_vars

(* A task that is only ever asked for as one and the same one-shot runs at   *)
(* most once, however often add_task is repeated and the task is stopped.    *)
OneShotKeys ==
  {key \in Keys : \A p, q \in {req \in Requests : req.key = key} :
                     p.mode = "spec" /\ p.param = q.param}
OneShotRunsOnce ==
  \A id \in TaskIds :
    task[id] # NoRow /\ task[id].key \in OneShotKeys => task[id].runTimes <= 1

(* A task that is only ever asked for as a one-shot, at one time or another, *)
(* does not run more often than the API was called: an add_task grants it    *)
(* one run at most, and a snapshot in the memory of a scheduler or a worker  *)
(* from before the grant does not add a run to it.                           *)
AlwaysOneShot(key) == \A req \in Requests : req.key = key => req.mode = "spec"
RunsWithinCalls ==
  \A id \in TaskIds :
    task[id] # NoRow /\ AlwaysOneShot(task[id].key) => task[id].runTimes <= calls

(* A client that repeats the add_task of a one-shot which still has its run  *)
(* to spend does not take the run away.                                      *)
RepeatKeepsOneShot ==
  [][\A c \in Clients : client[c].pc = "update" =>
       LET id == client[c].id
           req == client[c].req
       IN /\ task[id].mode = "spec" /\ req.mode = "spec"
          /\ task[id].planSchedNextAt = req.param
          /\ Live(task[id])
          /\ task[id].runTimes < task[id].allowMaxRunTimes
          /\ client'[c].pc = "idle"
          => task'[id].runTimes < task'[id].allowMaxRunTimes]_vars

(* The maintenance tool leaves a task alone that has runs to do. *)
PendingTaskKept ==
  [][\A id \in TaskIds :
       InTable(task[id]) /\ ~InTable(task'[id]) =>
         task[id].state = "deleted" \/ task[id].runTimes >= task[id].allowMaxRunTimes]_vars

(* A successful add_task answers the id of the task. *)
AddTaskAnswersId == \A c \in Clients :
  client[c].pc = "idle" => client[c].answer # EmptyId

(* A task that has been stopped is not called back any more. *)
StoppedNotCalled ==
  [][\A w \in Workers :
       worker[w].pc = "call" /\ worker'[w].pc = "wait"
         => task[worker[w].task.id].state = "live"]_vars

-----------------------------------------------------------------------------
(* Safety: results *)

(* The result a service confirmed with confirm_task stays in the log: no     *)
(* late bookkeeping of the worker, of this run or of another one, overwrites *)
(* its status or its extra.                                                  *)
ConfirmedKept ==
  \A r \in Run : confirmed[r] # "no" =>
    log[r].taskStatus = confirmed[r] /\ log[r].respExtra = "confirm"

(* A confirm_task that meets no failure of the database succeeds, and the    *)
(* row it has to change is there: the call does not answer success after an  *)
(* UPDATE that found nothing.                                                *)
ConfirmRecorded ==
  [][\A r \in Run, status \in Final :
       ConfirmTask(r, status) /\ UNCHANGED faults =>
         /\ confirmed'[r] = status
         /\ log'[r].taskStatus = status /\ log'[r].respExtra = "confirm"]_vars

(* ended_at is the time a run ended: a run that has it has a result. *)
EndedHasResult ==
  \A r \in Run : log[r] # NoLog /\ log[r].ended => log[r].taskStatus \in Final

(* A run that was claimed and whose outcome nobody knows: the log has no     *)
(* result of it, and no service is left to confirm one.                      *)
Open(r) ==
  /\ r[2] <= RunTimes(r[1])
  /\ log[r] = NoLog \/ (log[r].taskStatus = "running" /\ called[r] # "async")

(* A worker that is still going to write down what comes of r. *)
Recording == {"start", "call", "wait", "log"}
Recorded(r) == \E w \in Workers : worker[w].pc \in Recording /\ RunOf(w) = r

LostRuns == {r \in Run : Open(r) /\ ~Recorded(r)}

(* Every claimed run comes to be written down, as one that was done, that    *)
(* failed or that its service answers for, except for those a failure takes  *)
(* away; and one failure, a crash included, takes no more than the workers   *)
(* of one process had in hand.                                               *)
LossBounded == Cardinality(LostRuns) <= faults * Cardinality(Slots)

-----------------------------------------------------------------------------
(* Liveness *)

(* The task is due and its callback service can be called. *)
Ready(id) ==
  /\ IsTimeout(task[id], now)
  /\ task[id].runTimes < MaxRuns
  /\ task[id].callbackSrvId \in srvLive \cap srvRouted

(* A ready task does not stay ready: a worker claims it (or somebody stops   *)
(* it or takes its service away), whichever place it has in the table and    *)
(* whatever failed before, as long as failures end.                          *)
ReadyTaskClaimed == \A id \in TaskIds : Ready(id) ~> ~Ready(id)

(* The same where no worker has been lost to a task without routes and the   *)
(* registry comes to rest.                                                   *)
ClaimedWithAllWorkers ==
  /\ [](\A w \in Workers : worker[w].pc # "dead")
  /\ <>[][FALSE]_<<srvLive, srvRouted>>
  => ReadyTaskClaimed

(* One of the runs that failures took. *)
TakenByFailure(r) == faults > 0 /\ r \in LostRuns

(* The claim of a ready task's run is not lost: its row is written to the    *)
(* log, unless the task is stopped or moved first or a failure takes it.     *)
ReadyTaskStarted ==
  \A r \in Run :
    (Ready(r[1]) /\ RunTimes(r[1]) = r[2] - 1) ~>
      \/ log[r] # NoLog
      \/ ~Ready(r[1]) /\ RunTimes(r[1]) = r[2] - 1
      \/ TakenByFailure(r)

(* A run that is not left to the service gets its result in the log, also    *)
(* when its callback could not be posted or its answer was lost, unless a    *)
(* failure of the database or of the process takes it.                       *)
StartedRunGetsResult ==
  \A r \in Run : (log[r] # NoLog) ~>
    \/ log[r].taskStatus \in Final
    \/ called[r] = "async"
    \/ TakenByFailure(r)

(* A worker does not wait for a callback for ever. *)
CallbackEnds == \A w \in Workers : (worker[w].pc = "wait") ~> (worker[w].pc # "wait")
==============================================================================
