------------------------------ MODULE TaskTable ------------------------------
(***************************************************************************)
(* The rows of the MySQL tables `task` and `task_log` as easytask reads    *)
(* and writes them, and the rules by which one statement derives the next  *)
(* row from the last one (internal/task/task.go and                        *)
(* internal/task/impl/repo/mysql).  Nothing here is a step: every operator *)
(* is a function of the rows and of the clock, and the state machines      *)
(* apply it.  Names and callback paths are left out; a task is known by    *)
(* its unique (name, biz_id) pair, its key.                                *)
(***************************************************************************)
EXTENDS Integers

CONSTANTS
  Keys,             \* the (name, biz_id) pairs of the unique index task_biz
  Srvs,             \* callback services, by their unique name
  TaskIds,          \* the auto-increment ids a run of the model can allot
  Params,           \* times, periods and numbers of cron expressions in use
  MaxTime,          \* bound on the clock, in seconds
  MaxRuns,          \* bound on task.run_times
  MaxInt,           \* math.MaxInt: a cron or interval task has no limit
  CronNextAt(_, _)  \* cronexpr.Next(expression, now), in Unix seconds

ASSUME TaskIdsAssumption == TaskIds \subseteq Nat \ {0}
ASSUME ParamsAssumption  == Params \subseteq Int
ASSUME MaxTimeAssumption == MaxTime \in Nat \ {0}
ASSUME MaxRunsAssumption == MaxRuns \in Nat
ASSUME MaxIntAssumption  == MaxInt \in Nat /\ MaxInt > MaxRuns + 1
\* Next answers a time.Time, whose Unix() is an int64; the zero time of an
\* expression that never fires again is a negative number.
ASSUME CronAssumption ==
  \A expr \in Params, t \in 1 .. MaxTime : CronNextAt(expr, t) \in Int

-----------------------------------------------------------------------------
(* Schedules *)

Modes == {"spec", "cron", "interval"}

(* What a caller of add_task asks for; `param` is time_spec_at, the number *)
(* of the cron expression, or time_interval_sec, as the mode says.         *)
Request == [key : Keys, srv : Srvs, mode : Modes, param : Params]

(* Task.GetSchedNextAt *)
SchedNextAt(mode, param, specAt, t) ==
  CASE mode = "interval" -> t + param
    [] mode = "cron"     -> CronNextAt(param, t)
    [] mode = "spec"     -> specAt

(* TaskRepo.AddTask: how many runs a freshly added task is allowed. *)
AllowMaxRunTimes(mode) == IF mode = "spec" THEN 1 ELSE MaxInt

-----------------------------------------------------------------------------
(* Table `task`.  A row is "live", soft-"deleted", or "gone": a row that was *)
(* removed for good keeps its place in the model, for its id is not given    *)
(* out again, but no statement finds it.                                     *)

TaskModel ==
  [key : Keys, callbackSrvId : Srvs, mode : Modes, param : Params,
   planSchedNextAt : Int, lastRunAt : Nat, runTimes : 0 .. MaxRuns,
   allowMaxRunTimes : Nat, state : {"live", "deleted", "gone"}]

NoRow == [key |-> "no row"]

(* An unscoped statement finds the row; a scoped one, to which the plugin    *)
(* for soft-deletes adds deleted_at = 0, finds it.                           *)
InTable(row) == row # NoRow /\ row.state # "gone"
Live(row)    == row # NoRow /\ row.state = "live"

(* The row add_task inserts for a key it did not find. *)
NewRow(req, plan) ==
  [key |-> req.key, callbackSrvId |-> req.srv, mode |-> req.mode,
   param |-> req.param, planSchedNextAt |-> plan, lastRunAt |-> 0,
   runTimes |-> 0, allowMaxRunTimes |-> AllowMaxRunTimes(req.mode),
   state |-> "live"]

(* Mutant of Rearms: every add_task of a one-shot grants a run. *)
RearmsAlways(row, req, plan) == req.mode = "spec"

(* add_task grants one more run to a one-shot task whose row, as the SELECT *)
(* found it, was no one-shot or had another time.                           *)
Rearms(row, req, plan) ==
  /\ req.mode = "spec"
  /\ row.mode # "spec" \/ row.planSchedNextAt # plan

(* The UPDATE of a key add_task found; run_times is read by the statement. *)
UpdatedRow(row, req, plan, rearm) ==
  [row EXCEPT !.callbackSrvId = req.srv, !.mode = req.mode,
              !.param = req.param, !.planSchedNextAt = plan,
              !.state = "live",
              !.allowMaxRunTimes =
                 AllowMaxRunTimes(req.mode) + IF rearm THEN row.runTimes ELSE 0]

(* Mutant of IsTimeout: the limit of runs is not in the WHERE. *)
IsTimeoutNoLimit(row, t) == Live(row) /\ row.planSchedNextAt <= t

(* The WHERE of TimeoutTasks. *)
IsTimeout(row, t) ==
  /\ Live(row)
  /\ row.runTimes < row.allowMaxRunTimes
  /\ row.planSchedNextAt <= t

-----------------------------------------------------------------------------
(* The Task entity a scheduler builds from a row and hands to a worker.    *)

Task ==
  [id : TaskIds, runTimes : 0 .. MaxRuns, lastRunAt : Nat, mode : Modes,
   param : Params, timeSpecAt : Int, maxRunTimeSec : Nat, routed : BOOLEAN]

(* TimeoutTasks fills time_spec_at from the plan and does not set          *)
(* MaxRunTimeSec; `routed` stands for a non-empty list of routes.          *)
ToEntity(id, row, routed) ==
  [id |-> id, runTimes |-> row.runTimes, lastRunAt |-> row.lastRunAt,
   mode |-> row.mode, param |-> row.param,
   timeSpecAt |-> IF row.mode = "spec" THEN row.planSchedNextAt ELSE 0,
   maxRunTimeSec |-> 0, routed |-> routed]

(* Mutants of SameAsSnapshot: an UPDATE by id alone; one that is unscoped. *)
SameId(row, t) == Live(row)
SameUnscoped(row, t) ==
  InTable(row) /\ row.lastRunAt = t.lastRunAt /\ row.runTimes = t.runTimes

(* The compare-and-set of LockTask: the row still is the snapshot's.  The  *)
(* plan, the mode and the service are not compared.                        *)
SameAsSnapshot(row, t) ==
  /\ Live(row)
  /\ row.lastRunAt = t.lastRunAt
  /\ row.runTimes = t.runTimes

(* Mutant of LockedRow: run_times is forgotten. *)
LockedRowNotCounted(row, t, at) ==
  [row EXCEPT !.lastRunAt = at,
              !.planSchedNextAt = SchedNextAt(t.mode, t.param, t.timeSpecAt, at)]

(* The row LockTask writes: the next plan is computed from the snapshot. *)
LockedRow(row, t, at) ==
  [row EXCEPT !.lastRunAt = at, !.runTimes = @ + 1,
              !.planSchedNextAt =
                 SchedNextAt(t.mode, t.param, t.timeSpecAt, at)]

(* The timeout of the callback request: the smaller of the route's and the *)
(* task's; zero means that the HTTP client never gives up.                 *)
CallbackTimeoutSec(routeTimeoutSec, t) ==
  IF routeTimeoutSec > t.maxRunTimeSec THEN t.maxRunTimeSec
                                       ELSE routeTimeoutSec

-----------------------------------------------------------------------------
(* Table `task_log`: one row per run, found by (task_id, run_times).       *)

Run == TaskIds \X (1 .. MaxRuns)

Final == {"success", "failed"}

TaskLogModel ==
  [taskStatus : {"running"} \cup Final, ended : BOOLEAN,
   respExtra : {"none", "reply", "confirm"}]

NoLog == [taskStatus |-> "no log"]

(* Mutant of StartedLog: the INSERT leaves task_status out, which is then 0. *)
StartedLogNoStatus == [taskStatus |-> "nil", ended |-> FALSE, respExtra |-> "none"]

(* SaveTaskStartedLog inserts this row. *)
StartedLog == [taskStatus |-> "running", ended |-> FALSE, respExtra |-> "none"]

(* Mutant of CallbackLog: only a success is written down. *)
CallbackLogSuccess(row, status) ==
  IF row # NoLog /\ status = "success"
    THEN [row EXCEPT !.taskStatus = status, !.ended = TRUE]
    ELSE row

(* SaveTaskCallbackLog on the row it finds, if any. *)
CallbackLog(row, status) ==
  IF row # NoLog /\ status \in Final
    THEN [row EXCEPT !.taskStatus = status, !.ended = TRUE]
    ELSE row

(* Mutant of ConfirmedLog: a run that has ended_at is left alone. *)
ConfirmedLogOpen(row, status, extra) ==
  IF row = NoLog \/ row.ended THEN row
  ELSE [row EXCEPT !.ended = TRUE, !.respExtra = extra,
                   !.taskStatus = IF status \in Final THEN status ELSE @]

(* SaveTaskConfirmedLog on the row it finds, if any: it stamps ended_at and *)
(* resp_extra whatever the status is.                                       *)
ConfirmedLog(row, status, extra) ==
  IF row = NoLog THEN row
  ELSE [row EXCEPT !.ended = TRUE, !.respExtra = extra,
                   !.taskStatus = IF status \in Final THEN status ELSE @]
==============================================================================
