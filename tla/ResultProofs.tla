----------------------------- MODULE ResultProofs -----------------------------
(***************************************************************************)
(* What becomes of a run: the result that a service has confirmed stays in  *)
(* the log, when services wait with confirm_task until the worker has       *)
(* recorded the callback; and every run that is claimed is written down,    *)
(* except for those that a failure takes, one failure no more than one      *)
(* process held.                                                            *)
(***************************************************************************)
EXTENDS ClaimProofs, FiniteSetTheorems

(* Why: a confirmed run is in nobody's hands any more, and the number of a   *)
(* run that is in the log is not given out again.                            *)
ConfirmedInv ==
  \A r \in Run : confirmed[r] # "no" =>
    /\ log[r] # NoLog
    /\ log[r].taskStatus = confirmed[r] /\ log[r].respExtra = "confirm"
    /\ \A w \in Workers : ~Holds(w, r)

LEMMA ConfirmedInit == Init => ConfirmedInv
  BY DEF Init, ConfirmedInv

(* A worker takes up no run that is in the log already.                      *)
LEMMA HoldsNewRun ==
  ASSUME IInv, IInv', [Next]_vars, NEW r \in Run, log[r] # NoLog,
         NEW w \in Workers, Holds(w, r)'
  PROVE  Holds(w, r)
<1>1. CASE Quiet
  BY <1>1 DEF Quiet, Holds
<1>2. CASE \E v \in Workers : LockTask(v) /\ worker'[v].pc \in Holding
  <2>1. PICK v \in Workers : LockTask(v) /\ worker'[v].pc \in Holding
    BY <1>2
  <2>2. v # w => worker'[w] = worker[w]
    BY <2>1 DEF LockTask, IInv, TypeOK
  <2>3. worker'[v].pc = "start"
    BY <2>1 DEF LockTask, IdleWorker, Holding, IInv, TypeOK
  <2>4. log'[RunOf(v)'] = NoLog /\ log' = log
    BY <2>1, <2>3 DEF LockTask, IInv, ClaimInv, StartedLogFresh
  <2>5. v # w
    BY <2>4 DEF Holds, RunOf
  <2> QED
    BY <2>2, <2>5 DEF Holds
<1>3. ASSUME NEW v \in Workers,
             SaveTaskStartedLog(v) \/ CallbackSrv(v)
      PROVE  Holds(w, r)
  <2>1. worker[v].pc \in Holding
    BY <1>3 DEF SaveTaskStartedLog, CallbackSrv, Holding
  <2>2. \/ worker' = [worker EXCEPT ![v] = IdleWorker]
        \/ \E pc \in Holding :
             worker' = [worker EXCEPT ![v] = [pc |-> pc, task |-> worker[v].task]]
    BY <1>3 DEF SaveTaskStartedLog, CallbackSrv, Holding
  <2> QED
    BY <2>1, <2>2 DEF Holds, IdleWorker, Holding, IInv, TypeOK
<1> QED
  BY <1>1, <1>2, <1>3, StepKinds

(* The log row of a run changes only in the hands of its worker, or by       *)
(* confirm_task.                                                             *)
LEMMA LogOfHeldRun ==
  ASSUME IInv, [Next]_vars, NEW r \in Run,
         \A w \in Workers : ~Holds(w, r),
         \A status \in Final : ~ConfirmTask(r, status)
  PROVE  log'[r] = log[r]
<1>1. ASSUME NEW q \in Run, NEW status \in Final, ConfirmTask(q, status)
      PROVE  log'[r] = log[r]
  BY <1>1 DEF ConfirmTask, IInv, TypeOK
<1>2. ASSUME NEW w \in Workers,
             SaveTaskStartedLog(w) \/ SaveTaskCallbackLog(w) \/ SubmitTaskResp(w)
      PROVE  log'[r] = log[r]
  <2>1. RunOf(w) # r
    BY <1>2 DEF SaveTaskStartedLog, SaveTaskCallbackLog, SubmitTaskResp, Holds, Holding, RunOf
  <2>2. log' = log \/ \E row : log' = [log EXCEPT ![RunOf(w)] = row]
    BY <1>2 DEF SaveTaskStartedLog, SaveTaskCallbackLog, SubmitTaskResp
  <2> QED
    BY <2>1, <2>2 DEF IInv, TypeOK
<1> QED
  BY <1>1, <1>2
     DEF Next, ClientStep, SchedStep, WorkerStep, vars, AddTask, AddTaskFind,
         AddTaskInsert, AddTaskUpdate, StopTask, ClearExpiredTaskLogs, PollTasks,
         PollSrvs, PollRoutes, Send, Elect, Depose, Crash, LockTask, CallbackSrv,
         CallbackRefused, CallbackReply, CallbackLost, RegistryStep, Tick

(* Only confirm_task confirms.                                               *)
LEMMA OnlyConfirmTaskConfirms ==
  ASSUME IInv, [Next]_vars, NEW r \in Run, confirmed'[r] # confirmed[r]
  PROVE  \E status \in Final : ConfirmTask(r, status)
<1>1. ASSUME NEW q \in Run, NEW status \in Final, ConfirmTask(q, status)
      PROVE  q = r
  BY <1>1 DEF ConfirmTask, IInv, TypeOK
<1>2. \E q \in Run, status \in Final : ConfirmTask(q, status)
  BY DEF Next, ClientStep, SchedStep, WorkerStep, vars, AddTask, AddTaskFind,
         AddTaskInsert, AddTaskUpdate, StopTask, ClearExpiredTaskLogs, PollTasks,
         PollSrvs, PollRoutes, Send, Elect, Depose, Crash, LockTask,
         SaveTaskStartedLog, CallbackSrv, CallbackRefused, CallbackReply,
         CallbackLost, SaveTaskCallbackLog, SubmitTaskResp, RegistryStep, Tick
<1> QED
  BY <1>1, <1>2

LEMMA ConfirmedStep ==
  ASSUME "early" \notin Env, IInv, IInv', ConfirmedInv, [Next]_vars
  PROVE  ConfirmedInv'
<1> SUFFICES ASSUME NEW r \in Run, confirmed'[r] # "no"
             PROVE  /\ log'[r] # NoLog
                    /\ log'[r].taskStatus = confirmed'[r] /\ log'[r].respExtra = "confirm"
                    /\ \A w \in Workers : ~Holds(w, r)'
  BY DEF ConfirmedInv
<1>1. CASE \E status \in Final : ConfirmTask(r, status)
  <2>1. PICK status \in Final : ConfirmTask(r, status)
    BY <1>1
  <2>2. /\ log' = [log EXCEPT ![r] = ConfirmedLog(log[r], status, "confirm")]
        /\ confirmed'[r] = status
    BY <2>1 DEF ConfirmTask, IInv, TypeOK, Outcomes
  <2>3. log[r] # NoLog /\ log[r] \in TaskLogModel
    BY <2>1 DEF ConfirmTask, IInv, TypeOK, ClaimInv, CalledIsLogged
  <2>4. log'[r] = [log[r] EXCEPT !.ended = TRUE, !.respExtra = "confirm",
                                 !.taskStatus = status]
    BY <2>2, <2>3 DEF ConfirmedLog, IInv, TypeOK
  <2>5. log'[r].taskStatus = status /\ log'[r].respExtra = "confirm"
    BY <2>3, <2>4 DEF TaskLogModel
  <2>6. log'[r] # NoLog
    BY <2>2, <2>3, ConfirmedLogType DEF IInv, TypeOK
  <2>7. \A w \in Workers : ~Holds(w, r)'
    BY <2>1 DEF ConfirmTask, Holds
  <2> QED
    BY <2>2, <2>5, <2>6, <2>7
<1>2. CASE \A status \in Final : ~ConfirmTask(r, status)
  <2>1. confirmed'[r] = confirmed[r]
    BY <1>2, OnlyConfirmTaskConfirms
  <2>2. /\ log[r] # NoLog /\ \A w \in Workers : ~Holds(w, r)
        /\ log[r].taskStatus = confirmed[r] /\ log[r].respExtra = "confirm"
    BY <2>1 DEF ConfirmedInv
  <2>3. log'[r] = log[r]
    BY <1>2, <2>2, LogOfHeldRun
  <2>4. \A w \in Workers : ~Holds(w, r)'
    BY <2>2, HoldsNewRun
  <2> QED
    BY <2>1, <2>2, <2>3, <2>4
<1> QED
  BY <1>1, <1>2

(* A confirmed result is not overwritten by the worker's own bookkeeping, by *)
(* another run or by a second confirmation, whatever fails, crashes or is    *)
(* elected, as long as services confirm after the callback was recorded.     *)
THEOREM ConfirmedResultsKept ==
  ASSUME "early" \notin Env
  PROVE  Spec => []ConfirmedKept
<1>1. IInv /\ IInv' /\ ConfirmedInv /\ [Next]_vars => ConfirmedInv'
  BY ConfirmedStep
<1>2. ConfirmedInv => ConfirmedKept
  BY DEF ConfirmedInv, ConfirmedKept
<1> QED
  BY <1>1, <1>2, ConfirmedInit, IInvHolds, PTL DEF Spec
-----------------------------------------------------------------------------
(* Lost runs *)

(* Why a worker that gets as far as the record of the callback leaves a run  *)
(* with its outcome: the row it changes is there, and it leaves "running" in *)
(* it only for a service that runs asynchronously.                           *)
RecordInv ==
  \A w \in Workers :
    /\ worker[w].pc \in {"wait", "log"} => log[RunOf(w)] # NoLog
    /\ worker[w].pc = "log" /\ worker[w].reply = "running" => called[RunOf(w)] = "async"

LEMMA RecordInit == Init => RecordInv
  BY DEF Init, RecordInv, IdleWorker

(* Log rows stay, and so does the way in which a run was called.             *)
LEMMA LogAndCallsStay ==
  ASSUME IInv, [Next]_vars, NEW r \in Run
  PROVE  /\ log[r] # NoLog => log'[r] # NoLog
         /\ called[r] # "no" => called'[r] = called[r]
<1>1. CASE Quiet
  BY <1>1 DEF Quiet
<1>2. ASSUME NEW w \in Workers, LockTask(w)
      PROVE  log' = log /\ called' = called
  BY <1>2 DEF LockTask
<1>3. ASSUME NEW w \in Workers, SaveTaskStartedLog(w)
      PROVE  called' = called /\ (log[r] # NoLog => log'[r] # NoLog)
  BY <1>3 DEF SaveTaskStartedLog, LogFree, IInv, TypeOK
<1>4. ASSUME NEW w \in Workers, CallbackSrv(w)
      PROVE  log' = log /\ (called[r] # "no" => called'[r] = called[r])
  BY <1>4 DEF CallbackSrv, IInv, TypeOK, ClaimInv, CallbackAtMostOnce
<1> QED
  BY <1>1, <1>2, <1>3, <1>4, StepKinds

(* A step moves at most the workers of one process, and a step of one worker *)
(* no other.                                                                 *)
LEMMA OthersStay ==
  ASSUME IInv, NEW w \in Workers, WorkerStep(w)
  PROVE  \A v \in Workers : v # w => worker'[v] = worker[v]
<1>1. \E state : worker' = [worker EXCEPT ![w] = state]
  BY DEF WorkerStep, LockTask, SaveTaskStartedLog, CallbackSrv, CallbackRefused,
         CallbackReply, CallbackLost, SaveTaskCallbackLog, SubmitTaskResp, Replied
<1> QED
  BY <1>1 DEF IInv, TypeOK

LEMMA RecordStep ==
  ASSUME IInv, RecordInv, [Next]_vars
  PROVE  RecordInv'
<1> SUFFICES ASSUME NEW w \in Workers
             PROVE  /\ worker'[w].pc \in {"wait", "log"} => log'[RunOf(w)'] # NoLog
                    /\ worker'[w].pc = "log" /\ worker'[w].reply = "running"
                         => called'[RunOf(w)'] = "async"
  BY DEF RecordInv
<1>1. CASE worker'[w] = worker[w]
  <2>1. RunOf(w)' = RunOf(w)
    BY <1>1 DEF RunOf
  <2>2. worker[w].pc \in {"wait", "log"} => RunOf(w) \in Run
    BY HeldRun DEF Holding
  <2> QED
    BY <1>1, <2>1, <2>2, LogAndCallsStay DEF RecordInv
<1>2. CASE worker'[w].pc \notin {"wait", "log"}
  BY <1>2
<1>3. CASE CallbackSrv(w)
  <2>1. worker'[w] = [pc |-> "wait", task |-> worker[w].task] /\ log' = log
    BY <1>3 DEF CallbackSrv, IInv, TypeOK
  <2>2. RunOf(w)' = RunOf(w)
    BY <2>1 DEF RunOf
  <2>3. log[RunOf(w)] # NoLog
    BY <1>3 DEF CallbackSrv, IInv, ClaimInv, CallIsLogged
  <2> QED
    BY <2>1, <2>2, <2>3
<1>4. CASE CallbackRefused(w) \/ CallbackReply(w) \/ CallbackLost(w)
  <2>1. PICK reply, err :
          /\ worker' = [worker EXCEPT ![w] =
               [pc |-> "log", task |-> worker[w].task, reply |-> reply, err |-> err]]
          /\ reply = "running" => called[RunOf(w)] = "async"
    BY <1>4, CallbackEnded
  <2>2. worker'[w].pc = "log" /\ worker'[w].reply = reply /\ RunOf(w)' = RunOf(w)
    BY <2>1 DEF RunOf, IInv, TypeOK
  <2>3. log[RunOf(w)] # NoLog
    BY <1>4 DEF CallbackRefused, CallbackReply, CallbackLost, IInv, ClaimInv,
                CallIsLogged, RecordInv
  <2>4. log' = log /\ called' = called
    BY <1>4 DEF CallbackRefused, CallbackReply, CallbackLost
  <2> QED
    BY <2>1, <2>2, <2>3, <2>4
<1>5. ASSUME LockTask(w) \/ SaveTaskStartedLog(w) \/ SubmitTaskResp(w)
      PROVE  worker'[w].pc \notin {"wait", "log"}
  BY <1>5 DEF LockTask, SaveTaskStartedLog, SubmitTaskResp, IdleWorker, IInv, TypeOK
<1>6. ASSUME SaveTaskCallbackLog(w) PROVE worker'[w].pc = "confirm"
  <2>1. worker[w] \in [pc : {"log", "confirm"}, task : Task,
                       reply : {"running"} \cup Final, err : BOOLEAN]
    BY <1>6 DEF SaveTaskCallbackLog, IInv, TypeOK, WorkerState
  <2> QED
    BY <1>6, <2>1 DEF SaveTaskCallbackLog, IInv, TypeOK
<1>7. ASSUME NEW n \in Nodes, Crash(n)
      PROVE  worker'[w] = worker[w] \/ worker'[w].pc \notin {"wait", "log"}
  BY <1>7 DEF Crash, IdleWorker
<1>8. ASSUME NEW n \in Nodes, NEW k \in Slots, Send(n, k)
      PROVE  worker'[w] = worker[w] \/ worker'[w].pc \notin {"wait", "log"}
  BY <1>8 DEF Send, IInv, TypeOK
<1>9. ASSUME NEW v \in Workers, v # w, WorkerStep(v) PROVE worker'[w] = worker[w]
  BY <1>9, OthersStay
<1>10. CASE WorkerStep(w)
  BY <1>2, <1>3, <1>4, <1>5, <1>6, <1>10 DEF WorkerStep
<1> QED
  BY <1>1, <1>2, <1>7, <1>8, <1>9, <1>10
     DEF Next, ClientStep, SchedStep, vars, AddTask, AddTaskFind, AddTaskInsert,
         AddTaskUpdate, StopTask, ClearExpiredTaskLogs, ConfirmTask, Elect, Depose,
         PollTasks, PollSrvs, PollRoutes, RegistryStep, Tick

(* How a run comes to be lost in a step of a worker: a claim whose answer is *)
(* lost, or the run in the worker's hands.                                   *)
LostBy(w) ==
  IF worker[w].pc = "lock" THEN <<worker[w].task.id, worker[w].task.runTimes + 1>>
                           ELSE RunOf(w)

(* A step that counts no run, calls none and reopens no log row opens none.  *)
LEMMA StaysClosed ==
  ASSUME NEW r \in Run, Open(r)', RunTimes(r[1])' = RunTimes(r[1]),
         called'[r] = "async" \/ called[r] # "async",
         log'[r] = log[r] \/ log[r] = NoLog \/ log'[r].taskStatus # "running"
         \/ log[r].taskStatus = "running",
         log'[r] = NoLog => log[r] = NoLog
  PROVE  Open(r)
  BY DEF Open

LEMMA SameRunTimes ==
  ASSUME UNCHANGED task, NEW r \in Run
  PROVE  RunTimes(r[1])' = RunTimes(r[1])
  BY DEF RunTimes

(* Each step of a worker loses a run only in a failure, and only its own.    *)
LEMMA LockTaskLoses ==
  ASSUME IInv, [Next]_vars, NEW w \in Workers, LockTask(w),
         NEW r \in Run, r \in LostRuns', r \notin LostRuns
  PROVE  faults' = faults + 1 /\ r = LostBy(w)
<1> DEFINE t == worker[w].task
<1>1. ~Open(r)
  <2>1. ASSUME NEW v \in Workers, worker[v].pc \in Recording, RunOf(v) = r
        PROVE  worker'[v].pc \in Recording /\ RunOf(v)' = r
    <3>1. v # w
      BY <2>1 DEF LockTask, Recording
    <3>2. worker'[v] = worker[v]
      BY <3>1, OthersStay DEF WorkerStep
    <3> QED
      BY <2>1, <3>2 DEF RunOf
  <2> QED
    BY <2>1 DEF LostRuns, Recorded
<1>2. Open(r)' /\ ~Recorded(r)' /\ log' = log /\ called' = called
  BY DEF LostRuns, LockTask
<1>3. r[1] \in TaskIds /\ r[2] \in Nat /\ r = <<r[1], r[2]>>
  BY MaxRunsAssumption DEF Run
<1>4. RunTimes(r[1])' # RunTimes(r[1])
  BY <1>1, <1>2 DEF Open
<1>5. PICK v \in Workers : /\ LockTask(v) /\ worker[v].task.id = r[1]
                           /\ SameAsSnapshot(task[r[1]], worker[v].task)
                           /\ task'[r[1]].runTimes = task[r[1]].runTimes + 1
                           /\ RunTimes(r[1])' = RunTimes(r[1]) + 1
  BY <1>3, <1>4, OnlyLockTaskClaims DEF IInv, ClaimInv, TypeInv
<1>6. task' # task
  BY <1>4 DEF RunTimes
<1>7. SameAsSnapshot(task[t.id], t) /\ task' = [task EXCEPT ![t.id] = LockedRow(task[t.id], t, now)]
  BY <1>6 DEF LockTask
<1>8. t.id \in TaskIds
  BY DEF LockTask, IInv, TypeOK, WorkerState, Task
<1>9. t.id = r[1]
  <2>1. t.id # r[1] => task'[r[1]] = task[r[1]]
    BY <1>3, <1>7, <1>8 DEF IInv, TypeOK
  <2> QED
    BY <1>4, <2>1 DEF RunTimes
<1>10. RunTimes(r[1]) = t.runTimes /\ t.runTimes \in Nat
  <2>1. t \in Task
    BY DEF LockTask, IInv, TypeOK, WorkerState
  <2>2. t.runTimes \in Nat
    BY <2>1, MaxRunsAssumption DEF Task
  <2>3. RunTimes(r[1]) = t.runTimes
    BY <1>7, <1>9 DEF SameAsSnapshot, RunTimes, Live
  <2> QED
    BY <2>2, <2>3
<1>11. r[2] = t.runTimes + 1
  BY <1>1, <1>2, <1>3, <1>5, <1>10 DEF Open
<1>12. r = LostBy(w)
  BY <1>3, <1>9, <1>11 DEF LostBy, LockTask
<1>13. PICK outcome \in Outcomes :
         /\ Spend(outcome)
         /\ outcome = "done" => worker' = [worker EXCEPT ![w] =
                [pc |-> "start", task |-> [t EXCEPT !.runTimes = @ + 1]]]
  BY <1>7 DEF LockTask
<1>14. outcome # "done"
  <2> SUFFICES ASSUME outcome = "done" PROVE FALSE
    OBVIOUS
  <2> DEFINE next == [t EXCEPT !.runTimes = @ + 1]
  <2>1. t \in Task
    BY DEF LockTask, IInv, TypeOK, WorkerState
  <2>2. next.id = t.id /\ next.runTimes = t.runTimes + 1
    BY <2>1 DEF Task
  <2> HIDE DEF next
  <2>3. worker'[w] = [pc |-> "start", task |-> next]
    BY <1>13 DEF next, IInv, TypeOK
  <2>4. RunOf(w)' = r /\ worker'[w].pc \in Recording
    BY <1>3, <1>9, <1>11, <2>2, <2>3 DEF RunOf, Recording
  <2> QED
    BY <1>2, <2>4 DEF Recorded
<1> QED
  BY <1>12, <1>13, <1>14 DEF Spend

(* A run that a worker held, and that it does not hold any more.             *)
LEMMA OwnRunLost ==
  ASSUME IInv, NEW w \in Workers, WorkerStep(w),
         NEW r \in Run, Recorded(r), ~Recorded(r)'
  PROVE  /\ worker[w].pc \in Recording /\ RunOf(w) = r
         /\ ~(worker'[w].pc \in Recording /\ RunOf(w)' = r)
<1>1. PICK v \in Workers : worker[v].pc \in Recording /\ RunOf(v) = r
  BY DEF Recorded
<1>2. ~(worker'[v].pc \in Recording /\ RunOf(v)' = r)
  BY DEF Recorded
<1>3. v = w
  <2> SUFFICES ASSUME v # w PROVE FALSE
    OBVIOUS
  <2>1. worker'[v] = worker[v]
    BY OthersStay
  <2> QED
    BY <1>1, <1>2, <2>1 DEF RunOf
<1> QED
  BY <1>1, <1>2, <1>3

LEMMA WorkerLoses ==
  ASSUME IInv, RecordInv, [Next]_vars, NEW w \in Workers, WorkerStep(w),
         NEW r \in Run, r \in LostRuns', r \notin LostRuns
  PROVE  faults' = faults + 1 /\ r = LostBy(w)
<1>0. Open(r)' /\ ~Recorded(r)' /\ (Open(r) => Recorded(r))
  BY DEF LostRuns
<1>1. CASE LockTask(w)
  BY <1>1, LockTaskLoses
<1>2. CASE SaveTaskStartedLog(w)
  <2>1. UNCHANGED task /\ called' = called
    BY <1>2 DEF SaveTaskStartedLog
  <2>2. \/ log'[r] = log[r]
        \/ log[r] = NoLog /\ log'[r] = StartedLog
    BY <1>2 DEF SaveTaskStartedLog, LogFree, IInv, TypeOK
  <2>3. StartedLog # NoLog
    BY DEF StartedLog, NoLog
  <2>4. Open(r)
    BY <1>0, <2>1, <2>2, <2>3, StaysClosed, SameRunTimes
  <2>5. RunOf(w) = r /\ ~(worker'[w].pc \in Recording /\ RunOf(w)' = r)
    BY <1>0, <2>4, OwnRunLost
  <2>6. LogFree(r)
    BY <1>2, <2>5 DEF SaveTaskStartedLog, LogFree, IInv, ClaimInv, StartedLogFresh
  <2>7. PICK outcome \in Outcomes :
          /\ Spend(outcome)
          /\ outcome = "done" =>
               worker' = [worker EXCEPT ![w] = [pc |-> "call", task |-> worker[w].task]]
    BY <1>2, <2>5, <2>6 DEF SaveTaskStartedLog
  <2>8. outcome # "done"
    <3> SUFFICES ASSUME outcome = "done" PROVE FALSE
      OBVIOUS
    <3>1. worker'[w] = [pc |-> "call", task |-> worker[w].task]
      BY <2>7 DEF IInv, TypeOK
    <3> QED
      BY <2>5, <3>1 DEF RunOf, Recording
  <2> QED
    BY <1>2, <2>5, <2>7, <2>8 DEF Spend, LostBy, SaveTaskStartedLog
<1>3. CASE CallbackSrv(w)
  <2>1. UNCHANGED task /\ log' = log
    BY <1>3 DEF CallbackSrv
  <2>2. called'[r] = called[r] \/ called[r] = "no"
    BY <1>3 DEF CallbackSrv, IInv, TypeOK, ClaimInv, CallbackAtMostOnce
  <2>3. Open(r)
    BY <1>0, <2>1, <2>2, StaysClosed, SameRunTimes
  <2>4. RunOf(w) = r /\ ~(worker'[w].pc \in Recording /\ RunOf(w)' = r)
    BY <1>0, <2>3, OwnRunLost
  <2>5. worker'[w] = [pc |-> "wait", task |-> worker[w].task]
    BY <1>3 DEF CallbackSrv, IInv, TypeOK
  <2> QED
    BY <2>4, <2>5 DEF RunOf, Recording
<1>4. CASE CallbackRefused(w) \/ CallbackReply(w) \/ CallbackLost(w)
  <2>1. UNCHANGED task /\ log' = log /\ called' = called
    BY <1>4 DEF CallbackRefused, CallbackReply, CallbackLost
  <2>2. Open(r)
    BY <1>0, <2>1, StaysClosed, SameRunTimes
  <2>3. RunOf(w) = r /\ ~(worker'[w].pc \in Recording /\ RunOf(w)' = r)
    BY <1>0, <2>2, OwnRunLost
  <2>4. \E reply, err : worker' = [worker EXCEPT ![w] =
          [pc |-> "log", task |-> worker[w].task, reply |-> reply, err |-> err]]
    BY <1>4, CallbackEnded
  <2>5. worker'[w].pc = "log" /\ worker'[w].task = worker[w].task
    BY <2>4 DEF IInv, TypeOK
  <2> QED
    BY <2>3, <2>5 DEF RunOf, Recording
<1>5. CASE SaveTaskCallbackLog(w)
  <2> DEFINE status == worker[w].reply
  <2>1. UNCHANGED task /\ called' = called
    BY <1>5 DEF SaveTaskCallbackLog
  <2>2. PICK outcome \in Outcomes :
          /\ Spend(outcome)
          /\ log' = IF outcome # "refused"
                      THEN [log EXCEPT ![RunOf(w)] = CallbackLog(log[RunOf(w)], status)]
                      ELSE log
    BY <1>5 DEF SaveTaskCallbackLog
  <2>3. log[r] \in TaskLogModel \cup {NoLog}
    BY DEF IInv, TypeOK
  <2>4. ASSUME log[r] # NoLog, status \in Final
        PROVE  CallbackLog(log[r], status).taskStatus = status
    BY <2>3, <2>4 DEF CallbackLog, TaskLogModel
  <2>5. log'[r] = log[r] \/ log'[r] = CallbackLog(log[r], status)
    BY <2>2 DEF IInv, TypeOK
  <2>6. Open(r)
    <3>1. \/ log'[r] = log[r]
          \/ log[r] # NoLog /\ log'[r].taskStatus \in Final
      BY <2>4, <2>5 DEF CallbackLog
    <3>2. log'[r] = NoLog => log[r] = NoLog
      BY <2>3, <2>5, CallbackLogType
    <3> QED
      BY <1>0, <2>1, <3>1, <3>2, StaysClosed, SameRunTimes DEF Final
  <2>7. RunOf(w) = r
    BY <1>0, <2>6, OwnRunLost
  <2>8. log[r] # NoLog /\ (worker[w].reply = "running" => called[r] = "async")
    BY <1>5, <2>7 DEF SaveTaskCallbackLog, RecordInv
  <2>9. worker[w].reply \in {"running"} \cup Final
    BY <1>5 DEF SaveTaskCallbackLog, IInv, TypeOK, WorkerState
  <2>10. outcome = "refused"
    <3> SUFFICES ASSUME outcome # "refused" PROVE FALSE
      OBVIOUS
    <3>1. log'[r] = CallbackLog(log[r], status)
      BY <2>2, <2>7 DEF IInv, TypeOK
    <3>2. CASE status \in Final
      <4>1. log'[r].taskStatus \in Final
        BY <2>4, <2>8, <3>1, <3>2
      <4>2. log'[r] # NoLog
        BY <2>3, <2>8, <3>1, CallbackLogType
      <4> QED
        BY <1>0, <4>1, <4>2 DEF Open, Final
    <3>3. CASE status = "running"
      <4>1. called'[r] = "async"
        BY <2>1, <2>8, <3>3
      <4>2. log'[r] # NoLog
        BY <2>3, <2>8, <3>1, CallbackLogType
      <4> QED
        BY <1>0, <4>1, <4>2 DEF Open
    <3> QED
      BY <2>9, <3>2, <3>3 DEF Final
  <2> QED
    BY <1>5, <2>2, <2>7, <2>10 DEF Spend, LostBy, SaveTaskCallbackLog
<1>6. CASE SubmitTaskResp(w)
  <2>1. UNCHANGED task /\ called' = called
    BY <1>6 DEF SubmitTaskResp
  <2>2. log[r] \in TaskLogModel \cup {NoLog}
    BY DEF IInv, TypeOK
  <2>3. log'[r] = log[r] \/ \E status : log'[r] = ConfirmedLog(log[r], status, "reply")
    BY <1>6 DEF SubmitTaskResp, IInv, TypeOK
  <2>4. ASSUME log[r] # NoLog, NEW status
        PROVE  ConfirmedLog(log[r], status, "reply").taskStatus \in Final \cup {log[r].taskStatus}
    BY <2>2, <2>4 DEF ConfirmedLog, TaskLogModel
  <2>5. log'[r] = NoLog <=> log[r] = NoLog
    BY <2>2, <2>3, ConfirmedLogType
  <2>6. Open(r)
    BY <1>0, <2>1, <2>3, <2>4, <2>5, StaysClosed, SameRunTimes DEF Final
  <2>7. worker[w].pc \in Recording
    BY <1>0, <2>6, OwnRunLost
  <2> QED
    BY <1>6, <2>7 DEF SubmitTaskResp, Recording
<1> QED
  BY <1>1, <1>2, <1>3, <1>4, <1>5, <1>6 DEF WorkerStep

(* The steps of everybody else lose no run, ...                              *)
LEMMA OthersLoseNone ==
  ASSUME IInv, [Next]_vars,
         \A w \in Workers : ~WorkerStep(w),
         \A n \in Nodes : ~Crash(n),
         NEW r \in Run, r \in LostRuns'
  PROVE  r \in LostRuns
<1>1. RunTimes(r[1])' = RunTimes(r[1])
  <2>1. r[1] \in TaskIds
    BY DEF Run
  <2>2. TypeInv
    BY DEF IInv, ClaimInv, TypeInv
  <2> QED
    BY <2>1, <2>2, OnlyLockTaskClaims DEF WorkerStep
<1>2. ASSUME NEW q \in Run, NEW status \in Final, ConfirmTask(q, status)
      PROVE  /\ UNCHANGED <<worker, called>>
             /\ \/ log'[r] = log[r]
                \/ log'[r] = ConfirmedLog(log[r], status, "confirm")
  BY <1>2 DEF ConfirmTask, IInv, TypeOK
<1>3. CASE \E q \in Run, status \in Final : ConfirmTask(q, status)
  <2>1. PICK status \in Final : \/ log'[r] = log[r]
                                \/ log'[r] = ConfirmedLog(log[r], status, "confirm")
    BY <1>2, <1>3
  <2>2. log[r] \in TaskLogModel \cup {NoLog}
    BY DEF IInv, TypeOK
  <2>3. log'[r] = NoLog <=> log[r] = NoLog
    BY <2>1, <2>2, ConfirmedLogType
  <2>4. log[r] # NoLog => ConfirmedLog(log[r], status, "confirm").taskStatus = status
    BY <2>2 DEF ConfirmedLog, TaskLogModel
  <2>5. UNCHANGED <<worker, called>>
    BY <1>2, <1>3
  <2>6. Recorded(r)' <=> Recorded(r)
    BY <2>5 DEF Recorded, RunOf
  <2>7. Open(r)' => Open(r)
    BY <1>1, <2>1, <2>3, <2>4, <2>5, StaysClosed DEF Final
  <2> QED
    BY <2>6, <2>7 DEF LostRuns
<1>4. ASSUME NEW n \in Nodes, NEW k \in Slots, Send(n, k)
      PROVE  /\ UNCHANGED <<log, called>>
             /\ \A w \in Workers : worker'[w] = worker[w] \/ worker[w].pc = "idle"
  BY <1>4 DEF Send, IInv, TypeOK
<1>5. CASE /\ UNCHANGED <<log, called>>
           /\ \A w \in Workers : worker'[w] = worker[w] \/ worker[w].pc = "idle"
  <2>1. Open(r)' => Open(r)
    BY <1>1, <1>5 DEF Open
  <2>2. Recorded(r) => Recorded(r)'
    BY <1>5 DEF Recorded, RunOf, Recording
  <2> QED
    BY <2>1, <2>2 DEF LostRuns
<1> QED
  BY <1>3, <1>4, <1>5
     DEF Next, ClientStep, SchedStep, vars, AddTask, AddTaskFind, AddTaskInsert,
         AddTaskUpdate, StopTask, ClearExpiredTaskLogs, Elect, Depose,
         PollTasks, PollSrvs, PollRoutes, RegistryStep, Tick

(* ... and a process that dies loses what its workers hold.                  *)
LEMMA CrashLoses ==
  ASSUME IInv, NEW n \in Nodes, Crash(n),
         NEW r \in Run, r \in LostRuns', r \notin LostRuns
  PROVE  faults' = faults + 1 /\ \E k \in Slots : r = RunOf(<<n, k>>)
<1>1. UNCHANGED <<task, log, called>> /\ faults' = faults + 1
  BY DEF Crash, Fault
<1>2. Open(r)
  BY <1>1 DEF LostRuns, Open, RunTimes
<1>3. PICK w \in Workers : worker[w].pc \in Recording /\ RunOf(w) = r
  BY <1>2 DEF LostRuns, Recorded
<1>4. ~(worker'[w].pc \in Recording /\ RunOf(w)' = r)
  BY DEF LostRuns, Recorded
<1>5. w[1] # n => worker'[w] = worker[w]
  BY DEF Crash
<1>6. w[1] = n
  BY <1>3, <1>4, <1>5 DEF RunOf
<1>7. PICK k \in Slots : w = <<n, k>>
  BY <1>6 DEF Workers
<1> QED
  BY <1>1, <1>3, <1>7

(* Faults count failures, and nothing else changes the count.                *)
LEMMA FaultsCounted ==
  ASSUME IInv, [Next]_vars
  PROVE  faults \in Nat /\ faults' \in {faults, faults + 1}
<1>1. faults \in Nat
  BY BoundsAssumption DEF IInv, TypeOK
<1>2. ASSUME NEW w \in Workers, WorkerStep(w) PROVE faults' \in {faults, faults + 1}
  <2>1. CASE LockTask(w) \/ SaveTaskStartedLog(w) \/ CallbackSrv(w) \/ CallbackRefused(w)
    BY <2>1 DEF LockTask, SaveTaskStartedLog, CallbackSrv, CallbackRefused, Spend, Fault
  <2>2. CASE CallbackReply(w) \/ CallbackLost(w) \/ SaveTaskCallbackLog(w) \/ SubmitTaskResp(w)
    BY <2>2 DEF CallbackReply, CallbackLost, SaveTaskCallbackLog, SubmitTaskResp, Spend
  <2> QED
    BY <1>2, <2>1, <2>2 DEF WorkerStep
<1>3. ASSUME NEW n \in Nodes, SchedStep(n) \/ Elect(n) \/ Depose(n) \/ Crash(n)
      PROVE  faults' \in {faults, faults + 1}
  BY <1>3 DEF SchedStep, PollTasks, PollSrvs, PollRoutes, Send, Elect, Depose, Crash,
              Spend, Fault
<1>4. ASSUME NEW c \in Clients, ClientStep(c) PROVE faults' \in {faults, faults + 1}
  BY <1>4 DEF ClientStep, AddTask, AddTaskFind, AddTaskInsert, AddTaskUpdate, Spend
<1>5. ASSUME NEW r \in Run, NEW status \in Final, ConfirmTask(r, status)
      PROVE  faults' \in {faults, faults + 1}
  BY <1>5 DEF ConfirmTask, Spend
<1> QED
  BY <1>1, <1>2, <1>3, <1>4, <1>5
     DEF Next, vars, StopTask, ClearExpiredTaskLogs, RegistryStep, Tick

LossInv == IsFiniteSet(LostRuns) /\ LossBounded

LEMMA LossInit == Init => LossInv
<1> SUFFICES ASSUME Init PROVE LossInv
  OBVIOUS
<1>1. \A r \in Run : RunTimes(r[1]) = 0 /\ r[2] \in Nat /\ r[2] >= 1
  BY MaxRunsAssumption DEF Init, RunTimes, Run
<1>2. LostRuns = {}
  BY <1>1 DEF LostRuns, Open
<1>3. faults = 0 /\ Cardinality(Slots) \in Nat
  BY SlotsAssumption, FS_CardinalityType DEF Init
<1> QED
  BY <1>2, <1>3, FS_EmptySet DEF LossInv, LossBounded

(* Runs that are found again, or lost in a failure, a process' worth of them *)
(* at most, keep the bound.                                                  *)
LEMMA FewerLost ==
  ASSUME IInv, [Next]_vars, LossInv, LostRuns' \subseteq LostRuns
  PROVE  LossInv'
<1> DEFINE C == Cardinality(Slots)
<1>1. IsFiniteSet(LostRuns') /\ Cardinality(LostRuns') <= Cardinality(LostRuns)
  BY FS_Subset DEF LossInv
<1>2. Cardinality(LostRuns) \in Nat /\ Cardinality(LostRuns') \in Nat /\ C \in Nat
  BY <1>1, SlotsAssumption, FS_CardinalityType DEF LossInv
<1>3. Cardinality(LostRuns) <= faults * C
  BY DEF LossInv, LossBounded
<1> HIDE DEF C
<1>4. faults * C <= faults' * C
  BY <1>2, FaultsCounted
<1>5. faults * C \in Nat /\ faults' * C \in Nat
  BY <1>2, FaultsCounted
<1>6. Cardinality(LostRuns') <= faults' * C
  BY <1>1, <1>2, <1>3, <1>4, <1>5
<1> QED
  BY <1>1, <1>6 DEF LossInv, LossBounded, C

LEMMA MoreLost ==
  ASSUME IInv, [Next]_vars, LossInv, faults' = faults + 1,
         NEW lost, IsFiniteSet(lost), Cardinality(lost) <= Cardinality(Slots),
         LostRuns' \subseteq LostRuns \cup lost
  PROVE  LossInv'
<1> DEFINE C == Cardinality(Slots)
           all == LostRuns \cup lost
<1>1. /\ IsFiniteSet(all)
      /\ Cardinality(all) = Cardinality(LostRuns) + Cardinality(lost) - Cardinality(LostRuns \cap lost)
  BY FS_Union DEF LossInv
<1>2. IsFiniteSet(LostRuns \cap lost)
  BY FS_Subset DEF LossInv
<1>3. IsFiniteSet(LostRuns') /\ Cardinality(LostRuns') <= Cardinality(all)
  BY <1>1, FS_Subset
<1> DEFINE new == Cardinality(LostRuns')
           old == Cardinality(LostRuns)
           more == Cardinality(lost)
           both == Cardinality(LostRuns \cap lost)
<1>4. new \in Nat /\ old \in Nat /\ more \in Nat /\ both \in Nat /\ C \in Nat
  BY <1>2, <1>3, SlotsAssumption, FS_CardinalityType DEF LossInv
<1>5. new <= old + more - both /\ more <= C /\ old <= faults * C
  BY <1>1, <1>3 DEF LossInv, LossBounded
<1> HIDE DEF C, new, old, more, both
<1>6. faults * C \in Nat /\ faults' * C = faults * C + C
  BY <1>4, FaultsCounted
<1>7. new <= faults' * C
  BY <1>4, <1>5, <1>6
<1> QED
  BY <1>3, <1>7 DEF LossInv, LossBounded, C, new

LEMMA LossStep ==
  ASSUME IInv, RecordInv, LossInv, [Next]_vars
  PROVE  LossInv'
<1>0. LostRuns' \subseteq Run
  BY DEF LostRuns
<1>1. CASE LostRuns' \subseteq LostRuns
  BY <1>1, FewerLost
<1>2. ASSUME NEW w \in Workers, WorkerStep(w), ~(LostRuns' \subseteq LostRuns)
      PROVE  LossInv'
  <2>1. PICK r \in LostRuns' : r \notin LostRuns
    BY <1>2
  <2>2. faults' = faults + 1
    BY <1>0, <1>2, <2>1, WorkerLoses
  <2>3. LostRuns' \subseteq LostRuns \cup {LostBy(w)}
    BY <1>0, <1>2, WorkerLoses
  <2>4. IsFiniteSet({LostBy(w)}) /\ Cardinality({LostBy(w)}) = 1
    BY FS_Singleton
  <2>5. Cardinality(Slots) \in Nat /\ Cardinality(Slots) # 0
    BY SlotsAssumption, FS_CardinalityType, FS_EmptySet DEF Workers
  <2> QED
    BY <2>2, <2>3, <2>4, <2>5, MoreLost
<1>3. ASSUME NEW n \in Nodes, Crash(n), ~(LostRuns' \subseteq LostRuns)
      PROVE  LossInv'
  <2> DEFINE held == [k \in Slots |-> RunOf(<<n, k>>)]
             lost == {held[k] : k \in Slots}
  <2>1. PICK r \in LostRuns' : r \notin LostRuns
    BY <1>3
  <2>2. faults' = faults + 1
    BY <1>0, <1>3, <2>1, CrashLoses
  <2>3. LostRuns' \subseteq LostRuns \cup lost
    BY <1>0, <1>3, CrashLoses
  <2>4. held \in Surjection(Slots, lost)
    BY DEF Surjection
  <2>5. IsFiniteSet(lost) /\ Cardinality(lost) <= Cardinality(Slots)
    BY <2>4, SlotsAssumption, FS_Surjection
  <2> HIDE DEF lost
  <2> QED
    BY <2>2, <2>3, <2>5, MoreLost
<1>4. CASE (\A w \in Workers : ~WorkerStep(w)) /\ (\A n \in Nodes : ~Crash(n))
  BY <1>0, <1>1, <1>4, OthersLoseNone
<1> QED
  BY <1>1, <1>2, <1>3, <1>4

(* No claimed run is lost but by a failure, and one failure, a crash         *)
(* included, loses no more runs than one process has workers: for any number *)
(* of nodes, workers, tasks and failures, on a schema with or without the    *)
(* result columns, whatever moves, stops or confirms the tasks.              *)
THEOREM LossesBounded == Spec => []LossBounded
<1> DEFINE I == IInv /\ RecordInv /\ LossInv
<1>1. Init => I
  BY ClaimInit, RecordInit, LossInit
<1>2. I /\ [Next]_vars => I'
  BY ClaimStep, RecordStep, LossStep
<1>3. I => LossBounded
  BY DEF LossInv
<1> HIDE DEF I
<1> QED
  BY <1>1, <1>2, <1>3, PTL DEF Spec
==============================================================================
