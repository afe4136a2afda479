---------------------------- MODULE TaskRunProofs ----------------------------
(***************************************************************************)
(* What TaskRun's runs check on small instances, proved for any number of  *)
(* nodes, workers, clients, tasks and requests, and for every bound.       *)
(***************************************************************************)
EXTENDS TaskRun, TLAPS

USE DEF Final, Modes, InTable, Live

-----------------------------------------------------------------------------
(* The rules of the table keep the types of its rows. *)

(* GetSchedNextAt answers a Unix time for every schedule in use. *)
LEMMA SchedNextAtType ==
  ASSUME NEW mode \in Modes, NEW param \in Params, NEW specAt \in Int,
         NEW t \in 1 .. MaxTime
  PROVE  SchedNextAt(mode, param, specAt, t) \in Int
<1>1. CASE mode = "interval"
  BY <1>1, ParamsAssumption DEF SchedNextAt
<1>2. CASE mode = "cron"
  BY <1>2, CronAssumption DEF SchedNextAt
<1>3. CASE mode = "spec"
  BY <1>3 DEF SchedNextAt
<1>4. QED BY <1>1, <1>2, <1>3

(* add_task inserts a row of the table's type. *)
LEMMA NewRowType ==
  ASSUME NEW req \in Request, NEW plan \in Int
  PROVE  NewRow(req, plan) \in TaskModel
BY MaxIntAssumption, MaxRunsAssumption
   DEF NewRow, TaskModel, Request, AllowMaxRunTimes

(* add_task's UPDATE keeps the row in the table's type. *)
LEMMA UpdatedRowType ==
  ASSUME NEW row \in TaskModel, NEW req \in Request, NEW plan \in Int,
         NEW rearm \in BOOLEAN
  PROVE  /\ UpdatedRow(row, req, plan, rearm) \in TaskModel
         /\ UpdatedRow(row, req, plan, rearm).runTimes = row.runTimes
<1> DEFINE allow == AllowMaxRunTimes(req.mode) + IF rearm THEN row.runTimes ELSE 0
<1>1. row.runTimes \in Nat
  BY MaxRunsAssumption DEF TaskModel
<1>2. AllowMaxRunTimes(req.mode) \in Nat
  BY MaxIntAssumption DEF AllowMaxRunTimes
<1>3. allow \in Nat
  BY <1>1, <1>2
<1> HIDE DEF allow
<1>4. UpdatedRow(row, req, plan, rearm) =
        [row EXCEPT !.callbackSrvId = req.srv, !.mode = req.mode,
                    !.param = req.param, !.planSchedNextAt = plan,
                    !.state = "live", !.allowMaxRunTimes = allow]
  BY DEF UpdatedRow, allow
<1>5. QED BY <1>3, <1>4 DEF TaskModel, Request

(* LockTask's UPDATE counts one more run. *)
LEMMA LockedRowType ==
  ASSUME NEW row \in TaskModel, NEW t \in Task, NEW at \in 1 .. MaxTime,
         row.runTimes < MaxRuns
  PROVE  /\ LockedRow(row, t, at) \in TaskModel
         /\ LockedRow(row, t, at).runTimes = row.runTimes + 1
<1>1. SchedNextAt(t.mode, t.param, t.timeSpecAt, at) \in Int
  BY SchedNextAtType DEF Task
<1>2. at \in Nat
  BY MaxTimeAssumption
<1>3. row.runTimes + 1 \in 0 .. MaxRuns
  BY MaxRunsAssumption DEF TaskModel
<1>4. QED BY <1>1, <1>2, <1>3 DEF LockedRow, TaskModel

(* The scheduler builds a task from every row. *)
LEMMA EntityType ==
  ASSUME NEW id \in TaskIds, NEW row \in TaskModel, NEW routed \in BOOLEAN
  PROVE  ToEntity(id, row, routed) \in Task
BY DEF ToEntity, Task, TaskModel

(* A log row that was written stays a log row under every later UPDATE, and *)
(* an UPDATE that finds no row leaves none.                                 *)
LEMMA CallbackLogType ==
  ASSUME NEW row \in TaskLogModel \cup {NoLog}, NEW status
  PROVE  /\ CallbackLog(row, status) \in TaskLogModel \cup {NoLog}
         /\ CallbackLog(row, status) = NoLog <=> row = NoLog
<1>1. CASE row # NoLog /\ status \in Final
  <2>1. CallbackLog(row, status) \in TaskLogModel
    BY <1>1 DEF CallbackLog, TaskLogModel
  <2>2. NoLog \notin TaskLogModel
    BY DEF NoLog, TaskLogModel
  <2>3. QED BY <1>1, <2>1, <2>2
<1>2. QED BY <1>1 DEF CallbackLog

LEMMA ConfirmedLogType ==
  ASSUME NEW row \in TaskLogModel \cup {NoLog}, NEW status,
         NEW extra \in {"reply", "confirm"}
  PROVE  /\ ConfirmedLog(row, status, extra) \in TaskLogModel \cup {NoLog}
         /\ ConfirmedLog(row, status, extra) = NoLog <=> row = NoLog
<1>1. CASE row # NoLog
  <2>1. ConfirmedLog(row, status, extra) \in TaskLogModel
    BY <1>1 DEF ConfirmedLog, TaskLogModel
  <2>2. NoLog \notin TaskLogModel
    BY DEF NoLog, TaskLogModel
  <2>3. QED BY <1>1, <2>1, <2>2
<1>2. QED BY <1>1 DEF ConfirmedLog
-----------------------------------------------------------------------------
(* Types.  AddTaskUpdate rewrites the row it found, so that row must exist. *)

TypeInv == TypeOK /\ UpdatesFoundRow

(* NoRow and NoLog are no rows of the tables. *)
LEMMA NoRowIsNoRow == NoRow \notin TaskModel
<1>1. "mode" \notin DOMAIN NoRow
  BY DEF NoRow
<1>2. \A row \in TaskModel : "mode" \in DOMAIN row
  BY DEF TaskModel
<1>3. QED BY <1>1, <1>2

LEMMA NoLogIsNoLog == NoLog \notin TaskLogModel
BY DEF NoLog, TaskLogModel

(* A statement fails only while failures are left. *)
LEMMA SpendType ==
  ASSUME TypeOK, NEW outcome \in Outcomes, Spend(outcome)
  PROVE  faults' \in 0 .. MaxFaults
BY BoundsAssumption DEF TypeOK, Outcomes, Spend

(* In the initial state every variable has its type. *)
LEMMA TypeInit == Init => TypeInv
<1> SUFFICES ASSUME Init PROVE TypeInv
  OBVIOUS
<1> USE DEF Init
<1>1. now \in 1 .. MaxTime
  BY MaxTimeAssumption
<1>2. calls \in 0 .. MaxCalls /\ faults \in 0 .. MaxFaults
  BY BoundsAssumption
<1>3. sched \in [Nodes -> SchedState]
  BY DEF FreshSched, SchedState
<1>4. worker \in [Workers -> WorkerState]
  BY DEF IdleWorker, WorkerState
<1>5. client \in [Clients -> ClientState]
  BY DEF IdleClient, ClientState, Answers
<1>6. UpdatesFoundRow
  BY DEF UpdatesFoundRow, IdleClient
<1>7. QED BY <1>1, <1>2, <1>3, <1>4, <1>5, <1>6 DEF TypeInv, TypeOK

(* The calls of add_task keep the types. *)
LEMMA ClientType ==
  ASSUME TypeInv, NEW c \in Clients, ClientStep(c)
  PROVE  TypeInv'
<1> USE DEF TypeInv
<1>1. CASE \E req \in Requests : AddTask(c, req)
  <2>1. PICK req \in Requests : AddTask(c, req)
    BY <1>1
  <2>2. req \in Request
    BY RequestsAssumption
  <2>3. SchedNextAt(req.mode, req.param, req.param, now) \in Int
    <3>1. req.mode \in Modes /\ req.param \in Params
      BY <2>2 DEF Request
    <3>2. req.param \in Int
      <4>1. Params \subseteq Int
        BY ParamsAssumption
      <4>2. QED BY <3>1, <4>1
    <3>3. now \in 1 .. MaxTime
      BY DEF TypeOK
    <3>4. QED BY <3>1, <3>2, <3>3, SchedNextAtType
  <2>4. client' \in [Clients -> ClientState]
    BY <2>1, <2>2, <2>3 DEF AddTask, TypeOK, ClientState, IdleClient, Answers
  <2>5. calls' \in 0 .. MaxCalls
    BY <2>1, BoundsAssumption DEF AddTask, ApiCall, TypeOK
  <2>6. UpdatesFoundRow'
    BY <2>1 DEF AddTask, TypeOK, UpdatesFoundRow, IdleClient
  <2>7. QED BY <2>1, <2>4, <2>5, <2>6 DEF AddTask, TypeOK
<1>2. CASE AddTaskFind(c)
  <2>1. faults' \in 0 .. MaxFaults
    BY <1>2, SpendType DEF AddTaskFind
  <2>2. client[c].req \in Request /\ client[c].plan \in Int
    BY <1>2 DEF AddTaskFind, TypeOK, ClientState
  <2>3. \A id : Rearms(task[id], client[c].req, client[c].plan) \in BOOLEAN
    BY DEF Rearms
  <2>4. client' \in [Clients -> ClientState]
    BY <1>2, <2>2, <2>3
       DEF AddTaskFind, TypeOK, ClientState, IdleClient, Answers, WithKey
  <2>5. UpdatesFoundRow'
    <3>1. \/ client' = [client EXCEPT ![c].pc = "insert"]
          \/ \E id \in WithKey(client[c].req.key), rearm \in BOOLEAN :
               client' = [client EXCEPT ![c] =
                 [pc |-> "update", req |-> client[c].req,
                  plan |-> client[c].plan, id |-> id, rearm |-> rearm]]
          \/ client' = [client EXCEPT ![c] = IdleClient(EmptyId)]
      BY <1>2, <2>3 DEF AddTaskFind
    <3>2. client'[c].pc = "update" => task[client'[c].id] # NoRow
      <4>1. CASE client' = [client EXCEPT ![c].pc = "insert"]
        BY <4>1 DEF TypeOK, ClientState
      <4>2. CASE client' # [client EXCEPT ![c].pc = "insert"]
        BY <3>1, <4>2 DEF TypeOK, IdleClient, WithKey
      <4>3. QED BY <4>1, <4>2
    <3>3. \A other \in Clients \ {c} : client'[other] = client[other]
      BY <3>1 DEF TypeOK
    <3>4. task' = task
      BY <1>2 DEF AddTaskFind
    <3>5. QED BY <3>2, <3>3, <3>4 DEF UpdatesFoundRow
  <2>6. QED BY <1>2, <2>1, <2>4, <2>5 DEF AddTaskFind, TypeOK
<1>3. CASE AddTaskInsert(c)
  <2>1. faults' \in 0 .. MaxFaults
    BY <1>3, SpendType DEF AddTaskInsert
  <2>2. NewRow(client[c].req, client[c].plan) \in TaskModel
    BY <1>3, NewRowType DEF AddTaskInsert, TypeOK, ClientState
  <2>3. task' \in [TaskIds -> TaskModel \cup {NoRow}]
    BY <1>3, <2>2 DEF AddTaskInsert, TypeOK
  <2>4. client' \in [Clients -> ClientState]
    BY <1>3 DEF AddTaskInsert, TypeOK, ClientState, IdleClient, Answers
  <2>5. UpdatesFoundRow'
    BY <1>3, <2>2, NoRowIsNoRow
       DEF AddTaskInsert, TypeOK, UpdatesFoundRow, IdleClient, ClientState
  <2>6. QED BY <1>3, <2>1, <2>3, <2>4, <2>5 DEF AddTaskInsert, TypeOK
<1>4. CASE AddTaskUpdate(c)
  <2> DEFINE id == client[c].id
             row == UpdatedRow(task[id], client[c].req, client[c].plan,
                               client[c].rearm)
  <2>1. faults' \in 0 .. MaxFaults
    BY <1>4, SpendType DEF AddTaskUpdate
  <2>2. /\ id \in TaskIds /\ client[c].req \in Request
        /\ client[c].plan \in Int /\ client[c].rearm \in BOOLEAN
    BY <1>4 DEF AddTaskUpdate, TypeOK, ClientState
  <2>3. task[id] \in TaskModel
    BY <1>4, <2>2 DEF AddTaskUpdate, TypeOK, UpdatesFoundRow
  <2>4. row \in TaskModel
    BY <2>2, <2>3, UpdatedRowType
  <2>5. task' = task \/ task' = [task EXCEPT ![id] = row]
    BY <1>4 DEF AddTaskUpdate
  <2>6. client' \in [Clients -> ClientState]
    BY <1>4, <2>2 DEF AddTaskUpdate, TypeOK, ClientState, IdleClient, Answers
  <2> HIDE DEF row
  <2>7. task' \in [TaskIds -> TaskModel \cup {NoRow}]
    BY <2>4, <2>5 DEF TypeOK
  <2>8. UpdatesFoundRow'
    BY <1>4, <2>4, <2>5, NoRowIsNoRow
       DEF AddTaskUpdate, TypeOK, UpdatesFoundRow, IdleClient, ClientState
  <2>9. QED BY <1>4, <2>1, <2>6, <2>7, <2>8 DEF AddTaskUpdate, TypeOK
<1>5. QED BY <1>1, <1>2, <1>3, <1>4 DEF ClientStep

(* The steps of a scheduler keep the types. *)
LEMMA SchedType ==
  ASSUME TypeInv, NEW n \in Nodes, SchedStep(n)
  PROVE  TypeInv'
<1> USE DEF TypeInv
<1>1. sched[n] \in SchedState /\ sched[n].cursor \in {0} \cup TaskIds
  BY DEF TypeOK, SchedState
<1>2. FreshSched \in SchedState
  BY DEF FreshSched, SchedState
<1>3. CASE PollTasks(n)
  <2>1. faults' \in 0 .. MaxFaults
    BY <1>3, SpendType DEF PollTasks
  <2> DEFINE rows == [id \in TaskIds |->
                        IF id \in Page(sched[n].cursor) THEN task[id] ELSE NoRow]
  <2>2. rows \in [TaskIds -> TaskModel \cup {NoRow}]
    BY DEF TypeOK
  <2> HIDE DEF rows
  <2>3. \A state : state \in {FreshSched, [pc |-> "poll", cursor |-> sched[n].cursor],
                      [pc |-> "srvs", cursor |-> sched[n].cursor, rows |-> rows]}
                    => state \in SchedState
    BY <1>1, <1>2, <2>2 DEF SchedState
  <2>4. \E state \in SchedState : sched' = [sched EXCEPT ![n] = state]
    BY <1>3, <2>3 DEF PollTasks, NoMoreTasks, PollFailed, rows
  <2>5. sched' \in [Nodes -> SchedState]
    BY <2>4 DEF TypeOK
  <2>6. QED BY <1>3, <2>1, <2>5 DEF PollTasks, TypeOK, UpdatesFoundRow
<1>4. CASE PollSrvs(n)
  <2>1. faults' \in 0 .. MaxFaults
    BY <1>4, SpendType DEF PollSrvs
  <2> DEFINE srvs == {sched[n].rows[id].callbackSrvId : id \in Read(sched[n].rows)}
                       \cap srvLive
  <2>2. sched[n].rows \in [TaskIds -> TaskModel \cup {NoRow}]
    BY <1>1, <1>4 DEF PollSrvs, SchedState
  <2>3. srvs \in SUBSET Srvs
    BY DEF TypeOK
  <2> HIDE DEF srvs
  <2>4. \A state : state \in {FreshSched, [pc |-> "poll", cursor |-> sched[n].cursor],
                      [pc |-> "routes", cursor |-> sched[n].cursor,
                       rows |-> sched[n].rows, srvs |-> srvs]}
                    => state \in SchedState
    BY <1>1, <1>2, <2>2, <2>3 DEF SchedState
  <2>5. \E state \in SchedState : sched' = [sched EXCEPT ![n] = state]
    BY <1>4, <2>4 DEF PollSrvs, NoMoreTasks, PollFailed, srvs
  <2>6. sched' \in [Nodes -> SchedState]
    BY <2>5 DEF TypeOK
  <2>7. QED BY <1>4, <2>1, <2>6 DEF PollSrvs, TypeOK, UpdatesFoundRow
<1>5. CASE PollRoutes(n)
  <2>1. faults' \in 0 .. MaxFaults
    BY <1>5, SpendType DEF PollRoutes
  <2> DEFINE rows == sched[n].rows
             ids == {id \in Read(rows) : rows[id].callbackSrvId \in sched[n].srvs}
             batch == {ToEntity(id, rows[id], rows[id].callbackSrvId \in srvRouted) :
                         id \in ids}
  <2>2. rows \in [TaskIds -> TaskModel \cup {NoRow}]
    BY <1>1, <1>5 DEF PollRoutes, SchedState
  <2>3. \A id \in ids : id \in TaskIds /\ rows[id] \in TaskModel
    BY <2>2 DEF Read
  <2>4. batch \subseteq Task
    <3>1. \A id \in ids :
            ToEntity(id, rows[id], rows[id].callbackSrvId \in srvRouted) \in Task
      <4> SUFFICES ASSUME NEW id \in ids
                   PROVE  ToEntity(id, rows[id],
                                   rows[id].callbackSrvId \in srvRouted) \in Task
        OBVIOUS
      <4> DEFINE routed == rows[id].callbackSrvId \in srvRouted
      <4>1. routed \in BOOLEAN
        OBVIOUS
      <4> HIDE DEF routed
      <4>2. ToEntity(id, rows[id], routed) \in Task
        BY <2>3, <4>1, EntityType
      <4>3. QED BY <4>2 DEF routed
    <3>2. QED BY <3>1
  <2> HIDE DEF batch
  <2>5. \A last \in ids : [pc |-> "send", cursor |-> last, batch |-> batch] \in SchedState
    BY <2>3, <2>4 DEF SchedState
  <2>6. [pc |-> "poll", cursor |-> sched[n].cursor] \in SchedState
    BY <1>1 DEF SchedState
  <2>7. \E state \in SchedState : sched' = [sched EXCEPT ![n] = state]
    BY <1>5, <2>5, <2>6 DEF PollRoutes, PollFailed, batch
  <2>8. sched' \in [Nodes -> SchedState]
    BY <2>7 DEF TypeOK
  <2>9. QED BY <1>5, <2>1, <2>8 DEF PollRoutes, TypeOK, UpdatesFoundRow
<1>6. CASE \E k \in Slots : Send(n, k)
  <2>1. PICK k \in Slots : Send(n, k)
    BY <1>6
  <2>2. sched[n].batch \subseteq Task
    BY <1>1, <2>1 DEF Send, SchedState
  <2>3. PICK t \in sched[n].batch :
          /\ sched' = [sched EXCEPT ![n] =
               IF sched[n].batch = {t}
                 THEN [pc |-> "poll", cursor |-> sched[n].cursor]
                 ELSE [pc |-> "send", cursor |-> sched[n].cursor,
                       batch |-> sched[n].batch \ {t}]]
          /\ worker' = [worker EXCEPT ![<<n, k>>] =
               IF t.routed THEN [pc |-> "lock", task |-> t] ELSE [pc |-> "dead"]]
    BY <2>1 DEF Send
  <2>4. /\ [pc |-> "poll", cursor |-> sched[n].cursor] \in SchedState
        /\ [pc |-> "send", cursor |-> sched[n].cursor,
             batch |-> sched[n].batch \ {t}] \in SchedState
    BY <1>1, <2>2 DEF SchedState
  <2>5. sched' \in [Nodes -> SchedState]
    BY <2>3, <2>4 DEF TypeOK
  <2>6. /\ [pc |-> "lock", task |-> t] \in WorkerState
        /\ [pc |-> "dead"] \in WorkerState
    BY <2>2 DEF WorkerState
  <2>7. worker' \in [Workers -> WorkerState]
    BY <2>3, <2>6 DEF TypeOK
  <2>8. QED BY <2>1, <2>5, <2>7 DEF Send, TypeOK, UpdatesFoundRow
<1>7. QED BY <1>3, <1>4, <1>5, <1>6 DEF SchedStep

(* What the end of a callback leaves the worker with: it says "running" only *)
(* of a service that runs asynchronously, also when it is an error.          *)
LEMMA CallbackEnded ==
  ASSUME NEW w, CallbackRefused(w) \/ CallbackReply(w) \/ CallbackLost(w)
  PROVE  \E reply \in {"running"} \cup Final, err \in BOOLEAN :
           /\ worker' = [worker EXCEPT ![w] =
                [pc |-> "log", task |-> worker[w].task, reply |-> reply, err |-> err]]
           /\ reply = "running" => called[RunOf(w)] = "async"
<1>1. PICK reply, err :
        /\ reply \in {"running"} \cup Final /\ err \in BOOLEAN
        /\ Replied(w, reply, err)
        /\ reply = "running" => called[RunOf(w)] = "async"
  <2>1. CASE CallbackRefused(w)
    <3>1. Replied(w, "failed", TRUE) /\ "failed" \in Final /\ "failed" # "running"
      BY <2>1 DEF CallbackRefused, Final
    <3> QED
      BY <3>1, Zenon
  <2>2. CASE CallbackReply(w)
    <3>1. CASE called[RunOf(w)] = "async"
      BY <2>2, <3>1 DEF CallbackReply
    <3>2. CASE called[RunOf(w)] # "async"
      <4>1. PICK status \in Final : Replied(w, status, FALSE)
        BY <2>2, <3>2 DEF CallbackReply
      <4>2. status # "running"
        BY DEF Final
      <4> QED
        BY <4>1, <4>2, Zenon
    <3> QED
      BY <3>1, <3>2
  <2>3. CASE CallbackLost(w)
    <3>1. PICK reply : /\ reply \in FilledReplies(w) \cup {"failed"}
                       /\ Replied(w, reply, TRUE)
      BY <2>3 DEF CallbackLost
    <3>2. reply \in {"running"} \cup Final
      BY <3>1 DEF FilledReplies, Final
    <3>3. reply = "running" => called[RunOf(w)] = "async"
      BY <3>1 DEF FilledReplies
    <3> QED
      BY <3>1, <3>2, <3>3, Zenon
  <2> QED
    BY <2>1, <2>2, <2>3
<1> QED
  BY <1>1 DEF Replied

(* The steps of a worker keep the types. *)
LEMMA WorkerType ==
  ASSUME TypeInv, NEW w \in Workers, WorkerStep(w)
  PROVE  TypeInv'
<1> USE DEF TypeInv
<1> DEFINE t == worker[w].task
<1>1. worker[w] \in WorkerState /\ IdleWorker \in WorkerState
  BY DEF TypeOK, WorkerState, IdleWorker
<1>2. worker[w].pc \in {"lock", "start", "call", "wait", "log", "confirm"}
        => t \in Task
  BY <1>1 DEF WorkerState
<1> HIDE DEF t
<1>3. CASE LockTask(w)
  <2> DEFINE row == task[t.id]
  <2>1. faults' \in 0 .. MaxFaults
    BY <1>3, SpendType DEF LockTask
  <2>2. t \in Task /\ t.id \in TaskIds
    BY <1>2, <1>3 DEF LockTask, Task
  <2>3. task' = task
        \/ /\ SameAsSnapshot(row, t)
           /\ row \in TaskModel
           /\ row.runTimes < MaxRuns
           /\ task' = [task EXCEPT ![t.id] = LockedRow(row, t, now)]
    BY <1>3, <2>2 DEF LockTask, TypeOK, SameAsSnapshot, t
  <2>4. task' = task
        \/ /\ LockedRow(row, t, now) \in TaskModel
           /\ task' = [task EXCEPT ![t.id] = LockedRow(row, t, now)]
    BY <2>2, <2>3, LockedRowType DEF TypeOK
  <2>5. task' \in [TaskIds -> TaskModel \cup {NoRow}]
    BY <2>4 DEF TypeOK
  <2>6. \/ worker' = [worker EXCEPT ![w] = IdleWorker]
        \/ /\ SameAsSnapshot(row, t)
           /\ row \in TaskModel
           /\ row.runTimes < MaxRuns
           /\ worker' = [worker EXCEPT ![w] =
                [pc |-> "start", task |-> [t EXCEPT !.runTimes = @ + 1]]]
    BY <1>3, <2>2 DEF LockTask, TypeOK, SameAsSnapshot, t
  <2>7. SameAsSnapshot(row, t) /\ row \in TaskModel /\ row.runTimes < MaxRuns
          => [t EXCEPT !.runTimes = @ + 1] \in Task
    BY <2>2, MaxRunsAssumption DEF SameAsSnapshot, TaskModel, Task
  <2>8. worker' \in [Workers -> WorkerState]
    BY <1>1, <2>6, <2>7 DEF TypeOK, WorkerState
  <2>9. UpdatesFoundRow'
    BY <1>3, <2>2, <2>4, NoRowIsNoRow DEF LockTask, TypeOK, UpdatesFoundRow
  <2>10. QED BY <1>3, <2>1, <2>5, <2>8, <2>9 DEF LockTask, TypeOK
<1>4. CASE SaveTaskStartedLog(w)
  <2>1. faults' \in 0 .. MaxFaults
    BY <1>4, SpendType DEF SaveTaskStartedLog
  <2>2. StartedLog \in TaskLogModel
    BY DEF StartedLog, TaskLogModel
  <2>3. log' \in [Run -> TaskLogModel \cup {NoLog}]
    BY <1>4, <2>2 DEF SaveTaskStartedLog, TypeOK
  <2>4. [pc |-> "call", task |-> t] \in WorkerState
    BY <1>2, <1>4 DEF SaveTaskStartedLog, WorkerState
  <2>5. worker' \in [Workers -> WorkerState]
    BY <1>1, <1>4, <2>4 DEF SaveTaskStartedLog, TypeOK, t
  <2>6. QED BY <1>4, <2>1, <2>3, <2>5
            DEF SaveTaskStartedLog, TypeOK, UpdatesFoundRow
<1>5. CASE CallbackSrv(w)
  <2>1. [pc |-> "wait", task |-> t] \in WorkerState
    BY <1>2, <1>5 DEF CallbackSrv, WorkerState
  <2>2. worker' \in [Workers -> WorkerState]
    BY <1>5, <2>1 DEF CallbackSrv, TypeOK, t
  <2>3. called' \in [Run -> {"no", "sync", "async"}]
    BY <1>5, SrvModesAssumption DEF CallbackSrv, TypeOK
  <2>4. QED BY <1>5, <2>2, <2>3 DEF CallbackSrv, TypeOK, UpdatesFoundRow
<1>6. CASE CallbackRefused(w) \/ CallbackReply(w) \/ CallbackLost(w)
  <2>1. PICK reply \in {"running"} \cup Final, err \in BOOLEAN :
          worker' = [worker EXCEPT ![w] =
            [pc |-> "log", task |-> t, reply |-> reply, err |-> err]]
    BY <1>6, CallbackEnded DEF t
  <2>2. worker[w].pc \in {"call", "wait"}
    BY <1>6 DEF CallbackRefused, CallbackReply, CallbackLost
  <2>3. t \in Task
    BY <1>2, <2>2
  <2>4. [pc |-> "log", task |-> t, reply |-> reply, err |-> err] \in WorkerState
    BY <2>3 DEF WorkerState
  <2>5. worker' \in [Workers -> WorkerState]
    BY <2>1, <2>4 DEF TypeOK
  <2>6. faults' \in 0 .. MaxFaults
    <3>1. faults \in 0 .. MaxFaults
      BY DEF TypeOK
    <3>2. CASE CallbackRefused(w)
      BY <3>1, <3>2, BoundsAssumption DEF CallbackRefused, Fault
    <3>3. CASE CallbackReply(w)
      BY <3>1, <3>3 DEF CallbackReply
    <3>4. CASE CallbackLost(w)
      <4>1. PICK break \in Breaks(w) :
              faults' = IF break = "net" THEN faults + 1 ELSE faults
        BY <3>4 DEF CallbackLost
      <4>2. break = "net" => faults < MaxFaults
        BY <4>1 DEF Breaks
      <4> QED
        BY <3>1, <4>1, <4>2, BoundsAssumption
    <3> QED
      BY <1>6, <3>2, <3>3, <3>4
  <2>7. QED BY <1>6, <2>5, <2>6
            DEF CallbackRefused, CallbackReply, CallbackLost, TypeOK, UpdatesFoundRow
<1>7. CASE SaveTaskCallbackLog(w)
  <2>1. faults' \in 0 .. MaxFaults
    BY <1>7, SpendType DEF SaveTaskCallbackLog
  <2>2. log' \in [Run -> TaskLogModel \cup {NoLog}]
    <3>1. \A status :
            \A r \in Run : CallbackLog(log[r], status) \in TaskLogModel \cup {NoLog}
      BY CallbackLogType DEF TypeOK
    <3>2. \/ log' = log
          \/ \E status : log' = [log EXCEPT ![RunOf(w)] =
                                  CallbackLog(log[RunOf(w)], status)]
      BY <1>7 DEF SaveTaskCallbackLog
    <3>3. QED BY <3>1, <3>2 DEF TypeOK
  <2>3. [worker[w] EXCEPT !.pc = "confirm"] \in WorkerState
    BY <1>1, <1>7 DEF SaveTaskCallbackLog, WorkerState
  <2>4. worker' \in [Workers -> WorkerState]
    BY <1>7, <2>3 DEF SaveTaskCallbackLog, TypeOK
  <2>5. QED BY <1>7, <2>1, <2>2, <2>4
            DEF SaveTaskCallbackLog, TypeOK, UpdatesFoundRow
<1>8. CASE SubmitTaskResp(w)
  <2>1. faults' \in 0 .. MaxFaults
    BY <1>8, SpendType DEF SubmitTaskResp
  <2>2. log' \in [Run -> TaskLogModel \cup {NoLog}]
    <3>1. \A status :
            \A r \in Run : ConfirmedLog(log[r], status, "reply")
                            \in TaskLogModel \cup {NoLog}
      BY ConfirmedLogType DEF TypeOK
    <3>2. \/ log' = log
          \/ \E status : log' = [log EXCEPT ![RunOf(w)] =
                                  ConfirmedLog(log[RunOf(w)], status, "reply")]
      BY <1>8 DEF SubmitTaskResp
    <3>3. QED BY <3>1, <3>2 DEF TypeOK
  <2>3. worker' \in [Workers -> WorkerState]
    BY <1>1, <1>8 DEF SubmitTaskResp, TypeOK
  <2>4. QED BY <1>8, <2>1, <2>2, <2>3 DEF SubmitTaskResp, TypeOK, UpdatesFoundRow
<1>9. QED
  BY <1>3, <1>4, <1>5, <1>6, <1>7, <1>8 DEF WorkerStep

(* stop_task and confirm_task keep the types. *)
LEMMA StopTaskType ==
  ASSUME TypeInv, NEW id \in TaskIds, StopTask(id)
  PROVE  TypeInv'
<1> USE DEF TypeInv
<1>1. task[id] \in TaskModel
  BY DEF StopTask, TypeOK
<1>2. [task[id] EXCEPT !.state = "deleted"] \in TaskModel
  BY <1>1 DEF TaskModel
<1>3. task' = [task EXCEPT ![id] = [task[id] EXCEPT !.state = "deleted"]]
  BY DEF StopTask
<1>4. task' \in [TaskIds -> TaskModel \cup {NoRow}]
  BY <1>2, <1>3 DEF TypeOK
<1>5. calls' \in 0 .. MaxCalls
  BY BoundsAssumption DEF StopTask, ApiCall, TypeOK
<1>6. UpdatesFoundRow'
  <2>1. \A other \in TaskIds : task[other] # NoRow => task'[other] # NoRow
    BY <1>2, <1>3, NoRowIsNoRow DEF TypeOK
  <2>2. \A c \in Clients : client[c].pc = "update" => client[c].id \in TaskIds
    BY DEF TypeOK, ClientState
  <2>3. client' = client
    BY DEF StopTask
  <2>4. QED BY <2>1, <2>2, <2>3 DEF UpdatesFoundRow
<1>7. QED BY <1>4, <1>5, <1>6 DEF StopTask, TypeOK

(* The maintenance tool keeps the types: what it removes stays as a ghost. *)
LEMMA ClearExpiredTaskLogsType ==
  ASSUME TypeInv, NEW first \in TaskIds, ClearExpiredTaskLogs(first)
  PROVE  TypeInv'
<1> USE DEF TypeInv
<1>1. \A id \in TaskIds :
        \/ task'[id] = task[id]
        \/ /\ task[id] \in TaskModel
           /\ task'[id] = [task[id] EXCEPT !.state = "gone"]
  BY DEF ClearExpiredTaskLogs, TypeOK
<1>2. \A row \in TaskModel : [row EXCEPT !.state = "gone"] \in TaskModel
  BY DEF TaskModel
<1>3. \A id \in TaskIds : task'[id] = task[id] \/ task'[id] \in TaskModel
  <2> SUFFICES ASSUME NEW id \in TaskIds, task'[id] # task[id]
               PROVE  task'[id] \in TaskModel
    OBVIOUS
  <2>1. PICK row \in TaskModel : task'[id] = [row EXCEPT !.state = "gone"]
    BY <1>1
  <2>2. QED BY <1>2, <2>1
<1>4. task' \in [TaskIds -> TaskModel \cup {NoRow}]
  <2>1. task' = [id \in TaskIds |-> task'[id]]
    BY DEF ClearExpiredTaskLogs
  <2>2. QED BY <1>3, <2>1 DEF TypeOK
<1>5. calls' \in 0 .. MaxCalls
  BY BoundsAssumption DEF ClearExpiredTaskLogs, ApiCall, TypeOK
<1>6. UpdatesFoundRow'
  <2>1. \A id \in TaskIds : task[id] # NoRow => task'[id] # NoRow
    BY <1>3, NoRowIsNoRow
  <2>2. \A c \in Clients : client[c].pc = "update" => client[c].id \in TaskIds
    BY DEF TypeOK, ClientState
  <2>3. client' = client
    BY DEF ClearExpiredTaskLogs
  <2>4. QED BY <2>1, <2>2, <2>3 DEF UpdatesFoundRow
<1>7. QED BY <1>4, <1>5, <1>6 DEF ClearExpiredTaskLogs, TypeOK

LEMMA ConfirmTaskType ==
  ASSUME TypeInv, NEW r \in Run, NEW status \in Final, ConfirmTask(r, status)
  PROVE  TypeInv'
<1> USE DEF TypeInv
<1>1. faults' \in 0 .. MaxFaults
  BY SpendType DEF ConfirmTask
<1>2. calls' \in 0 .. MaxCalls
  BY BoundsAssumption DEF ConfirmTask, ApiCall, TypeOK
<1>3. ConfirmedLog(log[r], status, "confirm") \in TaskLogModel \cup {NoLog}
  BY ConfirmedLogType DEF TypeOK
<1>4. log' \in [Run -> TaskLogModel \cup {NoLog}]
  BY <1>3 DEF ConfirmTask, TypeOK
<1>5. confirmed' \in [Run -> {"no"} \cup Final]
  BY DEF ConfirmTask, TypeOK
<1>6. QED BY <1>1, <1>2, <1>4, <1>5 DEF ConfirmTask, TypeOK, UpdatesFoundRow

(* A crash puts the process in its initial state. *)
LEMMA CrashType ==
  ASSUME TypeInv, NEW n \in Nodes, Crash(n)
  PROVE  TypeInv'
<1> USE DEF TypeInv
<1>1. sched' \in [Nodes -> SchedState]
  BY DEF Crash, TypeOK, FreshSched, SchedState
<1>2. worker' \in [Workers -> WorkerState]
  BY DEF Crash, TypeOK, IdleWorker, WorkerState
<1>3. IdleClient(NoId) \in ClientState
  BY DEF IdleClient, ClientState, Answers
<1>4. client' \in [Clients -> ClientState]
  BY <1>3 DEF Crash, TypeOK
<1>5. faults' \in 0 .. MaxFaults
  BY BoundsAssumption DEF Crash, Fault, TypeOK
<1>6. \A c \in Clients : client'[c].pc = "update" => client'[c] = client[c]
  BY DEF Crash, IdleClient
<1>7. UpdatesFoundRow'
  <2>1. task' = task
    BY DEF Crash
  <2>2. QED BY <1>6, <2>1 DEF UpdatesFoundRow
<1>8. QED BY <1>1, <1>2, <1>4, <1>5, <1>7 DEF Crash, TypeOK

(* Every step keeps the types. *)
LEMMA TypeStep == TypeInv /\ [Next]_vars => TypeInv'
<1> SUFFICES ASSUME TypeInv, [Next]_vars PROVE TypeInv'
  OBVIOUS
<1>1. CASE \E c \in Clients : ClientStep(c)
  BY <1>1, ClientType
<1>2. CASE \E id \in TaskIds : StopTask(id)
  BY <1>2, StopTaskType
<1>3. CASE \E r \in Run, status \in Final : ConfirmTask(r, status)
  BY <1>3, ConfirmTaskType
<1>4. CASE \E n \in Nodes : SchedStep(n)
  BY <1>4, SchedType
<1>5. CASE \E n \in Nodes : Elect(n) \/ Depose(n)
  BY <1>5 DEF Elect, Depose, TypeInv, TypeOK, UpdatesFoundRow
<1>6. CASE \E n \in Nodes : Crash(n)
  BY <1>6, CrashType
<1>7. CASE \E w \in Workers : WorkerStep(w)
  BY <1>7, WorkerType
<1>8. CASE \E s \in Srvs : RegistryStep(s)
  BY <1>8 DEF RegistryStep, TypeInv, TypeOK, UpdatesFoundRow
<1>9. CASE Tick
  <2>1. now' \in 1 .. MaxTime
    BY <1>9, MaxTimeAssumption DEF Tick, TypeInv, TypeOK
  <2>2. QED BY <1>9, <2>1 DEF Tick, TypeInv, TypeOK, UpdatesFoundRow
<1>10. CASE UNCHANGED vars
  BY <1>10 DEF vars, TypeInv, TypeOK, UpdatesFoundRow
<1>11. CASE \E id \in TaskIds : ClearExpiredTaskLogs(id)
  BY <1>11, ClearExpiredTaskLogsType
<1>12. QED
  BY <1>1, <1>2, <1>3, <1>4, <1>5, <1>6, <1>7, <1>8, <1>9, <1>10, <1>11 DEF Next

(* Every reachable state is well typed: no statement writes a row outside the *)
(* table's type, no goroutine holds a snapshot or an id that is none.         *)
THEOREM TypeCorrect == Spec => []TypeOK
<1>1. Init => TypeInv
  BY TypeInit
<1>2. TypeInv /\ [Next]_vars => TypeInv'
  BY TypeStep
<1>3. TypeInv => TypeOK
  BY DEF TypeInv
<1>4. QED BY <1>1, <1>2, <1>3, PTL DEF Spec
==============================================================================
