---------------------------- MODULE ScheduleProofs ----------------------------
(***************************************************************************)
(* When a task may run and how often: a claim is not early unless an        *)
(* add_task moved the plan under the scheduler's snapshot, and a one-shot   *)
(* runs at most once, or once for each time it was asked for; proved for    *)
(* any number of clients, nodes, workers and failures.                      *)
(***************************************************************************)
EXTENDS ClaimProofs, FiniteSetTheorems

USE DEF InTable, Live

-----------------------------------------------------------------------------
(* What loops and workers hold of the table *)

(* One turn of a loop: it starts again, reads rows that are due, looks up    *)
(* their services and makes tasks of the rows, or offers a task.             *)
Reads(n) ==
  /\ sched'[n].pc = "srvs"
  /\ \A id \in TaskIds : sched'[n].rows[id] # NoRow =>
       sched'[n].rows[id] = task[id] /\ IsTimeout(task[id], now)

LooksUp(n) ==
  /\ sched[n].pc = "srvs" /\ sched'[n].pc = "routes"
  /\ sched'[n].rows = sched[n].rows

MakesTasks(n) ==
  /\ sched[n].pc = "routes" /\ sched'[n].pc = "send"
  /\ \A t \in sched'[n].batch : \E id \in TaskIds, routed \in BOOLEAN :
       sched[n].rows[id] # NoRow /\ t = ToEntity(id, sched[n].rows[id], routed)

Offers(n) ==
  /\ sched[n].pc = "send" /\ sched'[n].pc = "send"
  /\ sched'[n].batch \subseteq sched[n].batch

LoopTurn(n) ==
  \/ sched'[n].pc = "poll"
  \/ /\ UNCHANGED <<task, now>>
     /\ Reads(n) \/ LooksUp(n) \/ MakesTasks(n) \/ Offers(n)

LEMMA LoopTurns ==
  ASSUME TypeInv, NEW n \in Nodes, SchedStep(n)
  PROVE  LoopTurn(n)
<1>1. CASE PollTasks(n)
  <2> DEFINE ids == Page(sched[n].cursor)
             rows == [id \in TaskIds |-> IF id \in ids THEN task[id] ELSE NoRow]
  <2>1. \A id \in TaskIds : rows[id] # NoRow => rows[id] = task[id] /\ IsTimeout(task[id], now)
    BY DEF Page, Timeouts
  <2> HIDE DEF rows
  <2>2. \/ sched' = [sched EXCEPT ![n] = FreshSched]
        \/ sched' = [sched EXCEPT ![n] = [pc |-> "poll", cursor |-> sched[n].cursor]]
        \/ sched' = [sched EXCEPT ![n] =
                       [pc |-> "srvs", cursor |-> sched[n].cursor, rows |-> rows]]
    BY <1>1 DEF PollTasks, NoMoreTasks, PollFailed, rows
  <2>3. sched'[n].pc = "poll" \/ (sched'[n].pc = "srvs" /\ sched'[n].rows = rows)
    BY <2>2 DEF FreshSched, TypeInv, TypeOK
  <2> QED
    BY <1>1, <2>1, <2>3 DEF PollTasks, LoopTurn, Reads
<1>2. CASE PollSrvs(n)
  BY <1>2 DEF PollSrvs, NoMoreTasks, PollFailed, FreshSched, LoopTurn, LooksUp,
              TypeInv, TypeOK
<1>3. CASE PollRoutes(n)
  <2> DEFINE rows == sched[n].rows
             ids == {id \in Read(rows) : rows[id].callbackSrvId \in sched[n].srvs}
             batch == {ToEntity(id, rows[id], rows[id].callbackSrvId \in srvRouted) :
                         id \in ids}
  <2>1. ASSUME NEW t \in batch
        PROVE  \E id \in TaskIds, routed \in BOOLEAN :
                 rows[id] # NoRow /\ t = ToEntity(id, rows[id], routed)
    <3>1. PICK id \in ids : t = ToEntity(id, rows[id], rows[id].callbackSrvId \in srvRouted)
      OBVIOUS
    <3>2. id \in TaskIds /\ rows[id] # NoRow
      BY <3>1 DEF Read
    <3>3. (rows[id].callbackSrvId \in srvRouted) \in BOOLEAN
      OBVIOUS
    <3> QED
      BY <3>1, <3>2, <3>3
  <2> HIDE DEF batch
  <2>2. \/ sched' = [sched EXCEPT ![n] = [pc |-> "poll", cursor |-> sched[n].cursor]]
        \/ \E last \in ids : sched' = [sched EXCEPT ![n] =
                       [pc |-> "send", cursor |-> last, batch |-> batch]]
    BY <1>3 DEF PollRoutes, PollFailed, batch
  <2>3. sched'[n].pc = "poll" \/ (sched'[n].pc = "send" /\ sched'[n].batch = batch)
    BY <2>2 DEF TypeInv, TypeOK
  <2> QED
    BY <1>3, <2>1, <2>3 DEF PollRoutes, LoopTurn, MakesTasks
<1>4. ASSUME NEW k \in Slots, Send(n, k) PROVE LoopTurn(n)
  BY <1>4 DEF Send, LoopTurn, Offers, TypeInv, TypeOK
<1> QED
  BY <1>1, <1>2, <1>3, <1>4 DEF SchedStep

(* In any other step a loop stays where it is, or starts again.              *)
LEMMA LoopsTurn ==
  ASSUME TypeInv, [Next]_vars, NEW n \in Nodes
  PROVE  sched'[n] = sched[n] \/ LoopTurn(n)
<1>1. ASSUME NEW m \in Nodes, m # n, SchedStep(m) PROVE sched'[n] = sched[n]
  BY <1>1 DEF SchedStep, PollTasks, PollSrvs, PollRoutes, Send, NoMoreTasks, PollFailed,
              TypeInv, TypeOK
<1>2. ASSUME NEW m \in Nodes, Crash(m) PROVE sched'[n] = sched[n] \/ sched'[n].pc = "poll"
  BY <1>2 DEF Crash, FreshSched, TypeInv, TypeOK
<1>3. CASE SchedStep(n)
  BY <1>3, LoopTurns
<1> QED
  BY <1>1, <1>2, <1>3
     DEF LoopTurn, Next, ClientStep, WorkerStep, vars, AddTask, AddTaskFind,
         AddTaskInsert, AddTaskUpdate, StopTask, ClearExpiredTaskLogs, ConfirmTask,
         Elect, Depose, LockTask, SaveTaskStartedLog, CallbackSrv, CallbackRefused,
         CallbackReply, CallbackLost, SaveTaskCallbackLog, SubmitTaskResp,
         RegistryStep, Tick

(* A worker that is about to claim has its task from its scheduler's list.   *)
Taken(w) ==
  /\ UNCHANGED <<task, now>>
  /\ \E n \in Nodes : sched[n].pc = "send" /\ worker'[w].task \in sched[n].batch

LEMMA LockersTake ==
  ASSUME TypeInv, [Next]_vars, NEW w \in Workers, worker'[w].pc = "lock"
  PROVE  worker'[w] = worker[w] \/ Taken(w)
<1>1. ASSUME NEW n \in Nodes, NEW k \in Slots, Send(n, k)
      PROVE  worker'[w] = worker[w] \/ Taken(w)
  <2>1. PICK t \in sched[n].batch :
          worker' = [worker EXCEPT ![<<n, k>>] =
                       IF t.routed THEN [pc |-> "lock", task |-> t] ELSE [pc |-> "dead"]]
    BY <1>1 DEF Send
  <2>2. worker'[w] = worker[w] \/ worker'[w].task = t
    BY <2>1 DEF TypeInv, TypeOK
  <2> QED
    BY <1>1, <2>2 DEF Send, Taken
<1>2. ASSUME NEW v \in Workers, WorkerStep(v) PROVE worker'[w] = worker[w]
  <2>1. CASE LockTask(v) \/ SaveTaskStartedLog(v) \/ CallbackSrv(v) \/ SubmitTaskResp(v)
    BY <2>1 DEF LockTask, SaveTaskStartedLog, CallbackSrv, SubmitTaskResp, IdleWorker,
                TypeInv, TypeOK
  <2>2. CASE CallbackRefused(v) \/ CallbackReply(v) \/ CallbackLost(v)
    BY <2>2, CallbackEnded DEF TypeInv, TypeOK
  <2>3. CASE SaveTaskCallbackLog(v)
    <3>1. worker[v] \in [pc : {"log", "confirm"}, task : Task,
                         reply : {"running"} \cup Final, err : BOOLEAN]
      BY <2>3 DEF SaveTaskCallbackLog, TypeInv, TypeOK, WorkerState
    <3> QED
      BY <2>3, <3>1 DEF SaveTaskCallbackLog, TypeInv, TypeOK
  <2> QED
    BY <1>2, <2>1, <2>2, <2>3 DEF WorkerStep
<1>3. ASSUME NEW n \in Nodes, Crash(n) PROVE worker'[w] = worker[w]
  BY <1>3 DEF Crash, IdleWorker
<1> QED
  BY <1>1, <1>2, <1>3
     DEF Next, ClientStep, SchedStep, vars, AddTask, AddTaskFind, AddTaskInsert,
         AddTaskUpdate, StopTask, ClearExpiredTaskLogs, ConfirmTask, Elect, Depose,
         PollTasks, PollSrvs, PollRoutes, RegistryStep, Tick

-----------------------------------------------------------------------------
(* One-shots *)

(* Every add_task of the key asks for this moment.                           *)
ShotAt(key, at) == \A req \in Requests : req.key = key => req.param = at

LEMMA ShotRequest ==
  ASSUME NEW req \in Requests, req.key \in OneShotKeys
  PROVE  req.mode = "spec" /\ ShotAt(req.key, req.param)
  BY DEF OneShotKeys, ShotAt

(* Why it holds: wherever the plan of a one-shot is, in its row, in an        *)
(* add_task call, in a scheduler's page or on its way to a worker, it is the *)
(* one moment everybody asks for, so no add_task re-arms the task; and what   *)
(* schedulers and workers hold are snapshots of it from before its run, which *)
(* the compare-and-set refuses once it has run.                               *)
ShotRow(row) ==
  row # NoRow /\ row.key \in OneShotKeys =>
    /\ row.mode = "spec"
    /\ ShotAt(row.key, row.planSchedNextAt)
    /\ row.allowMaxRunTimes = 1
    /\ row.runTimes <= 1

ShotCall(c) ==
  client[c].pc \in {"find", "insert", "update"} =>
    /\ client[c].req \in Requests
    /\ client[c].req.key \in OneShotKeys => client[c].plan = client[c].req.param
    /\ client[c].pc = "update" =>
         /\ task[client[c].id] # NoRow
         /\ task[client[c].id].key = client[c].req.key
         /\ client[c].req.key \in OneShotKeys => client[c].rearm = FALSE

ShotSnapshot(id, row) ==
  row # NoRow =>
    /\ task[id] # NoRow
    /\ task[id].key \in OneShotKeys =>
         /\ row.mode = "spec"
         /\ ShotAt(task[id].key, row.planSchedNextAt)
         /\ row.runTimes = 0

ShotTask(t) ==
  /\ task[t.id] # NoRow
  /\ task[t.id].key \in OneShotKeys =>
       /\ t.mode = "spec"
       /\ ShotAt(task[t.id].key, t.timeSpecAt)
       /\ t.runTimes = 0

ShotLoop(n) ==
  /\ sched[n].pc \in {"srvs", "routes"} =>
       \A id \in TaskIds : ShotSnapshot(id, sched[n].rows[id])
  /\ sched[n].pc = "send" => \A t \in sched[n].batch : ShotTask(t)

ShotWorker(w) == worker[w].pc = "lock" => ShotTask(worker[w].task)

OneShotInv ==
  /\ \A id \in TaskIds : ShotRow(task[id])
  /\ \A c \in Clients : ShotCall(c)
  /\ \A n \in Nodes : ShotLoop(n)
  /\ \A w \in Workers : ShotWorker(w)

LEMMA OneShotInit == Init => OneShotInv
  BY DEF Init, OneShotInv, ShotRow, ShotCall, ShotLoop, ShotWorker, IdleClient,
         FreshSched, IdleWorker

-----------------------------------------------------------------------------
(* The table *)

(* Rows keep their key, and stay.                                            *)
KeysKept ==
  \A id \in TaskIds : task[id] # NoRow => task'[id] # NoRow /\ task'[id].key = task[id].key

ShotRowsKept == KeysKept /\ \A id \in TaskIds : ShotRow(task'[id])

(* One row is rewritten, or inserted.                                        *)
LEMMA RowWritten ==
  ASSUME TypeInv, OneShotInv, NEW id \in TaskIds, NEW row \in TaskModel,
         task' = [task EXCEPT ![id] = row],
         task[id] # NoRow => row.key = task[id].key,
         ShotRow(row)
  PROVE  ShotRowsKept
<1>1. row # NoRow
  BY NoRowIsNoRow
<1>2. task'[id] = row /\ \A other \in TaskIds \ {id} : task'[other] = task[other]
  BY DEF TypeInv, TypeOK
<1>3. KeysKept
  BY <1>1, <1>2 DEF KeysKept
<1>4. \A other \in TaskIds : ShotRow(task'[other])
  BY <1>2 DEF OneShotInv
<1> QED
  BY <1>3, <1>4 DEF ShotRowsKept

LEMMA RowsUntouched ==
  ASSUME OneShotInv, UNCHANGED task
  PROVE  ShotRowsKept
  BY DEF ShotRowsKept, KeysKept, OneShotInv

(* add_task inserts the row of a one-shot with the moment asked for, ...     *)
LEMMA InsertKeepsRows ==
  ASSUME TypeInv, OneShotInv, NEW c \in Clients, AddTaskInsert(c)
  PROVE  ShotRowsKept
<1> DEFINE req == client[c].req
           row == NewRow(client[c].req, client[c].plan)
<1>1. req \in Requests /\ (req.key \in OneShotKeys => client[c].plan = req.param)
  BY DEF AddTaskInsert, OneShotInv, ShotCall
<1>2. row \in TaskModel
  BY NewRowType DEF AddTaskInsert, TypeInv, TypeOK, ClientState
<1>3. /\ row.key = req.key /\ row.mode = req.mode /\ row.planSchedNextAt = client[c].plan
      /\ row.allowMaxRunTimes = AllowMaxRunTimes(req.mode) /\ row.runTimes = 0
  BY DEF NewRow
<1>4. ShotRow(row)
  BY <1>1, <1>3, ShotRequest DEF ShotRow, AllowMaxRunTimes
<1> HIDE DEF row
<1>5. UNCHANGED task \/ \E id \in TaskIds : task[id] = NoRow /\ task' = [task EXCEPT ![id] = row]
  BY DEF AddTaskInsert, IsNextId, row
<1> QED
  BY <1>2, <1>4, <1>5, RowWritten, RowsUntouched

(* ... and an add_task that finds it leaves it one run, as it had.           *)
LEMMA UpdateKeepsRows ==
  ASSUME TypeInv, OneShotInv, NEW c \in Clients, AddTaskUpdate(c)
  PROVE  ShotRowsKept
<1> DEFINE req == client[c].req
           id == client[c].id
           row == UpdatedRow(task[id], req, client[c].plan, client[c].rearm)
<1>1. /\ req \in Requests /\ task[id] # NoRow /\ task[id].key = req.key
      /\ req.key \in OneShotKeys => client[c].plan = req.param /\ client[c].rearm = FALSE
  BY DEF AddTaskUpdate, OneShotInv, ShotCall
<1>2. /\ id \in TaskIds /\ req \in Request
      /\ client[c].plan \in Int /\ client[c].rearm \in BOOLEAN
  BY DEF AddTaskUpdate, TypeInv, TypeOK, ClientState
<1>3. task[id] \in TaskModel
  BY <1>1, <1>2 DEF TypeInv, TypeOK
<1>4. row \in TaskModel /\ row.runTimes = task[id].runTimes
  BY <1>2, <1>3, UpdatedRowType
<1>5. /\ row.key = task[id].key /\ row.mode = req.mode /\ row.planSchedNextAt = client[c].plan
      /\ client[c].rearm = FALSE => row.allowMaxRunTimes = AllowMaxRunTimes(req.mode) + 0
  BY <1>3 DEF UpdatedRow, TaskModel
<1>6. req.mode = "spec" => AllowMaxRunTimes(req.mode) + 0 = 1
  BY DEF AllowMaxRunTimes
<1>7. ShotRow(task[id])
  BY <1>2 DEF OneShotInv
<1> HIDE DEF row
<1>8. ShotRow(row)
  BY <1>1, <1>4, <1>5, <1>6, <1>7, ShotRequest DEF ShotRow
<1>9. UNCHANGED task \/ task' = [task EXCEPT ![id] = row]
  BY DEF AddTaskUpdate, row
<1> QED
  BY <1>2, <1>4, <1>5, <1>8, <1>9, RowWritten, RowsUntouched

(* A claim counts the one run, and plans the moment it had.                  *)
LEMMA LockKeepsRows ==
  ASSUME TypeInv, OneShotInv, NEW w \in Workers, LockTask(w)
  PROVE  ShotRowsKept
<1> DEFINE t == worker[w].task
           row == task[t.id]
           next == LockedRow(row, t, now)
<1>1. CASE UNCHANGED task
  BY <1>1, RowsUntouched
<1>2. CASE ~UNCHANGED task
  <2>1. /\ SameAsSnapshot(row, t) /\ row.runTimes < MaxRuns
        /\ task' = [task EXCEPT ![t.id] = next]
    BY <1>2 DEF LockTask
  <2>2. t \in Task /\ t.id \in TaskIds
    BY DEF LockTask, TypeInv, TypeOK, WorkerState, Task
  <2>3. row \in TaskModel
    BY <2>1, <2>2 DEF SameAsSnapshot, TypeInv, TypeOK
  <2>4. next \in TaskModel /\ next.runTimes = row.runTimes + 1
    BY <2>1, <2>2, <2>3, LockedRowType DEF TypeInv, TypeOK
  <2>5. /\ next.key = row.key /\ next.mode = row.mode
        /\ next.allowMaxRunTimes = row.allowMaxRunTimes
        /\ next.planSchedNextAt = SchedNextAt(t.mode, t.param, t.timeSpecAt, now)
    BY <2>3 DEF LockedRow, TaskModel
  <2>6. t.mode = "spec" => SchedNextAt(t.mode, t.param, t.timeSpecAt, now) = t.timeSpecAt
    BY DEF SchedNextAt
  <2>7. ShotRow(row) /\ ShotTask(t) /\ row.runTimes = t.runTimes
    BY <2>1, <2>2 DEF OneShotInv, ShotWorker, LockTask, SameAsSnapshot
  <2> HIDE DEF next
  <2>8. ShotRow(next)
    BY <2>1, <2>4, <2>5, <2>6, <2>7 DEF ShotRow, ShotTask, SameAsSnapshot
  <2> QED
    BY <2>1, <2>2, <2>4, <2>5, <2>8, RowWritten
<1> QED
  BY <1>1, <1>2

LEMMA RowsStep == TypeInv /\ OneShotInv /\ [Next]_vars => ShotRowsKept
<1> SUFFICES ASSUME TypeInv, OneShotInv, [Next]_vars PROVE ShotRowsKept
  OBVIOUS
<1>1. ASSUME NEW id \in TaskIds, StopTask(id) PROVE ShotRowsKept
  <2>1. task[id] \in TaskModel /\ ShotRow(task[id])
    BY <1>1 DEF StopTask, TypeInv, TypeOK, OneShotInv
  <2> DEFINE row == [task[id] EXCEPT !.state = "deleted"]
  <2>2. row \in TaskModel /\ row.key = task[id].key /\ ShotRow(row)
    BY <2>1, NoRowIsNoRow DEF TaskModel, ShotRow
  <2> QED
    BY <1>1, <2>2, RowWritten DEF StopTask
<1>2. ASSUME NEW first \in TaskIds, ClearExpiredTaskLogs(first) PROVE ShotRowsKept
  <2> SUFFICES ASSUME NEW id \in TaskIds
               PROVE  /\ task[id] # NoRow => task'[id] # NoRow /\ task'[id].key = task[id].key
                      /\ ShotRow(task'[id])
    BY DEF ShotRowsKept, KeysKept
  <2>1. \/ task'[id] = task[id]
        \/ task[id] # NoRow /\ task'[id] = [task[id] EXCEPT !.state = "gone"]
    BY <1>2 DEF ClearExpiredTaskLogs
  <2>2. ShotRow(task[id]) /\ task[id] \in TaskModel \cup {NoRow}
    BY DEF OneShotInv, TypeInv, TypeOK
  <2>3. task[id] \in TaskModel =>
          /\ [task[id] EXCEPT !.state = "gone"] \in TaskModel
          /\ \A f \in {"key", "mode", "planSchedNextAt", "allowMaxRunTimes", "runTimes"} :
               [task[id] EXCEPT !.state = "gone"][f] = task[id][f]
    BY DEF TaskModel
  <2> QED
    BY <2>1, <2>2, <2>3, NoRowIsNoRow DEF ShotRow
<1>3. CASE UNCHANGED task
  BY <1>3, RowsUntouched
<1> QED
  BY <1>1, <1>2, <1>3, InsertKeepsRows, UpdateKeepsRows, LockKeepsRows
     DEF Next, ClientStep, SchedStep, WorkerStep, vars, AddTask, AddTaskFind,
         ConfirmTask, PollTasks, PollSrvs, PollRoutes, Send, Elect, Depose, Crash,
         SaveTaskStartedLog, CallbackSrv, CallbackRefused, CallbackReply,
         CallbackLost, SaveTaskCallbackLog, SubmitTaskResp, RegistryStep, Tick

-----------------------------------------------------------------------------
(* Calls, pages and workers *)

(* What was read of a row stays what it was.                                 *)
LEMMA SnapshotKept ==
  ASSUME KeysKept, NEW id \in TaskIds, NEW row, ShotSnapshot(id, row)
  PROVE  ShotSnapshot(id, row)'
  BY DEF KeysKept, ShotSnapshot

LEMMA TaskKept ==
  ASSUME KeysKept, NEW t, t.id \in TaskIds, ShotTask(t)
  PROVE  ShotTask(t)'
  BY DEF KeysKept, ShotTask

LEMMA CallUntouched ==
  ASSUME TypeInv, KeysKept, NEW c \in Clients, ShotCall(c), client'[c] = client[c]
  PROVE  ShotCall(c)'
<1>1. client[c].pc = "update" => client[c].id \in TaskIds
  BY DEF TypeInv, TypeOK, ClientState
<1> QED
  BY <1>1 DEF ShotCall, KeysKept

(* A call that goes on, or is over.                                          *)
LEMMA CallsStep ==
  ASSUME TypeInv, OneShotInv, [Next]_vars, KeysKept, NEW c \in Clients
  PROVE  ShotCall(c)'
<1>0. ShotCall(c)
  BY DEF OneShotInv
<1>1. CASE client'[c] = client[c]
  BY <1>0, <1>1, CallUntouched
<1>2. CASE client'[c].pc = "idle"
  BY <1>2 DEF ShotCall
<1>3. ASSUME NEW d \in Clients, NEW req \in Requests, AddTask(d, req) PROVE ShotCall(c)'
  <2>1. CASE req.srv \in srvLive /\ d = c
    <3>1. client'[c] = [pc |-> "find", req |-> req,
                        plan |-> SchedNextAt(req.mode, req.param, req.param, now)]
      BY <1>3, <2>1 DEF AddTask, TypeInv, TypeOK
    <3>2. req.mode = "spec" => SchedNextAt(req.mode, req.param, req.param, now) = req.param
      BY DEF SchedNextAt
    <3> DEFINE plan == SchedNextAt(req.mode, req.param, req.param, now)
    <3> HIDE DEF plan
    <3>3. client'[c].pc = "find" /\ client'[c].req = req /\ client'[c].plan = plan
      BY <3>1 DEF plan
    <3>4. req.mode = "spec" => plan = req.param
      BY <3>2 DEF plan
    <3> QED
      BY <3>3, <3>4, ShotRequest DEF ShotCall
  <2>2. CASE ~(req.srv \in srvLive /\ d = c)
    <3>1. client'[c] = client[c] \/ client'[c].pc = "idle"
      BY <1>3, <2>2 DEF AddTask, TypeInv, TypeOK, IdleClient
    <3> QED
      BY <3>1, <1>1, <1>2
  <2> QED
    BY <2>1, <2>2
<1>4. ASSUME NEW d \in Clients, AddTaskFind(d) PROVE ShotCall(c)'
  <2>1. d # c => client'[c] = client[c]
    BY <1>4 DEF AddTaskFind, TypeInv, TypeOK
  <2> SUFFICES ASSUME d = c PROVE ShotCall(c)'
    BY <1>1, <2>1
  <2> DEFINE req == client[c].req
             plan == client[c].plan
  <2>2. /\ client[c].pc = "find" /\ req \in Requests
        /\ req.key \in OneShotKeys => plan = req.param
    BY <1>0, <1>4 DEF AddTaskFind, ShotCall
  <2>3. client[c] \in [pc : {"find", "insert"}, req : Request, plan : Int]
    BY <2>2 DEF TypeInv, TypeOK, ClientState
  <2>4. CASE client' = [client EXCEPT ![c].pc = "insert"]
    <3>1. client'[c].pc = "insert" /\ client'[c].req = req /\ client'[c].plan = plan
      BY <2>3, <2>4 DEF TypeInv, TypeOK
    <3> QED
      BY <2>2, <3>1 DEF ShotCall
  <2>5. ASSUME NEW id \in WithKey(req.key),
               client' = [client EXCEPT ![c] =
                            [pc |-> "update", req |-> req, plan |-> plan, id |-> id,
                             rearm |-> Rearms(task[id], req, plan)]]
        PROVE  ShotCall(c)'
    <3>1. id \in TaskIds /\ task[id] # NoRow /\ task[id].key = req.key
      BY DEF WithKey
    <3>2. ShotRow(task[id])
      BY <3>1 DEF OneShotInv
    <3>3. req.key \in OneShotKeys => Rearms(task[id], req, plan) = FALSE
      BY <2>2, <3>1, <3>2 DEF ShotRow, ShotAt, Rearms
    <3>4. task'[id] # NoRow /\ task'[id].key = req.key
      BY <3>1 DEF KeysKept
    <3> DEFINE rearm == Rearms(task[id], req, plan)
    <3> HIDE DEF rearm
    <3>5. /\ client'[c].pc = "update" /\ client'[c].req = req /\ client'[c].plan = plan
          /\ client'[c].id = id /\ client'[c].rearm = rearm
      BY <2>5 DEF rearm, TypeInv, TypeOK
    <3>6. req.key \in OneShotKeys => rearm = FALSE
      BY <3>3 DEF rearm
    <3> QED
      BY <2>2, <3>4, <3>5, <3>6 DEF ShotCall
  <2>6. CASE client' = [client EXCEPT ![c] = IdleClient(EmptyId)]
    BY <2>6, <1>2 DEF IdleClient, TypeInv, TypeOK
  <2> QED
    BY <1>4, <2>4, <2>5, <2>6 DEF AddTaskFind
<1>5. ASSUME NEW d \in Clients, AddTaskInsert(d) \/ AddTaskUpdate(d)
      PROVE  client'[c] = client[c] \/ client'[c].pc = "idle"
  BY <1>5 DEF AddTaskInsert, AddTaskUpdate, IdleClient, TypeInv, TypeOK
<1>6. ASSUME NEW n \in Nodes, Crash(n)
      PROVE  client'[c] = client[c] \/ client'[c].pc = "idle"
  BY <1>6 DEF Crash, IdleClient
<1> QED
  BY <1>1, <1>2, <1>3, <1>4, <1>5, <1>6
     DEF Next, ClientStep, SchedStep, WorkerStep, vars, StopTask, ClearExpiredTaskLogs,
         ConfirmTask, PollTasks, PollSrvs, PollRoutes, Send, Elect, Depose, LockTask,
         SaveTaskStartedLog, CallbackSrv, CallbackRefused, CallbackReply,
         CallbackLost, SaveTaskCallbackLog, SubmitTaskResp, RegistryStep, Tick

LEMMA LoopUntouched ==
  ASSUME TypeInv, KeysKept, NEW n \in Nodes, ShotLoop(n), sched'[n] = sched[n]
  PROVE  ShotLoop(n)'
<1>1. CASE sched[n].pc \in {"srvs", "routes"}
  BY <1>1, SnapshotKept DEF ShotLoop
<1>2. CASE sched[n].pc = "send"
  <2>1. \A t \in sched[n].batch : t.id \in TaskIds
    BY <1>2 DEF TypeInv, TypeOK, SchedState, Task
  <2> QED
    BY <1>2, <2>1, TaskKept DEF ShotLoop
<1> QED
  BY <1>1, <1>2 DEF ShotLoop

(* A page holds one-shots that still have their run to do.                   *)
LEMMA LoopsStep ==
  ASSUME TypeInv, OneShotInv, [Next]_vars, KeysKept, NEW n \in Nodes
  PROVE  ShotLoop(n)'
<1>0. ShotLoop(n)
  BY DEF OneShotInv
<1>1. CASE sched'[n] = sched[n]
  BY <1>0, <1>1, LoopUntouched
<1>2. CASE sched'[n].pc = "poll"
  BY <1>2 DEF ShotLoop
<1>3. CASE UNCHANGED task /\ Reads(n)
  <2>1. ASSUME NEW id \in TaskIds, IsTimeout(task[id], now) PROVE ShotSnapshot(id, task[id])
    <3>1. task[id] \in TaskModel /\ ShotRow(task[id])
      BY <2>1 DEF IsTimeout, TypeInv, TypeOK, OneShotInv
    <3>2. task[id].runTimes \in Nat
      BY <3>1, MaxRunsAssumption DEF TaskModel
    <3> QED
      BY <2>1, <3>1, <3>2 DEF IsTimeout, ShotRow, ShotSnapshot
  <2> QED
    BY <1>3, <2>1 DEF Reads, ShotLoop, ShotSnapshot
<1>4. CASE UNCHANGED task /\ LooksUp(n)
  BY <1>0, <1>4 DEF LooksUp, ShotLoop, ShotSnapshot
<1>5. CASE UNCHANGED task /\ MakesTasks(n)
  <2>1. ASSUME NEW id \in TaskIds, sched[n].rows[id] # NoRow, NEW routed
        PROVE  ShotTask(ToEntity(id, sched[n].rows[id], routed))
    <3>1. ShotSnapshot(id, sched[n].rows[id])
      BY <1>0, <1>5 DEF MakesTasks, ShotLoop
    <3> QED
      BY <2>1, <3>1 DEF ShotSnapshot, ShotTask, ToEntity
  <2> QED
    BY <1>5, <2>1 DEF MakesTasks, ShotLoop, ShotTask
<1>6. CASE UNCHANGED task /\ Offers(n)
  BY <1>0, <1>6 DEF Offers, ShotLoop, ShotTask
<1> QED
  BY <1>1, <1>2, <1>3, <1>4, <1>5, <1>6, LoopsTurn DEF LoopTurn

(* A worker takes its task from the channel, as the scheduler read it.       *)
LEMMA WorkersStep ==
  ASSUME TypeInv, OneShotInv, [Next]_vars, KeysKept, NEW w \in Workers
  PROVE  ShotWorker(w)'
<1>1. CASE worker'[w].pc # "lock"
  BY <1>1 DEF ShotWorker
<1>2. CASE worker'[w].pc = "lock" /\ worker'[w] = worker[w]
  <2>1. worker[w].task.id \in TaskIds
    BY <1>2 DEF TypeInv, TypeOK, WorkerState, Task
  <2> QED
    BY <1>2, <2>1, TaskKept DEF ShotWorker, OneShotInv
<1>3. CASE Taken(w)
  BY <1>3 DEF Taken, ShotWorker, ShotLoop, ShotTask, OneShotInv
<1> QED
  BY <1>1, <1>2, <1>3, LockersTake

-----------------------------------------------------------------------------
LEMMA OneShotStep == TypeInv /\ OneShotInv /\ [Next]_vars => OneShotInv'
<1> SUFFICES ASSUME TypeInv, OneShotInv, [Next]_vars PROVE OneShotInv'
  OBVIOUS
<1>1. ShotRowsKept
  BY RowsStep
<1>2. KeysKept /\ \A id \in TaskIds : ShotRow(task[id])'
  BY <1>1 DEF ShotRowsKept, ShotRow, ShotAt
<1> QED
  BY <1>2, CallsStep, LoopsStep, WorkersStep DEF OneShotInv

(* A task that everybody asks for as one and the same one-shot is run at most *)
(* once, whatever repeats its add_task, stops it, crashes or fails.           *)
THEOREM OneShotsRunOnce == Spec => []OneShotRunsOnce
<1>1. OneShotInv => OneShotRunsOnce
  BY DEF OneShotInv, ShotRow, OneShotRunsOnce
<1>2. Init => TypeInv /\ OneShotInv
  BY TypeInit, OneShotInit
<1>3. TypeInv /\ OneShotInv /\ [Next]_vars => (TypeInv /\ OneShotInv)'
  BY TypeStep, OneShotStep
<1> QED
  BY <1>1, <1>2, <1>3, PTL DEF Spec
-----------------------------------------------------------------------------
(* Claims are not early *)

(* No add_task moves the plan of a task that is there.                       *)
PlansNotMoved ==
  \A c \in Clients, id \in TaskIds :
    AddTaskUpdate(c) /\ task[id] # NoRow
      => task'[id].planSchedNextAt = task[id].planSchedNextAt

(* Why a claim is not early then: the plan in a row changes only when a run  *)
(* is claimed, so a snapshot of a due row that still has the row's number    *)
(* of runs, which is what the compare-and-set compares, is of a plan that    *)
(* still is in the row.                                                      *)
Due(id, runTimes) ==
  /\ task[id] # NoRow
  /\ runTimes <= task[id].runTimes
  /\ task[id].runTimes = runTimes => task[id].planSchedNextAt <= now

DueLoop(n) ==
  /\ sched[n].pc \in {"srvs", "routes"} =>
       \A id \in TaskIds : sched[n].rows[id] # NoRow => Due(id, sched[n].rows[id].runTimes)
  /\ sched[n].pc = "send" => \A t \in sched[n].batch : Due(t.id, t.runTimes)

DueWorker(w) ==
  worker[w].pc = "lock" => Due(worker[w].task.id, worker[w].task.runTimes)

DueInv ==
  /\ \A n \in Nodes : DueLoop(n)
  /\ \A w \in Workers : DueWorker(w)

LEMMA DueInit == Init => DueInv
  BY DEF Init, DueInv, DueLoop, DueWorker, FreshSched, IdleWorker

(* A row keeps its plan until its next run is claimed.                       *)
LEMMA PlanKept ==
  ASSUME TypeInv, [Next]_vars, PlansNotMoved, NEW id \in TaskIds, task[id] # NoRow,
         task'[id].runTimes = task[id].runTimes
  PROVE  task'[id].planSchedNextAt = task[id].planSchedNextAt
<1>0. task[id] \in TaskModel
  BY DEF TypeInv, TypeOK
<1>1. ASSUME NEW c \in Clients, AddTaskInsert(c) PROVE task'[id] = task[id]
  <2>1. \/ UNCHANGED task
        \/ \E new \in TaskIds : \E row : task[new] = NoRow /\ task' = [task EXCEPT ![new] = row]
    BY <1>1 DEF AddTaskInsert, IsNextId
  <2> QED
    BY <2>1 DEF TypeInv, TypeOK
<1>2. ASSUME NEW c \in Clients, AddTaskUpdate(c)
      PROVE  task'[id].planSchedNextAt = task[id].planSchedNextAt
  BY <1>2 DEF PlansNotMoved
<1>3. ASSUME NEW stopped \in TaskIds, StopTask(stopped)
      PROVE  task'[id].planSchedNextAt = task[id].planSchedNextAt
  BY <1>0, <1>3 DEF StopTask, TypeInv, TypeOK, TaskModel
<1>4. ASSUME NEW first \in TaskIds, ClearExpiredTaskLogs(first)
      PROVE  task'[id].planSchedNextAt = task[id].planSchedNextAt
  BY <1>0, <1>4 DEF ClearExpiredTaskLogs, TaskModel
<1>5. ASSUME NEW w \in Workers, LockTask(w) PROVE task'[id] = task[id]
  <2> DEFINE t == worker[w].task
             row == LockedRow(task[t.id], t, now)
  <2>1. t \in Task /\ t.id \in TaskIds
    BY <1>5 DEF LockTask, TypeInv, TypeOK, WorkerState, Task
  <2>2. \/ UNCHANGED task
        \/ task[t.id].runTimes < MaxRuns /\ task' = [task EXCEPT ![t.id] = row]
    BY <1>5 DEF LockTask
  <2>3. CASE t.id = id /\ ~UNCHANGED task
    <3>1. row.runTimes = task[id].runTimes + 1
      BY <1>0, <2>1, <2>2, <2>3, LockedRowType DEF TypeInv, TypeOK
    <3>2. task'[id] = row
      BY <2>1, <2>2, <2>3 DEF TypeInv, TypeOK
    <3>3. task[id].runTimes \in Nat
      BY <1>0, MaxRunsAssumption DEF TaskModel
    <3> QED
      BY <3>1, <3>2, <3>3
  <2>4. CASE ~(t.id = id /\ ~UNCHANGED task)
    BY <2>2, <2>4 DEF TypeInv, TypeOK
  <2> QED
    BY <2>3, <2>4
<1>6. CASE UNCHANGED task
  BY <1>6
<1> QED
  BY <1>1, <1>2, <1>3, <1>4, <1>5, <1>6
     DEF Next, ClientStep, SchedStep, WorkerStep, vars, AddTask, AddTaskFind,
         ConfirmTask, PollTasks, PollSrvs, PollRoutes, Send, Elect, Depose, Crash,
         SaveTaskStartedLog, CallbackSrv, CallbackRefused, CallbackReply,
         CallbackLost, SaveTaskCallbackLog, SubmitTaskResp, RegistryStep, Tick

(* The clock does not go back.                                               *)
LEMMA ClockGrows ==
  ASSUME TypeInv, [Next]_vars
  PROVE  now \in Int /\ now' \in Int /\ now <= now'
<1>1. now \in Int
  BY DEF TypeInv, TypeOK
<1>2. now' = now \/ now' = now + 1
  BY DEF Next, ClientStep, SchedStep, WorkerStep, vars, AddTask, AddTaskFind,
         AddTaskInsert, AddTaskUpdate, StopTask, ClearExpiredTaskLogs, ConfirmTask,
         PollTasks, PollSrvs, PollRoutes, Send, Elect, Depose, Crash, LockTask,
         SaveTaskStartedLog, CallbackSrv, CallbackRefused, CallbackReply,
         CallbackLost, SaveTaskCallbackLog, SubmitTaskResp, RegistryStep, Tick
<1> QED
  BY <1>1, <1>2

LEMMA DueKept ==
  ASSUME TypeInv, KeysKept, [Next]_vars, PlansNotMoved,
         NEW id \in TaskIds, NEW runTimes \in Nat, Due(id, runTimes)
  PROVE  Due(id, runTimes)'
<1>1. task[id] \in TaskModel /\ task'[id] # NoRow
  BY DEF Due, KeysKept, TypeInv, TypeOK
<1>2. task[id].runTimes \in Nat /\ task[id].planSchedNextAt \in Int
  BY <1>1, MaxRunsAssumption DEF TaskModel
<1>3. task'[id].runTimes = task[id].runTimes \/ task'[id].runTimes = task[id].runTimes + 1
  BY <1>1, OnlyLockTaskClaims DEF Due
<1>4. task'[id].runTimes = task[id].runTimes
        => task'[id].planSchedNextAt = task[id].planSchedNextAt
  BY PlanKept DEF Due
<1> QED
  BY <1>1, <1>2, <1>3, <1>4, ClockGrows DEF Due

LEMMA DueStep ==
  ASSUME TypeInv, KeysKept, [Next]_vars, PlansNotMoved, DueInv
  PROVE  DueInv'
<1>1. ASSUME NEW n \in Nodes PROVE DueLoop(n)'
  <2>0. DueLoop(n)
    BY DEF DueInv
  <2>1. CASE sched'[n] = sched[n]
    <3>1. CASE sched[n].pc \in {"srvs", "routes"}
      <4>1. \A id \in TaskIds : sched[n].rows[id] # NoRow => sched[n].rows[id].runTimes \in Nat
        BY <3>1, MaxRunsAssumption DEF TypeInv, TypeOK, SchedState, TaskModel
      <4> QED
        BY <2>0, <2>1, <3>1, <4>1, DueKept DEF DueLoop
    <3>2. CASE sched[n].pc = "send"
      <4>1. \A t \in sched[n].batch : t.id \in TaskIds /\ t.runTimes \in Nat
        BY <3>2, MaxRunsAssumption DEF TypeInv, TypeOK, SchedState, Task
      <4> QED
        BY <2>0, <2>1, <3>2, <4>1, DueKept DEF DueLoop
    <3> QED
      BY <2>1, <3>1, <3>2 DEF DueLoop
  <2>2. CASE sched'[n].pc = "poll"
    BY <2>2 DEF DueLoop
  <2>3. CASE UNCHANGED <<task, now>> /\ Reads(n)
    <3>1. \A id \in TaskIds : task[id] # NoRow => task[id].runTimes \in Nat
      BY MaxRunsAssumption DEF TypeInv, TypeOK, TaskModel
    <3> QED
      BY <2>3, <3>1 DEF Reads, IsTimeout, DueLoop, Due
  <2>4. CASE UNCHANGED <<task, now>> /\ LooksUp(n)
    BY <2>0, <2>4 DEF LooksUp, DueLoop, Due
  <2>5. CASE UNCHANGED <<task, now>> /\ MakesTasks(n)
    <3>1. ASSUME NEW t \in sched'[n].batch PROVE Due(t.id, t.runTimes)
      <4>1. PICK id \in TaskIds, routed \in BOOLEAN :
              sched[n].rows[id] # NoRow /\ t = ToEntity(id, sched[n].rows[id], routed)
        BY <2>5 DEF MakesTasks
      <4>2. Due(id, sched[n].rows[id].runTimes)
        BY <2>0, <2>5, <4>1 DEF MakesTasks, DueLoop
      <4> QED
        BY <4>1, <4>2 DEF ToEntity
    <3> QED
      BY <2>5, <3>1 DEF MakesTasks, DueLoop, Due
  <2>6. CASE UNCHANGED <<task, now>> /\ Offers(n)
    BY <2>0, <2>6 DEF Offers, DueLoop, Due
  <2> QED
    BY <2>1, <2>2, <2>3, <2>4, <2>5, <2>6, LoopsTurn DEF LoopTurn
<1>2. ASSUME NEW w \in Workers PROVE DueWorker(w)'
  <2>1. CASE worker'[w].pc # "lock"
    BY <2>1 DEF DueWorker
  <2>2. CASE worker'[w].pc = "lock" /\ worker'[w] = worker[w]
    <3>1. worker[w].task.id \in TaskIds /\ worker[w].task.runTimes \in Nat
      BY <2>2, MaxRunsAssumption DEF TypeInv, TypeOK, WorkerState, Task
    <3>2. Due(worker[w].task.id, worker[w].task.runTimes)
      BY <2>2 DEF DueInv, DueWorker
    <3> QED
      BY <2>2, <3>1, <3>2, DueKept DEF DueWorker
  <2>3. CASE Taken(w)
    BY <2>3 DEF Taken, DueInv, DueLoop, DueWorker, Due
  <2> QED
    BY <2>1, <2>2, <2>3, LockersTake
<1> QED
  BY <1>1, <1>2 DEF DueInv

(* What LockTask's compare-and-set lets through is due.                      *)
LEMMA DueClaims ==
  ASSUME TypeInv, DueInv, [Next]_vars, NEW id \in TaskIds, Claimed(id)
  PROVE  task[id].planSchedNextAt <= now
<1>1. task[id].runTimes \in Nat
  BY MaxRunsAssumption DEF TypeInv, TypeOK, TaskModel, Claimed
<1>2. PICK w \in Workers : /\ LockTask(w) /\ worker[w].task.id = id
                           /\ SameAsSnapshot(task[id], worker[w].task)
  BY <1>1, OnlyLockTaskClaims DEF Claimed
<1> QED
  BY <1>2 DEF LockTask, SameAsSnapshot, DueInv, DueWorker, Due

(* A claim of LockTask is early only where an add_task moved the plan of the *)
(* row between the scheduler's SELECT and the claim: crashes, two masters,   *)
(* stops, revivals and lost answers alone make none.                         *)
THEOREM ClaimsDueUnlessMoved ==
  Spec /\ [][PlansNotMoved]_vars => ClaimOnlyWhenDue
<1> DEFINE I == TypeInv /\ OneShotInv /\ DueInv
           Timely == \A id \in TaskIds : Claimed(id) => task[id].planSchedNextAt <= now
<1>1. Init => I
  BY TypeInit, OneShotInit, DueInit
<1>2. I /\ [Next]_vars /\ [PlansNotMoved]_vars => I'
  <2> SUFFICES ASSUME I, [Next]_vars, [PlansNotMoved]_vars PROVE I'
    OBVIOUS
  <2>1. PlansNotMoved
    BY DEF PlansNotMoved, vars
  <2>2. KeysKept
    BY RowsStep DEF ShotRowsKept
  <2> QED
    BY <2>1, <2>2, TypeStep, OneShotStep, DueStep
<1>3. I /\ [Next]_vars => [Timely]_vars
  BY DueClaims
<1> HIDE DEF I
<1> QED
  BY <1>1, <1>2, <1>3, PTL DEF Spec, ClaimOnlyWhenDue

-----------------------------------------------------------------------------
(* A one-shot runs no more often than it was asked for *)

(* The add_task calls in progress, and how many calls of the API are over.   *)
Underway == {c \in Clients : client[c].pc # "idle"}
Ended == calls - Cardinality(Underway)

(* Why the runs do not exceed the calls: a row's limit is raised only by the *)
(* last statement of an add_task, to one more than the runs it has, and that *)
(* is when the call ends; a scheduler reads the row while its runs are below *)
(* the limit, so what it hands out is below the number of ended calls, which *)
(* never goes back.                                                          *)
RowWithin(row) ==
  row # NoRow /\ AlwaysOneShot(row.key) =>
    row.runTimes <= Ended /\ row.allowMaxRunTimes <= Ended

RunLeft(id, runTimes) ==
  /\ task[id] # NoRow
  /\ AlwaysOneShot(task[id].key) => runTimes < Ended

LeftLoop(n) ==
  /\ sched[n].pc \in {"srvs", "routes"} =>
       \A id \in TaskIds :
         sched[n].rows[id] # NoRow => RunLeft(id, sched[n].rows[id].runTimes)
  /\ sched[n].pc = "send" => \A t \in sched[n].batch : RunLeft(t.id, t.runTimes)

LeftWorker(w) ==
  worker[w].pc = "lock" => RunLeft(worker[w].task.id, worker[w].task.runTimes)

CallsCounted == IsFiniteSet(Underway) /\ Cardinality(Underway) <= calls

CallInv ==
  /\ CallsCounted
  /\ \A id \in TaskIds : RowWithin(task[id])
  /\ \A n \in Nodes : LeftLoop(n)
  /\ \A w \in Workers : LeftWorker(w)

LEMMA CallInit == Init => CallInv
<1> SUFFICES ASSUME Init PROVE CallInv
  OBVIOUS
<1>1. Underway = {} /\ calls = 0
  BY DEF Init, Underway, IdleClient
<1>2. CallsCounted
  BY <1>1, FS_EmptySet DEF CallsCounted
<1>3. \A id \in TaskIds : RowWithin(task[id])
  BY DEF Init, RowWithin
<1>4. (\A n \in Nodes : LeftLoop(n)) /\ (\A w \in Workers : LeftWorker(w))
  BY DEF Init, LeftLoop, LeftWorker, FreshSched, IdleWorker
<1> QED
  BY <1>2, <1>3, <1>4 DEF CallInv

LEMMA EndedIsNat ==
  ASSUME TypeInv, CallsCounted
  PROVE  /\ calls \in Nat /\ Cardinality(Underway) \in Nat
         /\ Ended \in Nat /\ Ended <= calls
<1>1. calls \in Nat /\ Cardinality(Underway) \in Nat
  BY FS_CardinalityType, BoundsAssumption DEF TypeInv, TypeOK, CallsCounted
<1> QED
  BY <1>1 DEF Ended, CallsCounted

(* What calls and clients do in a step: a call of another kind, or none, an  *)
(* add_task that begins, and add_task calls that end.                        *)
Other == calls' \in {calls, calls + 1} /\ Underway' = Underway
Begins(c) == c \notin Underway /\ calls' = calls + 1 /\ Underway' = Underway \cup {c}
Ends(c)   == c \in Underway /\ calls' = calls /\ Underway' = Underway \ {c}
Dies      == calls' = calls /\ Underway' \subseteq Underway

LEMMA EndedGrows ==
  ASSUME TypeInv, CallsCounted, NEW c,
         Other \/ Begins(c) \/ Ends(c) \/ Dies
  PROVE  /\ CallsCounted' /\ Ended <= Ended'
         /\ Ends(c) => Ended' = Ended + 1
<1>0. /\ calls \in Nat /\ Cardinality(Underway) \in Nat
      /\ IsFiniteSet(Underway) /\ Cardinality(Underway) <= calls
  BY EndedIsNat DEF CallsCounted
<1>1. CASE Other
  <2>1. ~Ends(c)
    BY <1>1 DEF Other, Ends
  <2> QED
    BY <1>0, <1>1, <2>1 DEF Other, CallsCounted, Ended
<1>2. CASE Begins(c)
  <2>1. IsFiniteSet(Underway') /\ Cardinality(Underway') = Cardinality(Underway) + 1
    BY <1>0, <1>2, FS_AddElement DEF Begins
  <2>2. ~Ends(c)
    BY <1>2 DEF Begins, Ends
  <2> QED
    BY <1>0, <1>2, <2>1, <2>2 DEF Begins, CallsCounted, Ended
<1>3. CASE Ends(c)
  <2>1. IsFiniteSet(Underway') /\ Cardinality(Underway') = Cardinality(Underway) - 1
    BY <1>0, <1>3, FS_RemoveElement DEF Ends
  <2> QED
    BY <1>0, <1>3, <2>1 DEF Ends, CallsCounted, Ended
<1>4. CASE Dies /\ ~Ends(c)
  <2>1. IsFiniteSet(Underway') /\ Cardinality(Underway') <= Cardinality(Underway)
    BY <1>0, <1>4, FS_Subset DEF Dies
  <2>2. Cardinality(Underway') \in Nat
    BY <2>1, FS_CardinalityType
  <2> QED
    BY <1>0, <1>4, <2>1, <2>2 DEF Dies, CallsCounted, Ended
<1> QED
  BY <1>1, <1>2, <1>3, <1>4

(* The statement that inserts or updates the row ends its add_task.          *)
LEMMA WriteEnds ==
  ASSUME TypeInv, NEW c \in Clients, AddTaskInsert(c) \/ AddTaskUpdate(c)
  PROVE  Ends(c)
<1>1. client[c].pc # "idle" /\ calls' = calls
  BY DEF AddTaskInsert, AddTaskUpdate
<1>2. \E answer : client' = [client EXCEPT ![c] = IdleClient(answer)]
  BY DEF AddTaskInsert, AddTaskUpdate
<1>3. client'[c].pc = "idle" /\ \A d \in Clients \ {c} : client'[d] = client[d]
  BY <1>2 DEF IdleClient, TypeInv, TypeOK
<1> QED
  BY <1>1, <1>3 DEF Ends, Underway

LEMMA CallKinds ==
  ASSUME TypeInv, [Next]_vars
  PROVE  \E c : Other \/ Begins(c) \/ Ends(c) \/ Dies
<1>1. ASSUME NEW c \in Clients, NEW req \in Requests, AddTask(c, req)
      PROVE  Other \/ Begins(c)
  <2>1. client[c].pc = "idle" /\ calls' = calls + 1
    BY <1>1 DEF AddTask, ApiCall
  <2>2. \A d \in Clients \ {c} : client'[d] = client[d]
    BY <1>1 DEF AddTask, TypeInv, TypeOK
  <2>3. client'[c].pc \in {"idle", "find"}
    BY <1>1 DEF AddTask, TypeInv, TypeOK, IdleClient
  <2> QED
    BY <2>1, <2>2, <2>3 DEF Other, Begins, Underway
<1>2. ASSUME NEW c \in Clients, AddTaskFind(c) PROVE Other \/ Ends(c)
  <2>1. client[c].pc = "find" /\ calls' = calls
    BY <1>2 DEF AddTaskFind
  <2>2. \A d \in Clients \ {c} : client'[d] = client[d]
    BY <1>2 DEF AddTaskFind, TypeInv, TypeOK
  <2> QED
    BY <2>1, <2>2 DEF Other, Ends, Underway
<1>3. ASSUME NEW n \in Nodes, Crash(n) PROVE Dies
  BY <1>3 DEF Crash, Dies, Underway, IdleClient
<1>4. ASSUME UNCHANGED client, calls' \in {calls, calls + 1} PROVE Other
  BY <1>4 DEF Other, Underway
<1> QED
  BY <1>1, <1>2, <1>3, <1>4, WriteEnds
     DEF Next, ClientStep, SchedStep, WorkerStep, vars, ApiCall, StopTask,
         ClearExpiredTaskLogs, ConfirmTask, PollTasks, PollSrvs, PollRoutes, Send, Elect,
         Depose, LockTask, SaveTaskStartedLog, CallbackSrv, CallbackRefused,
         CallbackReply, CallbackLost, SaveTaskCallbackLog, SubmitTaskResp,
         RegistryStep, Tick

LEMMA CallsStepOn ==
  ASSUME TypeInv, CallsCounted, [Next]_vars
  PROVE  /\ CallsCounted' /\ Ended \in Nat /\ Ended' \in Nat /\ Ended <= Ended'
<1>1. CallsCounted' /\ Ended <= Ended'
  BY CallKinds, EndedGrows
<1>2. Ended \in Nat
  BY EndedIsNat
<1>3. calls' \in Nat /\ Cardinality(Underway') \in Nat
  BY <1>1, TypeStep, FS_CardinalityType, BoundsAssumption
     DEF TypeInv, TypeOK, CallsCounted
<1>4. Ended' \in Nat
  BY <1>1, <1>3 DEF Ended, CallsCounted
<1> QED
  BY <1>1, <1>2, <1>4

(* A row that is not written stays within the calls, whatever calls end.     *)
LEMMA WithinKept ==
  ASSUME CallInv, Ended \in Nat, Ended' \in Nat, Ended <= Ended',
         NEW id \in TaskIds, NEW row,
         row = task[id] \/ (/\ task[id] # NoRow
                           /\ row \in TaskModel /\ task[id] \in TaskModel
                           /\ row.key = task[id].key /\ row.runTimes = task[id].runTimes
                           /\ row.allowMaxRunTimes = task[id].allowMaxRunTimes),
         task[id] \in TaskModel \cup {NoRow},
         task'[id] = row
  PROVE  RowWithin(task[id])'
<1>1. RowWithin(task[id])
  BY DEF CallInv
<1>2. task[id] \in TaskModel => task[id].runTimes \in Nat /\ task[id].allowMaxRunTimes \in Nat
  BY MaxRunsAssumption DEF TaskModel
<1> QED
  BY <1>1, <1>2, NoRowIsNoRow DEF RowWithin, AlwaysOneShot

(* A claim takes a run that is left.                                         *)
LEMMA ClaimWithin ==
  ASSUME TypeInv, CallInv, Ended \in Nat, Ended' \in Nat, Ended <= Ended',
         NEW w \in Workers, LockTask(w), NEW id \in TaskIds
  PROVE  RowWithin(task[id])'
<1> DEFINE t == worker[w].task
           row == LockedRow(task[id], t, now)
<1>1. CASE task'[id] = task[id]
  BY <1>1, WithinKept DEF TypeInv, TypeOK
<1>2. CASE task'[id] # task[id]
  <2>1. t \in Task /\ t.id \in TaskIds
    BY DEF LockTask, TypeInv, TypeOK, WorkerState, Task
  <2>2. t.id = id /\ SameAsSnapshot(task[id], t) /\ task[id].runTimes < MaxRuns /\ task'[id] = row
    BY <1>2, <2>1 DEF LockTask, TypeInv, TypeOK
  <2>3. task[id] \in TaskModel /\ task[id].runTimes = t.runTimes
    BY <2>2 DEF SameAsSnapshot, TypeInv, TypeOK
  <2>4. row.runTimes = task[id].runTimes + 1
    BY <2>1, <2>2, <2>3, LockedRowType DEF TypeInv, TypeOK
  <2>5. row.key = task[id].key /\ row.allowMaxRunTimes = task[id].allowMaxRunTimes
    BY <2>3 DEF LockedRow, TaskModel
  <2>6. RowWithin(task[id]) /\ RunLeft(id, t.runTimes)
    BY <2>2 DEF CallInv, LeftWorker, LockTask
  <2>7. task[id].runTimes \in Nat /\ task[id].allowMaxRunTimes \in Nat
    BY <2>3, MaxRunsAssumption DEF TaskModel
  <2> HIDE DEF row
  <2>8. task[id] # NoRow
    BY <2>3, NoRowIsNoRow
  <2> QED
    BY <2>2, <2>3, <2>4, <2>5, <2>6, <2>7, <2>8 DEF RowWithin, RunLeft, AlwaysOneShot
<1> QED
  BY <1>1, <1>2

(* An add_task grants a row that was not there one run, ...                  *)
LEMMA InsertWithin ==
  ASSUME TypeInv, OneShotInv, CallInv, Ended \in Nat, Ended' \in Nat, Ended <= Ended',
         NEW c \in Clients, AddTaskInsert(c), Ended' = Ended + 1, NEW id \in TaskIds
  PROVE  RowWithin(task[id])'
<1> DEFINE req == client[c].req
           row == NewRow(req, client[c].plan)
<1>1. CASE task'[id] = task[id]
  BY <1>1, WithinKept DEF TypeInv, TypeOK
<1>2. CASE task'[id] # task[id]
  <2>1. task'[id] = row
    BY <1>2 DEF AddTaskInsert, TypeInv, TypeOK
  <2>2. req \in Requests
    BY DEF AddTaskInsert, OneShotInv, ShotCall
  <2>3. row.key = req.key /\ row.runTimes = 0 /\ row.allowMaxRunTimes = AllowMaxRunTimes(req.mode)
    BY DEF NewRow
  <2>4. AlwaysOneShot(req.key) => AllowMaxRunTimes(req.mode) = 1
    BY <2>2 DEF AlwaysOneShot, AllowMaxRunTimes
  <2> HIDE DEF row
  <2> QED
    BY <2>1, <2>3, <2>4 DEF RowWithin, AlwaysOneShot
<1> QED
  BY <1>1, <1>2

(* ... and a row that was there one more than the runs it has.               *)
LEMMA UpdateWithin ==
  ASSUME TypeInv, OneShotInv, CallInv, Ended \in Nat, Ended' \in Nat, Ended <= Ended',
         NEW c \in Clients, AddTaskUpdate(c), Ended' = Ended + 1, NEW id \in TaskIds
  PROVE  RowWithin(task[id])'
<1> DEFINE req == client[c].req
           row == UpdatedRow(task[id], req, client[c].plan, client[c].rearm)
<1>1. CASE task'[id] = task[id]
  BY <1>1, WithinKept DEF TypeInv, TypeOK
<1>2. CASE task'[id] # task[id]
  <2>1. id = client[c].id /\ task'[id] = row
    BY <1>2 DEF AddTaskUpdate, TypeInv, TypeOK
  <2>2. req \in Requests /\ task[id] # NoRow /\ task[id].key = req.key
    BY <2>1 DEF AddTaskUpdate, OneShotInv, ShotCall
  <2>3. task[id] \in TaskModel /\ client[c].rearm \in BOOLEAN
    BY <2>2 DEF AddTaskUpdate, TypeInv, TypeOK, ClientState
  <2>4. task[id].runTimes \in Nat
    BY <2>3, MaxRunsAssumption DEF TaskModel
  <2>5. /\ row.key = req.key /\ row.runTimes = task[id].runTimes
        /\ row.allowMaxRunTimes =
             AllowMaxRunTimes(req.mode) + IF client[c].rearm THEN task[id].runTimes ELSE 0
    BY <2>2, <2>3 DEF UpdatedRow, TaskModel
  <2>6. AlwaysOneShot(req.key) => AllowMaxRunTimes(req.mode) = 1
    BY <2>2 DEF AlwaysOneShot, AllowMaxRunTimes
  <2>7. AlwaysOneShot(req.key) => task[id].runTimes <= Ended
    BY <2>2 DEF CallInv, RowWithin
  <2> HIDE DEF row
  <2>8. AlwaysOneShot(req.key) => row.runTimes <= Ended' /\ row.allowMaxRunTimes <= Ended'
    BY <2>4, <2>5, <2>6, <2>7
  <2> QED
    BY <2>1, <2>5, <2>8 DEF RowWithin, AlwaysOneShot
<1> QED
  BY <1>1, <1>2

LEMMA RowsWithinStep ==
  ASSUME TypeInv, OneShotInv, CallInv, [Next]_vars, NEW id \in TaskIds
  PROVE  RowWithin(task[id])'
<1>0. Ended \in Nat /\ Ended' \in Nat /\ Ended <= Ended'
  BY CallsStepOn DEF CallInv
<1>1. ASSUME NEW c \in Clients, AddTaskInsert(c) \/ AddTaskUpdate(c)
      PROVE  Ended' = Ended + 1
  BY <1>1, WriteEnds, EndedGrows DEF CallInv
<1>2. ASSUME task'[id] = task[id] PROVE RowWithin(task[id])'
  BY <1>0, <1>2, WithinKept DEF TypeInv, TypeOK
<1>3. ASSUME NEW stopped \in TaskIds, StopTask(stopped) PROVE RowWithin(task[id])'
  <2>1. CASE stopped = id
    <3>1. task[id] \in TaskModel /\ task'[id] = [task[id] EXCEPT !.state = "deleted"]
      BY <1>3, <2>1 DEF StopTask, TypeInv, TypeOK
    <3>2. /\ task'[id] \in TaskModel /\ task'[id].key = task[id].key
          /\ task'[id].runTimes = task[id].runTimes
          /\ task'[id].allowMaxRunTimes = task[id].allowMaxRunTimes
      BY <3>1 DEF TaskModel
    <3> QED
      BY <1>0, <3>1, <3>2, NoRowIsNoRow, WithinKept
  <2>2. CASE stopped # id
    BY <1>2, <1>3, <2>2 DEF StopTask, TypeInv, TypeOK
  <2> QED
    BY <2>1, <2>2
<1>4. ASSUME NEW first \in TaskIds, ClearExpiredTaskLogs(first) PROVE RowWithin(task[id])'
  <2>1. CASE task[id] # NoRow /\ id >= first
    <3>1. task[id] \in TaskModel /\ task'[id] = [task[id] EXCEPT !.state = "gone"]
      BY <1>4, <2>1 DEF ClearExpiredTaskLogs, TypeInv, TypeOK
    <3>2. /\ task'[id] \in TaskModel /\ task'[id].key = task[id].key
          /\ task'[id].runTimes = task[id].runTimes
          /\ task'[id].allowMaxRunTimes = task[id].allowMaxRunTimes
      BY <3>1 DEF TaskModel
    <3> QED
      BY <1>0, <3>1, <3>2, NoRowIsNoRow, WithinKept
  <2>2. CASE ~(task[id] # NoRow /\ id >= first)
    BY <1>2, <1>4, <2>2 DEF ClearExpiredTaskLogs
  <2> QED
    BY <2>1, <2>2
<1> QED
  BY <1>0, <1>1, <1>2, <1>3, <1>4, ClaimWithin, InsertWithin, UpdateWithin
     DEF Next, ClientStep, SchedStep, WorkerStep, vars, AddTask, AddTaskFind,
         ConfirmTask, PollTasks, PollSrvs, PollRoutes, Send, Elect, Depose, Crash,
         SaveTaskStartedLog, CallbackSrv, CallbackRefused, CallbackReply,
         CallbackLost, SaveTaskCallbackLog, SubmitTaskResp, RegistryStep, Tick

(* A run that was left when a scheduler read the row is still left.          *)
LEMMA LeftKept ==
  ASSUME KeysKept, Ended \in Nat, Ended' \in Nat, Ended <= Ended',
         NEW id \in TaskIds, NEW runTimes \in Nat, RunLeft(id, runTimes)
  PROVE  RunLeft(id, runTimes)'
  BY DEF KeysKept, RunLeft, AlwaysOneShot

LEMMA LoopsLeft ==
  ASSUME TypeInv, KeysKept, CallInv, [Next]_vars, NEW n \in Nodes
  PROVE  LeftLoop(n)'
<1>0. LeftLoop(n) /\ Ended \in Nat /\ Ended' \in Nat /\ Ended <= Ended'
  BY CallsStepOn DEF CallInv
<1>1. CASE sched'[n] = sched[n]
  <2>1. CASE sched[n].pc \in {"srvs", "routes"}
    <3>1. \A id \in TaskIds : sched[n].rows[id] # NoRow => sched[n].rows[id].runTimes \in Nat
      BY <2>1, MaxRunsAssumption DEF TypeInv, TypeOK, SchedState, TaskModel
    <3> QED
      BY <1>0, <1>1, <2>1, <3>1, LeftKept DEF LeftLoop
  <2>2. CASE sched[n].pc = "send"
    <3>1. \A t \in sched[n].batch : t.id \in TaskIds /\ t.runTimes \in Nat
      BY <2>2, MaxRunsAssumption DEF TypeInv, TypeOK, SchedState, Task
    <3> QED
      BY <1>0, <1>1, <2>2, <3>1, LeftKept DEF LeftLoop
  <2> QED
    BY <1>1, <2>1, <2>2 DEF LeftLoop
<1>2. CASE sched'[n].pc = "poll"
  BY <1>2 DEF LeftLoop
<1>3. CASE UNCHANGED <<task, now>> /\ Reads(n)
  <2>1. ASSUME NEW id \in TaskIds, IsTimeout(task[id], now)
        PROVE  RunLeft(id, task[id].runTimes)'
    <3>1. task[id] \in TaskModel /\ RowWithin(task[id])
      BY <2>1 DEF IsTimeout, TypeInv, TypeOK, CallInv
    <3>2. task[id].runTimes \in Nat /\ task[id].allowMaxRunTimes \in Nat
      BY <3>1, MaxRunsAssumption DEF TaskModel
    <3>3. RunLeft(id, task[id].runTimes)
      BY <1>0, <2>1, <3>1, <3>2 DEF IsTimeout, RowWithin, RunLeft
    <3>4. task'[id] = task[id]
      BY <1>3
    <3> QED
      BY <1>0, <3>2, <3>3, <3>4, LeftKept
  <2> QED
    BY <1>3, <2>1 DEF Reads, LeftLoop
<1>4. CASE UNCHANGED <<task, now>> /\ LooksUp(n)
  <2>1. \A id \in TaskIds : sched[n].rows[id] # NoRow => sched[n].rows[id].runTimes \in Nat
    BY <1>4, MaxRunsAssumption DEF LooksUp, TypeInv, TypeOK, SchedState, TaskModel
  <2> QED
    BY <1>0, <1>4, <2>1, LeftKept DEF LooksUp, LeftLoop
<1>5. CASE UNCHANGED <<task, now>> /\ MakesTasks(n)
  <2>1. ASSUME NEW t \in sched'[n].batch PROVE RunLeft(t.id, t.runTimes)'
    <3>1. PICK id \in TaskIds, routed \in BOOLEAN :
            sched[n].rows[id] # NoRow /\ t = ToEntity(id, sched[n].rows[id], routed)
      BY <1>5 DEF MakesTasks
    <3>2. RunLeft(id, sched[n].rows[id].runTimes)
      BY <1>0, <1>5, <3>1 DEF MakesTasks, LeftLoop
    <3>3. sched[n].rows[id].runTimes \in Nat
      BY <1>5, <3>1, MaxRunsAssumption DEF MakesTasks, TypeInv, TypeOK, SchedState, TaskModel
    <3>4. t.id = id /\ t.runTimes = sched[n].rows[id].runTimes
      BY <3>1 DEF ToEntity
    <3> QED
      BY <1>0, <3>2, <3>3, <3>4, LeftKept
  <2> QED
    BY <1>5, <2>1 DEF MakesTasks, LeftLoop
<1>6. CASE UNCHANGED <<task, now>> /\ Offers(n)
  <2>1. \A t \in sched[n].batch : t.id \in TaskIds /\ t.runTimes \in Nat
    BY <1>6, MaxRunsAssumption DEF Offers, TypeInv, TypeOK, SchedState, Task
  <2> QED
    BY <1>0, <1>6, <2>1, LeftKept DEF Offers, LeftLoop
<1> QED
  BY <1>1, <1>2, <1>3, <1>4, <1>5, <1>6, LoopsTurn DEF LoopTurn

LEMMA WorkersLeft ==
  ASSUME TypeInv, KeysKept, CallInv, [Next]_vars, NEW w \in Workers
  PROVE  LeftWorker(w)'
<1>0. LeftWorker(w) /\ Ended \in Nat /\ Ended' \in Nat /\ Ended <= Ended'
  BY CallsStepOn DEF CallInv
<1>1. CASE worker'[w].pc # "lock"
  BY <1>1 DEF LeftWorker
<1>2. CASE worker'[w].pc = "lock" /\ worker'[w] = worker[w]
  <2>1. worker[w].task.id \in TaskIds /\ worker[w].task.runTimes \in Nat
    BY <1>2, MaxRunsAssumption DEF TypeInv, TypeOK, WorkerState, Task
  <2> QED
    BY <1>0, <1>2, <2>1, LeftKept DEF LeftWorker
<1>3. CASE Taken(w)
  <2>1. PICK n \in Nodes : sched[n].pc = "send" /\ worker'[w].task \in sched[n].batch
    BY <1>3 DEF Taken
  <2> DEFINE t == worker'[w].task
  <2>2. t.id \in TaskIds /\ t.runTimes \in Nat /\ RunLeft(t.id, t.runTimes)
    BY <2>1, MaxRunsAssumption DEF TypeInv, TypeOK, SchedState, Task, CallInv, LeftLoop
  <2> QED
    BY <1>0, <2>2, LeftKept DEF LeftWorker
<1> QED
  BY <1>1, <1>2, <1>3, LockersTake

LEMMA CallStep == TypeInv /\ OneShotInv /\ CallInv /\ [Next]_vars => CallInv'
<1> SUFFICES ASSUME TypeInv, OneShotInv, CallInv, [Next]_vars PROVE CallInv'
  OBVIOUS
<1>1. KeysKept
  BY RowsStep DEF ShotRowsKept
<1>2. CallsCounted'
  BY CallsStepOn DEF CallInv
<1> QED
  BY <1>1, <1>2, RowsWithinStep, LoopsLeft, WorkersLeft DEF CallInv

(* A task that is only ever asked for as a one-shot does not run more often  *)
(* than the API was called, at whatever times it is asked for, and whatever  *)
(* is stopped, moved, retried or lost in between.                            *)
THEOREM OneShotsRunWithinCalls == Spec => []RunsWithinCalls
<1>1. TypeInv /\ CallInv => RunsWithinCalls
  <2> SUFFICES ASSUME TypeInv, CallInv, NEW id \in TaskIds,
                      task[id] # NoRow, AlwaysOneShot(task[id].key)
               PROVE  task[id].runTimes <= calls
    BY DEF RunsWithinCalls
  <2>1. task[id].runTimes \in Nat
    BY MaxRunsAssumption DEF TypeInv, TypeOK, TaskModel
  <2>2. task[id].runTimes <= Ended
    BY DEF CallInv, RowWithin
  <2> QED
    BY <2>1, <2>2, EndedIsNat DEF CallInv
<1>2. Init => TypeInv /\ OneShotInv /\ CallInv
  BY TypeInit, OneShotInit, CallInit
<1>3. TypeInv /\ OneShotInv /\ CallInv /\ [Next]_vars => (TypeInv /\ OneShotInv /\ CallInv)'
  BY TypeStep, OneShotStep, CallStep
<1> QED
  BY <1>1, <1>2, <1>3, PTL DEF Spec

=============================================================================
