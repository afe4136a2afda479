----------------------------- MODULE ClaimProofs -----------------------------
(***************************************************************************)
(* A run has one worker and one callback: the argument of TaskRun's        *)
(* ClaimInv, proved for any number of nodes, workers, clients and tasks,   *)
(* and that TaskRun implements the ledger of RunLedger.                    *)
(***************************************************************************)
EXTENDS TaskRunProofs

USE DEF InTable, Live

-----------------------------------------------------------------------------
(* Who counts runs *)

(* Only LockTask counts a run, and only of a row that passed its             *)
(* compare-and-set: no call of the API, no registry change and no crash      *)
(* moves run_times.                                                          *)
LEMMA OnlyLockTaskClaims ==
  ASSUME TypeInv, [Next]_vars, NEW id \in TaskIds
  PROVE  \/ /\ RunTimes(id)' = RunTimes(id)
            /\ task[id] # NoRow => task'[id].runTimes = task[id].runTimes
         \/ \E w \in Workers : /\ LockTask(w)
                               /\ worker[w].task.id = id
                               /\ SameAsSnapshot(task[id], worker[w].task)
                               /\ task'[id].runTimes = task[id].runTimes + 1
                               /\ RunTimes(id)' = RunTimes(id) + 1
<1> USE DEF TypeInv
<1> DEFINE Same == /\ RunTimes(id)' = RunTimes(id)
                   /\ task[id] # NoRow => task'[id].runTimes = task[id].runTimes
<1>1. task[id] \in TaskModel \cup {NoRow}
  BY DEF TypeOK
<1>2. CASE task' = task
  BY <1>2 DEF RunTimes
<1>3. CASE \E c \in Clients : AddTaskInsert(c)
  <2>1. PICK c \in Clients : AddTaskInsert(c)
    BY <1>3
  <2> DEFINE row == NewRow(client[c].req, client[c].plan)
  <2>2. row.runTimes = 0 /\ row \in TaskModel
    BY <2>1, NewRowType DEF NewRow, AddTaskInsert, TypeOK, ClientState
  <2>3. task' = task \/ \E new \in TaskIds : /\ task[new] = NoRow
                                             /\ task' = [task EXCEPT ![new] = row]
    BY <2>1 DEF AddTaskInsert, IsNextId
  <2> HIDE DEF row
  <2>4. task'[id] = task[id] \/ (task[id] = NoRow /\ task'[id] = row)
    BY <2>3 DEF TypeOK
  <2>5. Same
    BY <2>2, <2>4 DEF RunTimes
  <2>6. QED BY <2>5
<1>4. CASE \E c \in Clients : AddTaskUpdate(c)
  <2>1. PICK c \in Clients : AddTaskUpdate(c)
    BY <1>4
  <2> DEFINE row == UpdatedRow(task[client[c].id], client[c].req,
                               client[c].plan, client[c].rearm)
  <2>2. /\ client[c].id \in TaskIds /\ client[c].req \in Request
        /\ client[c].plan \in Int /\ client[c].rearm \in BOOLEAN
    BY <2>1 DEF AddTaskUpdate, TypeOK, ClientState
  <2>3. task[client[c].id] \in TaskModel
    BY <2>1, <2>2 DEF AddTaskUpdate, TypeOK, UpdatesFoundRow
  <2>4. row \in TaskModel /\ row.runTimes = task[client[c].id].runTimes
    BY <2>2, <2>3, UpdatedRowType
  <2>5. task' = task \/ task' = [task EXCEPT ![client[c].id] = row]
    BY <2>1 DEF AddTaskUpdate
  <2> HIDE DEF row
  <2>6. task'[id] = task[id]
        \/ /\ task[id] \in TaskModel /\ task'[id] \in TaskModel
           /\ task'[id].runTimes = task[id].runTimes
    BY <2>2, <2>3, <2>4, <2>5 DEF TypeOK
  <2>7. Same
    BY <2>6, NoRowIsNoRow DEF RunTimes
  <2>8. QED BY <2>7
<1>5. CASE \E stopped \in TaskIds : StopTask(stopped)
  <2>1. PICK stopped \in TaskIds : StopTask(stopped)
    BY <1>5
  <2>2. task[stopped] \in TaskModel
    BY <2>1 DEF StopTask, TypeOK
  <2> DEFINE row == [task[stopped] EXCEPT !.state = "deleted"]
  <2>3. row \in TaskModel /\ row.runTimes = task[stopped].runTimes
    BY <2>2 DEF TaskModel
  <2>4. task' = [task EXCEPT ![stopped] = row]
    BY <2>1 DEF StopTask
  <2> HIDE DEF row
  <2>5. task'[id] = task[id]
        \/ /\ task[id] \in TaskModel /\ task'[id] \in TaskModel
           /\ task'[id].runTimes = task[id].runTimes
    BY <2>2, <2>3, <2>4 DEF TypeOK
  <2>6. Same
    BY <2>5, NoRowIsNoRow DEF RunTimes
  <2>7. QED BY <2>6
<1>6. CASE \E w \in Workers : LockTask(w)
  <2>1. PICK w \in Workers : LockTask(w)
    BY <1>6
  <2> DEFINE t == worker[w].task
             row == LockedRow(task[t.id], t, now)
  <2>2. t \in Task /\ t.id \in TaskIds
    BY <2>1 DEF LockTask, TypeOK, WorkerState, Task
  <2>3. \/ task' = task
        \/ /\ SameAsSnapshot(task[t.id], t)
           /\ task[t.id] \in TaskModel
           /\ task[t.id].runTimes < MaxRuns
           /\ task' = [task EXCEPT ![t.id] = row]
    BY <2>1, <2>2 DEF LockTask, TypeOK, SameAsSnapshot
  <2>4. task[t.id] \in TaskModel /\ task[t.id].runTimes < MaxRuns
          => row \in TaskModel /\ row.runTimes = task[t.id].runTimes + 1
    BY <2>2, LockedRowType DEF TypeOK
  <2> HIDE DEF row, t
  <2>5. CASE t.id = id /\ task' # task
    <3>1. /\ SameAsSnapshot(task[id], t)
          /\ task[id] \in TaskModel /\ task'[id] \in TaskModel
          /\ task'[id].runTimes = task[id].runTimes + 1
      BY <2>2, <2>3, <2>4, <2>5 DEF TypeOK
    <3>2. RunTimes(id)' = RunTimes(id) + 1
      BY <3>1, NoRowIsNoRow DEF RunTimes
    <3>3. QED BY <2>1, <2>5, <3>1, <3>2 DEF t
  <2>6. CASE ~(t.id = id /\ task' # task)
    <3>1. task'[id] = task[id]
      BY <2>2, <2>3, <2>6 DEF TypeOK
    <3>2. Same
      BY <3>1 DEF RunTimes
    <3>3. QED BY <3>2
  <2>7. QED BY <2>5, <2>6
<1>7. CASE \E first \in TaskIds : ClearExpiredTaskLogs(first)
  <2>1. PICK first \in TaskIds : ClearExpiredTaskLogs(first)
    BY <1>7
  <2>2. \/ task'[id] = task[id]
        \/ /\ task[id] \in TaskModel
           /\ task'[id] = [task[id] EXCEPT !.state = "gone"]
    BY <2>1 DEF ClearExpiredTaskLogs, TypeOK
  <2>3. task[id] \in TaskModel =>
          /\ [task[id] EXCEPT !.state = "gone"] \in TaskModel
          /\ [task[id] EXCEPT !.state = "gone"].runTimes = task[id].runTimes
    BY DEF TaskModel
  <2>4. Same
    BY <2>2, <2>3, NoRowIsNoRow DEF RunTimes
  <2>5. QED BY <2>4
<1>8. QED
  BY <1>2, <1>3, <1>4, <1>5, <1>6, <1>7
     DEF Next, ClientStep, SchedStep, WorkerStep, vars, AddTask, AddTaskFind,
         ConfirmTask, PollTasks, PollSrvs, PollRoutes, Send, Elect, Depose, Crash,
         SaveTaskStartedLog, CallbackSrv, CallbackRefused, CallbackReply,
         CallbackLost, SaveTaskCallbackLog, SubmitTaskResp, RegistryStep, Tick

(* run_times never decreases. *)
LEMMA RunTimesGrow ==
  ASSUME TypeInv, [Next]_vars
  PROVE  \A id \in TaskIds : RunTimes(id) <= RunTimes(id)'
<1>1. \A id \in TaskIds : RunTimes(id) \in Nat
  BY MaxRunsAssumption DEF TypeInv, TypeOK, RunTimes, TaskModel
<1>2. QED BY <1>1, OnlyLockTaskClaims

-----------------------------------------------------------------------------
(* The invariant *)

IInv == TypeOK /\ ClaimInv

(* No row, no worker and no log: nothing is claimed. *)
LEMMA ClaimInit == Init => IInv
<1> SUFFICES ASSUME Init PROVE IInv
  OBVIOUS
<1>1. TypeOK
  BY TypeInit DEF TypeInv
<1>2. \A w \in Workers : worker[w].pc = "idle"
  BY DEF Init, IdleWorker
<1>3. \A r \in Run : log[r] = NoLog /\ called[r] = "no"
  BY DEF Init
<1>4. UpdatesFoundRow
  BY TypeInit DEF TypeInv
<1>5. QED
  BY <1>1, <1>2, <1>3, <1>4
     DEF IInv, ClaimInv, HeldIsClaimed, LoggedIsClaimed, CalledIsLogged, CallIsLogged,
         RunClaimedOnce, StartedLogFresh, CallbackAtMostOnce, Holding

(* The run of a worker that holds one is a run of the tables. *)
LEMMA HeldRun ==
  ASSUME IInv, NEW w \in Workers, worker[w].pc \in Holding
  PROVE  /\ worker[w].task \in Task
         /\ RunOf(w) \in Run
         /\ RunOf(w)[1] = worker[w].task.id
         /\ RunOf(w)[2] = worker[w].task.runTimes
         /\ RunOf(w)[2] <= RunTimes(RunOf(w)[1])
<1>1. worker[w].task \in Task
  BY DEF IInv, TypeOK, WorkerState, Holding
<1>2. worker[w].task.id \in TaskIds
  BY <1>1 DEF Task
<1>3. RunTimes(worker[w].task.id) \in 0 .. MaxRuns
  BY <1>2, MaxRunsAssumption DEF IInv, TypeOK, RunTimes, TaskModel
<1>4. worker[w].task.runTimes \in 1 .. RunTimes(worker[w].task.id)
  BY DEF IInv, ClaimInv, HeldIsClaimed
<1>5. worker[w].task.runTimes \in 1 .. MaxRuns
  BY <1>3, <1>4, MaxRunsAssumption
<1>6. QED BY <1>1, <1>2, <1>3, <1>4, <1>5 DEF RunOf, Run

(* What most steps leave alone: no run is started or called, and a worker    *)
(* that holds a run held it before and is no step closer to its callback.    *)
Quiet ==
  /\ \A r \in Run : log'[r] = NoLog <=> log[r] = NoLog
  /\ called' = called
  /\ \A w \in Workers : worker'[w].pc \in Holding =>
       /\ worker[w].pc \in Holding
       /\ worker'[w].task = worker[w].task
       /\ worker'[w].pc \in {"start", "call"} => worker'[w].pc = worker[w].pc

LEMMA QuietKeeps ==
  ASSUME IInv, [Next]_vars, Quiet
  PROVE  ClaimInv'
<1>1. TypeInv /\ TypeInv'
  BY TypeStep DEF IInv, ClaimInv, TypeInv
<1>2. \A id \in TaskIds : /\ RunTimes(id) <= RunTimes(id)'
                          /\ RunTimes(id) \in Nat /\ RunTimes(id)' \in Nat
  BY <1>1, RunTimesGrow, MaxRunsAssumption DEF TypeInv, TypeOK, RunTimes, TaskModel
<1>3. \A w \in Workers : worker'[w].pc \in Holding => RunOf(w)' = RunOf(w)
  BY DEF Quiet, RunOf
<1>4. HeldIsClaimed'
  <2> SUFFICES ASSUME NEW w \in Workers, worker'[w].pc \in Holding
               PROVE  (worker[w].task.runTimes \in 1 .. RunTimes(worker[w].task.id))'
    BY DEF HeldIsClaimed
  <2>1. worker[w].pc \in Holding /\ worker'[w].task = worker[w].task
    BY DEF Quiet
  <2>2. PICK id \in TaskIds : id = worker[w].task.id
    BY <2>1, HeldRun DEF Task
  <2>3. worker[w].task.runTimes \in 1 .. RunTimes(id)
    BY <2>1, <2>2 DEF IInv, ClaimInv, HeldIsClaimed
  <2>4. worker[w].task.runTimes \in 1 .. RunTimes(id)'
    BY <1>2, <2>3
  <2>5. RunTimes(id)' = RunTimes(worker[w].task.id)'
    BY <2>1, <2>2 DEF RunTimes
  <2>6. QED BY <2>1, <2>4, <2>5
<1>5. LoggedIsClaimed'
  <2> SUFFICES ASSUME NEW r \in Run, log'[r] # NoLog
               PROVE  r[2] <= RunTimes(r[1])'
    BY DEF LoggedIsClaimed
  <2>1. r[1] \in TaskIds /\ r[2] \in Nat
    BY MaxRunsAssumption DEF Run
  <2>2. r[2] <= RunTimes(r[1])
    BY DEF Quiet, IInv, ClaimInv, LoggedIsClaimed
  <2>3. QED BY <1>2, <2>1, <2>2
<1>6. CalledIsLogged'
  BY DEF Quiet, IInv, ClaimInv, CalledIsLogged
<1>7. CallIsLogged' /\ StartedLogFresh' /\ CallbackAtMostOnce'
  <2>1. \A w \in Workers : worker'[w].pc \in {"start", "call"} =>
          /\ worker[w].pc = worker'[w].pc
          /\ RunOf(w)' = RunOf(w)
          /\ RunOf(w) \in Run
    BY <1>3, HeldRun DEF Quiet, Holding
  <2>2. QED
    BY <2>1 DEF Quiet, IInv, ClaimInv, CallIsLogged, StartedLogFresh, CallbackAtMostOnce
<1>8. RunClaimedOnce'
  <2> SUFFICES ASSUME NEW v \in Workers, NEW w \in Workers, v # w,
                      worker'[v].pc \in Holding, worker'[w].pc \in Holding
               PROVE  RunOf(v)' # RunOf(w)'
    BY DEF RunClaimedOnce
  <2>1. worker[v].pc \in Holding /\ worker[w].pc \in Holding
    BY DEF Quiet
  <2>2. RunOf(v) # RunOf(w)
    BY <2>1 DEF IInv, ClaimInv, RunClaimedOnce
  <2>3. QED BY <1>3, <2>2
<1>9. QED
  BY <1>1, <1>4, <1>5, <1>6, <1>7, <1>8 DEF ClaimInv, TypeInv

(* A worker that claims a run takes the number after the row's last one, so  *)
(* no other worker holds it and the log does not know it.                    *)
LEMMA LockTaskKeeps ==
  ASSUME IInv, [Next]_vars, NEW w \in Workers, LockTask(w),
         worker'[w].pc \in Holding
  PROVE  ClaimInv'
<1> DEFINE t == worker[w].task
<1>1. TypeInv /\ TypeInv'
  BY TypeStep DEF IInv, ClaimInv, TypeInv
<1>2. /\ t \in Task
      /\ SameAsSnapshot(task[t.id], t)
      /\ worker' = [worker EXCEPT ![w] =
                      [pc |-> "start", task |-> [t EXCEPT !.runTimes = @ + 1]]]
      /\ task' = [task EXCEPT ![t.id] = LockedRow(task[t.id], t, now)]
  <2>1. t \in Task
    BY <1>1 DEF LockTask, TypeInv, TypeOK, WorkerState
  <2>2. worker' # [worker EXCEPT ![w] = IdleWorker]
    BY <1>1 DEF TypeInv, TypeOK, IdleWorker, Holding
  <2>3. \E outcome : SameAsSnapshot(task[t.id], t) /\ outcome = "done"
                   /\ task' = [task EXCEPT ![t.id] = LockedRow(task[t.id], t, now)]
                   /\ worker' = [worker EXCEPT ![w] =
                        [pc |-> "start", task |-> [t EXCEPT !.runTimes = @ + 1]]]
    BY <2>2 DEF LockTask
  <2>4. QED BY <2>1, <2>3
<1>3. PICK id \in TaskIds : id = t.id
  BY <1>2 DEF Task
<1>4. PICK k \in Nat : k = t.runTimes
  BY <1>2, MaxRunsAssumption DEF Task
<1>5. RunTimes(id) = k /\ RunTimes(id)' = k + 1
  <2>1. task[id] \in TaskModel /\ task[id].runTimes = k
    BY <1>1, <1>2, <1>3, <1>4 DEF TypeInv, TypeOK, SameAsSnapshot
  <2>2. task[id].runTimes < MaxRuns
    BY <1>2, <1>3 DEF LockTask
  <2>3. LockedRow(task[id], t, now) \in TaskModel
        /\ LockedRow(task[id], t, now).runTimes = k + 1
    BY <1>1, <1>2, <2>1, <2>2, LockedRowType DEF TypeInv, TypeOK
  <2>4. task'[id] = LockedRow(task[id], t, now)
    BY <1>1, <1>2, <1>3 DEF TypeInv, TypeOK
  <2>5. QED BY <2>1, <2>3, <2>4, NoRowIsNoRow DEF RunTimes
<1>6. /\ worker'[w].pc = "start"
      /\ worker'[w].task.id = id
      /\ worker'[w].task.runTimes = k + 1
      /\ RunOf(w)' = <<id, k + 1>>
      /\ \A v \in Workers \ {w} : worker'[v] = worker[v] /\ RunOf(v)' = RunOf(v)
  BY <1>1, <1>2, <1>3, <1>4 DEF TypeInv, TypeOK, RunOf, Task
<1>7. \A other \in TaskIds :
        /\ RunTimes(other) <= RunTimes(other)'
        /\ RunTimes(other) \in Nat /\ RunTimes(other)' \in Nat
  BY <1>1, RunTimesGrow, MaxRunsAssumption DEF TypeInv, TypeOK, RunTimes, TaskModel
<1>8. log' = log /\ called' = called
  BY DEF LockTask
<1> HIDE DEF t
<1>9. HeldIsClaimed'
  <2> SUFFICES ASSUME NEW v \in Workers, worker'[v].pc \in Holding
               PROVE  (worker[v].task.runTimes \in 1 .. RunTimes(worker[v].task.id))'
    BY DEF HeldIsClaimed
  <2>1. CASE v = w
    <3>1. RunTimes(id)' = RunTimes(worker[w].task.id)'
      BY <1>6 DEF RunTimes
    <3>2. QED BY <1>5, <1>6, <2>1, <3>1
  <2>2. CASE v # w
    <3>1. worker'[v] = worker[v]
      BY <1>6, <2>2
    <3>2. PICK other \in TaskIds : other = worker[v].task.id
      BY <3>1, HeldRun DEF Task
    <3>3. worker[v].task.runTimes \in 1 .. RunTimes(other)
      BY <3>1, <3>2 DEF IInv, ClaimInv, HeldIsClaimed
    <3>4. worker[v].task.runTimes \in 1 .. RunTimes(other)'
      BY <1>7, <3>3
    <3>5. RunTimes(other)' = RunTimes(worker[v].task.id)'
      BY <3>1, <3>2 DEF RunTimes
    <3>6. QED BY <3>1, <3>4, <3>5
  <2>3. QED BY <2>1, <2>2
<1>10. LoggedIsClaimed'
  <2> SUFFICES ASSUME NEW r \in Run, log'[r] # NoLog
               PROVE  r[2] <= RunTimes(r[1])'
    BY DEF LoggedIsClaimed
  <2>1. r[1] \in TaskIds /\ r[2] \in Nat
    BY MaxRunsAssumption DEF Run
  <2>2. r[2] <= RunTimes(r[1])
    BY <1>8 DEF IInv, ClaimInv, LoggedIsClaimed
  <2>3. QED BY <1>7, <2>1, <2>2
<1>11. StartedLogFresh'
  <2>1. <<id, k + 1>> \in Run => log[<<id, k + 1>>] = NoLog
    <3>1. ~(k + 1 <= RunTimes(id))
      BY <1>4, <1>5
    <3>2. QED BY <3>1 DEF IInv, ClaimInv, LoggedIsClaimed
  <2>2. <<id, k + 1>> \in Run
    <3>1. k < MaxRuns
      <4>1. task[id].runTimes < MaxRuns /\ task[id].runTimes = k
        BY <1>2, <1>3, <1>4 DEF LockTask, SameAsSnapshot, t
      <4>2. QED BY <4>1
    <3>2. QED BY <1>3, <1>4, <3>1, MaxRunsAssumption DEF Run
  <2>3. \A v \in Workers \ {w} : worker[v].pc = "start" => log[RunOf(v)] = NoLog
    BY DEF IInv, ClaimInv, StartedLogFresh
  <2>4. QED BY <1>6, <1>8, <2>1, <2>2, <2>3 DEF StartedLogFresh
<1>12. RunClaimedOnce'
  <2>1. \A v \in Workers \ {w} : worker[v].pc \in Holding => RunOf(v) # <<id, k + 1>>
    <3> SUFFICES ASSUME NEW v \in Workers \ {w}, worker[v].pc \in Holding,
                        RunOf(v) = <<id, k + 1>>
                 PROVE  FALSE
      OBVIOUS
    <3>1. RunOf(v)[2] <= RunTimes(RunOf(v)[1])
      BY HeldRun
    <3>2. k + 1 <= RunTimes(id)
      BY <3>1
    <3>3. QED BY <1>4, <1>5, <3>2
  <2>2. \A u, v \in Workers \ {w} :
          u # v /\ worker[u].pc \in Holding /\ worker[v].pc \in Holding
            => RunOf(u) # RunOf(v)
    BY DEF IInv, ClaimInv, RunClaimedOnce
  <2>3. QED BY <1>6, <2>1, <2>2 DEF RunClaimedOnce
<1>13. CalledIsLogged' /\ CallIsLogged' /\ CallbackAtMostOnce'
  BY <1>6, <1>8
     DEF IInv, ClaimInv, CalledIsLogged, CallIsLogged, CallbackAtMostOnce
<1>14. QED
  BY <1>1, <1>9, <1>10, <1>11, <1>12, <1>13 DEF ClaimInv, TypeInv

(* A worker that writes the started log writes a row of its own run only. *)
LEMMA SaveTaskStartedLogKeeps ==
  ASSUME IInv, [Next]_vars, NEW w \in Workers, SaveTaskStartedLog(w), log' # log
  PROVE  ClaimInv'
<1>1. TypeInv /\ TypeInv'
  BY TypeStep DEF IInv, ClaimInv, TypeInv
<1>2. PICK r \in Run : r = RunOf(w) /\ r[2] <= RunTimes(r[1])
  BY HeldRun DEF SaveTaskStartedLog, Holding
<1>3. /\ log[r] = NoLog
      /\ log' = [log EXCEPT ![r] = StartedLog]
      /\ task' = task /\ called' = called
  BY <1>2 DEF SaveTaskStartedLog, LogFree
<1>4. \/ worker' = [worker EXCEPT ![w] = [pc |-> "call", task |-> worker[w].task]]
      \/ worker' = [worker EXCEPT ![w] = IdleWorker]
  BY DEF SaveTaskStartedLog
<1>5. /\ worker[w].pc \in Holding
      /\ worker'[w].pc \in Holding => worker'[w] = [pc |-> "call", task |-> worker[w].task]
      /\ \A v \in Workers \ {w} : worker'[v] = worker[v]
  BY <1>1, <1>4 DEF TypeInv, TypeOK, IdleWorker, Holding, SaveTaskStartedLog
<1>6. \A v \in Workers : worker'[v].pc \in Holding =>
        /\ worker[v].pc \in Holding
        /\ worker'[v].task = worker[v].task
        /\ RunOf(v)' = RunOf(v)
  BY <1>5 DEF RunOf
<1>7. \A id \in TaskIds : RunTimes(id)' = RunTimes(id)
  BY <1>3 DEF RunTimes
<1>8. \A s \in Run : log'[s] # NoLog <=> (log[s] # NoLog \/ s = r)
  <2>1. StartedLog # NoLog
    BY DEF StartedLog, NoLog
  <2>2. QED BY <1>1, <1>3, <2>1 DEF TypeInv, TypeOK
<1>9. HeldIsClaimed'
  <2> SUFFICES ASSUME NEW v \in Workers, worker'[v].pc \in Holding
               PROVE  (worker[v].task.runTimes \in 1 .. RunTimes(worker[v].task.id))'
    BY DEF HeldIsClaimed
  <2>1. PICK id \in TaskIds : id = worker[v].task.id
    BY <1>6, HeldRun DEF Task
  <2>2. worker[v].task.runTimes \in 1 .. RunTimes(id)'
    BY <1>6, <1>7, <2>1 DEF IInv, ClaimInv, HeldIsClaimed
  <2>3. RunTimes(id)' = RunTimes(worker[v].task.id)'
    BY <1>6, <2>1 DEF RunTimes
  <2>4. QED BY <1>6, <2>2, <2>3
<1>10. LoggedIsClaimed'
  <2> SUFFICES ASSUME NEW s \in Run, log'[s] # NoLog
               PROVE  s[2] <= RunTimes(s[1])'
    BY DEF LoggedIsClaimed
  <2>1. s[2] <= RunTimes(s[1])
    BY <1>2, <1>8 DEF IInv, ClaimInv, LoggedIsClaimed
  <2>2. s[1] \in TaskIds
    BY DEF Run
  <2>3. QED BY <1>7, <2>1, <2>2
<1>11. CalledIsLogged'
  BY <1>3, <1>8 DEF IInv, ClaimInv, CalledIsLogged
<1>12. CallIsLogged' /\ CallbackAtMostOnce'
  <2> SUFFICES ASSUME NEW v \in Workers, worker'[v].pc = "call"
               PROVE  log'[RunOf(v)'] # NoLog /\ called'[RunOf(v)'] = "no"
    BY DEF CallIsLogged, CallbackAtMostOnce
  <2>1. RunOf(v)' = RunOf(v) /\ RunOf(v) \in Run
    BY <1>6, HeldRun DEF Holding
  <2>2. CASE v = w
    BY <1>2, <1>3, <1>8, <2>1, <2>2 DEF IInv, ClaimInv, CalledIsLogged
  <2>3. CASE v # w
    BY <1>3, <1>5, <1>8, <2>1, <2>3
       DEF IInv, ClaimInv, CallIsLogged, CallbackAtMostOnce
  <2>4. QED BY <2>2, <2>3
<1>13. RunClaimedOnce'
  <2>1. \A u, v \in Workers :
          u # v /\ worker[u].pc \in Holding /\ worker[v].pc \in Holding
            => RunOf(u) # RunOf(v)
    BY DEF IInv, ClaimInv, RunClaimedOnce
  <2>2. QED BY <1>6, <2>1 DEF RunClaimedOnce
<1>14. StartedLogFresh'
  <2> SUFFICES ASSUME NEW v \in Workers, worker'[v].pc = "start"
               PROVE  log'[RunOf(v)'] = NoLog
    BY DEF StartedLogFresh
  <2>1. v # w
    BY <1>5 DEF Holding
  <2>2. worker[v].pc = "start" /\ RunOf(v)' = RunOf(v) /\ RunOf(v) \in Run
    BY <1>5, <1>6, <2>1, HeldRun DEF Holding
  <2>3. RunOf(v) # r
    BY <1>2, <1>5, <2>1, <2>2 DEF IInv, ClaimInv, RunClaimedOnce, Holding
  <2>4. log[RunOf(v)] = NoLog
    BY <2>2 DEF IInv, ClaimInv, StartedLogFresh
  <2>5. QED BY <1>8, <2>2, <2>3, <2>4
<1>15. QED
  BY <1>1, <1>9, <1>10, <1>11, <1>12, <1>13, <1>14 DEF ClaimInv, TypeInv

(* A worker that posts the callback posts that of its own run only. *)
LEMMA CallbackSrvKeeps ==
  ASSUME IInv, [Next]_vars, NEW w \in Workers, CallbackSrv(w)
  PROVE  ClaimInv'
<1>1. TypeInv /\ TypeInv'
  BY TypeStep DEF IInv, ClaimInv, TypeInv
<1>2. PICK r \in Run : r = RunOf(w)
  BY HeldRun DEF CallbackSrv, Holding
<1>3. /\ log[r] # NoLog
      /\ task' = task /\ log' = log
      /\ \E mode : called' = [called EXCEPT ![r] = mode]
  BY <1>2 DEF CallbackSrv, IInv, ClaimInv, CallIsLogged
<1>4. /\ worker[w].pc \in Holding
      /\ worker'[w] = [pc |-> "wait", task |-> worker[w].task]
      /\ \A v \in Workers \ {w} : worker'[v] = worker[v]
  BY <1>1 DEF TypeInv, TypeOK, Holding, CallbackSrv
<1>5. \A v \in Workers : worker'[v].pc \in Holding =>
        /\ worker[v].pc \in Holding
        /\ worker'[v].task = worker[v].task
        /\ RunOf(v)' = RunOf(v)
  BY <1>4 DEF RunOf
<1>6. \A id \in TaskIds : RunTimes(id)' = RunTimes(id)
  BY <1>3 DEF RunTimes
<1>7. \A s \in Run : s # r => called'[s] = called[s]
  BY <1>1, <1>3 DEF TypeInv, TypeOK
<1>8. HeldIsClaimed'
  <2> SUFFICES ASSUME NEW v \in Workers, worker'[v].pc \in Holding
               PROVE  (worker[v].task.runTimes \in 1 .. RunTimes(worker[v].task.id))'
    BY DEF HeldIsClaimed
  <2>1. PICK id \in TaskIds : id = worker[v].task.id
    BY <1>5, HeldRun DEF Task
  <2>2. worker[v].task.runTimes \in 1 .. RunTimes(id)'
    BY <1>5, <1>6, <2>1 DEF IInv, ClaimInv, HeldIsClaimed
  <2>3. RunTimes(id)' = RunTimes(worker[v].task.id)'
    BY <1>5, <2>1 DEF RunTimes
  <2>4. QED BY <1>5, <2>2, <2>3
<1>9. LoggedIsClaimed'
  BY <1>3, <1>6 DEF IInv, ClaimInv, LoggedIsClaimed, Run
<1>10. CalledIsLogged'
  BY <1>3, <1>7 DEF IInv, ClaimInv, CalledIsLogged
<1>11. RunClaimedOnce'
  <2>1. \A u, v \in Workers :
          u # v /\ worker[u].pc \in Holding /\ worker[v].pc \in Holding
            => RunOf(u) # RunOf(v)
    BY DEF IInv, ClaimInv, RunClaimedOnce
  <2>2. QED BY <1>5, <2>1 DEF RunClaimedOnce
<1>12. \A v \in Workers : worker'[v].pc \in {"start", "call"} =>
         /\ worker[v].pc = worker'[v].pc
         /\ RunOf(v)' = RunOf(v)
         /\ RunOf(v) \in Run
         /\ RunOf(v) # r
  <2> SUFFICES ASSUME NEW v \in Workers, worker'[v].pc \in {"start", "call"}
               PROVE  /\ worker[v].pc = worker'[v].pc
                      /\ RunOf(v)' = RunOf(v)
                      /\ RunOf(v) \in Run
                      /\ RunOf(v) # r
    OBVIOUS
  <2>1. v # w
    BY <1>4
  <2>2. worker[v].pc = worker'[v].pc /\ RunOf(v)' = RunOf(v) /\ RunOf(v) \in Run
    BY <1>4, <1>5, <2>1, HeldRun DEF Holding
  <2>3. RunOf(v) # r
    BY <1>2, <1>4, <2>1, <2>2 DEF IInv, ClaimInv, RunClaimedOnce, Holding
  <2>4. QED BY <2>2, <2>3
<1>13. CallIsLogged' /\ StartedLogFresh' /\ CallbackAtMostOnce'
  BY <1>3, <1>7, <1>12
     DEF IInv, ClaimInv, CallIsLogged, StartedLogFresh, CallbackAtMostOnce
<1>14. QED
  BY <1>1, <1>8, <1>9, <1>10, <1>11, <1>13 DEF ClaimInv, TypeInv

(* The other steps of a worker record what came of a run it holds. *)
LEMMA WorkerQuiet ==
  ASSUME IInv, NEW w \in Workers,
         \/ CallbackRefused(w) \/ CallbackReply(w) \/ CallbackLost(w)
         \/ SaveTaskCallbackLog(w) \/ SubmitTaskResp(w)
  PROVE  Quiet
<1> USE DEF IInv
<1>1. worker[w] \in WorkerState
  BY DEF TypeOK
<1>2. called' = called
  BY DEF CallbackRefused, CallbackReply, CallbackLost, SaveTaskCallbackLog,
         SubmitTaskResp
<1>3. CASE CallbackRefused(w) \/ CallbackReply(w) \/ CallbackLost(w)
  <2>1. log' = log
    BY <1>3 DEF CallbackRefused, CallbackReply, CallbackLost
  <2>2. /\ worker[w].pc \in Holding
        /\ \E reply, err : worker' = [worker EXCEPT ![w] =
              [pc |-> "log", task |-> worker[w].task, reply |-> reply, err |-> err]]
    BY <1>3, CallbackEnded DEF CallbackRefused, CallbackReply, CallbackLost, Holding
  <2>3. QED BY <1>2, <2>1, <2>2 DEF Quiet, TypeOK
<1>4. CASE SaveTaskCallbackLog(w)
  <2>1. \A status : \A r \in Run : CallbackLog(log[r], status) = NoLog <=> log[r] = NoLog
    BY CallbackLogType DEF TypeOK
  <2>2. \/ log' = log
        \/ \E status : log' = [log EXCEPT ![RunOf(w)] =
                                CallbackLog(log[RunOf(w)], status)]
    BY <1>4 DEF SaveTaskCallbackLog
  <2>3. \A r \in Run : log'[r] = NoLog <=> log[r] = NoLog
    BY <2>1, <2>2 DEF TypeOK
  <2>4. /\ worker[w].pc \in Holding
        /\ worker'[w].pc = "confirm" /\ worker'[w].task = worker[w].task
        /\ \A v \in Workers \ {w} : worker'[v] = worker[v]
    BY <1>1, <1>4 DEF SaveTaskCallbackLog, Holding, TypeOK, WorkerState
  <2>5. QED BY <1>2, <2>3, <2>4 DEF Quiet
<1>5. CASE SubmitTaskResp(w)
  <2>1. \A status : \A r \in Run :
          ConfirmedLog(log[r], status, "reply") = NoLog <=> log[r] = NoLog
    BY ConfirmedLogType DEF TypeOK
  <2>2. \/ log' = log
        \/ \E status : log' = [log EXCEPT ![RunOf(w)] =
                                ConfirmedLog(log[RunOf(w)], status, "reply")]
    BY <1>5 DEF SubmitTaskResp
  <2>3. \A r \in Run : log'[r] = NoLog <=> log[r] = NoLog
    BY <2>1, <2>2 DEF TypeOK
  <2>4. worker' = [worker EXCEPT ![w] = IdleWorker]
    BY <1>5 DEF SubmitTaskResp
  <2>5. QED BY <1>2, <2>3, <2>4 DEF Quiet, TypeOK, IdleWorker, Holding
<1>6. QED BY <1>3, <1>4, <1>5

(* Every step is quiet, claims a run, starts one or calls one. *)
LEMMA StepKinds ==
  ASSUME IInv, [Next]_vars
  PROVE  \/ Quiet
         \/ \E w \in Workers : LockTask(w) /\ worker'[w].pc \in Holding
         \/ \E w \in Workers : SaveTaskStartedLog(w) /\ log' # log
         \/ \E w \in Workers : CallbackSrv(w)
<1>1. CASE log' = log /\ called' = called /\ worker' = worker
  BY <1>1 DEF Quiet
<1>2. CASE \E r \in Run, status \in Final : ConfirmTask(r, status)
  <2>1. PICK r \in Run, status \in Final : ConfirmTask(r, status)
    BY <1>2
  <2>2. ConfirmedLog(log[r], status, "confirm") = NoLog <=> log[r] = NoLog
    BY ConfirmedLogType DEF IInv, TypeOK
  <2>3. Quiet
    BY <2>1, <2>2 DEF ConfirmTask, Quiet, IInv, TypeOK
  <2>4. QED BY <2>3
<1>3. CASE \E n \in Nodes, k \in Slots : Send(n, k)
  <2>1. PICK n \in Nodes, k \in Slots : Send(n, k)
    BY <1>3
  <2>2. \E t : worker' = [worker EXCEPT ![<<n, k>>] =
                           IF t.routed THEN [pc |-> "lock", task |-> t]
                                       ELSE [pc |-> "dead"]]
    BY <2>1 DEF Send
  <2>3. log' = log /\ called' = called
    BY <2>1 DEF Send
  <2>4. Quiet
    BY <2>2, <2>3 DEF Quiet, IInv, TypeOK, Holding
  <2>5. QED BY <2>4
<1>4. CASE \E n \in Nodes : Crash(n)
  <2>1. \A w \in Workers : worker'[w] \in {IdleWorker, worker[w]}
    BY <1>4 DEF Crash
  <2>2. log' = log /\ called' = called
    BY <1>4 DEF Crash
  <2>3. Quiet
    BY <2>1, <2>2 DEF Quiet, IdleWorker, Holding
  <2>4. QED BY <2>3
<1>5. CASE \E w \in Workers : LockTask(w)
  <2>1. PICK w \in Workers : LockTask(w)
    BY <1>5
  <2>2. CASE worker'[w].pc \in Holding
    BY <2>1, <2>2
  <2>3. CASE worker'[w].pc \notin Holding
    <3>1. /\ log' = log /\ called' = called
          /\ \E state : worker' = [worker EXCEPT ![w] = state]
      BY <2>1 DEF LockTask
    <3>2. Quiet
      BY <2>3, <3>1 DEF Quiet, IInv, TypeOK
    <3>3. QED BY <3>2
  <2>4. QED BY <2>2, <2>3
<1>6. CASE \E w \in Workers : SaveTaskStartedLog(w)
  <2>1. PICK w \in Workers : SaveTaskStartedLog(w)
    BY <1>6
  <2>2. CASE log' = log
    <3>1. RunOf(w) \in Run /\ log[RunOf(w)] = NoLog
      BY <2>1, HeldRun
         DEF SaveTaskStartedLog, Holding, IInv, ClaimInv, StartedLogFresh
    <3>2. log # [log EXCEPT ![RunOf(w)] = StartedLog]
      <4>1. StartedLog # NoLog
        BY DEF StartedLog, NoLog
      <4>2. [log EXCEPT ![RunOf(w)] = StartedLog][RunOf(w)] = StartedLog
        BY <3>1 DEF IInv, TypeOK
      <4>3. QED BY <3>1, <4>1, <4>2
    <3>3. worker' = [worker EXCEPT ![w] = IdleWorker]
      BY <2>1, <2>2, <3>1, <3>2 DEF SaveTaskStartedLog, LogFree
    <3>4. called' = called
      BY <2>1 DEF SaveTaskStartedLog
    <3>5. Quiet
      BY <2>2, <3>3, <3>4 DEF Quiet, IInv, TypeOK, IdleWorker, Holding
    <3>6. QED BY <3>5
  <2>3. CASE log' # log
    BY <2>1, <2>3
  <2>4. QED BY <2>2, <2>3
<1>7. CASE \E w \in Workers : CallbackSrv(w)
  BY <1>7
<1>8. CASE \E w \in Workers :
             \/ CallbackRefused(w) \/ CallbackReply(w) \/ CallbackLost(w)
             \/ SaveTaskCallbackLog(w) \/ SubmitTaskResp(w)
  BY <1>8, WorkerQuiet
<1>9. QED
  BY <1>1, <1>2, <1>3, <1>4, <1>5, <1>6, <1>7, <1>8
     DEF Next, ClientStep, SchedStep, WorkerStep, vars, AddTask, AddTaskFind,
         AddTaskInsert, AddTaskUpdate, StopTask, ClearExpiredTaskLogs, PollTasks,
         PollSrvs, PollRoutes, Elect, Depose, RegistryStep, Tick

(* Every step keeps the invariant. *)
LEMMA ClaimStep == IInv /\ [Next]_vars => IInv'
<1> SUFFICES ASSUME IInv, [Next]_vars PROVE ClaimInv'
  BY TypeStep DEF IInv, ClaimInv, TypeInv
<1>1. QED
  BY StepKinds, QuietKeeps, LockTaskKeeps, SaveTaskStartedLogKeeps, CallbackSrvKeeps

-----------------------------------------------------------------------------
(* The ledger *)

(* No row and no log: the ledger is empty. *)
LEMMA LedgerInit == Init => Ledger!LedgerInit
<1> SUFFICES ASSUME Init PROVE Ledger!LedgerInit
  OBVIOUS
<1>1. \A id \in TaskIds : RunTimes(id) = 0
  BY DEF Init, RunTimes
<1>2. \A r \in Run : log[r] = NoLog /\ called[r] = "no"
  BY DEF Init
<1>3. QED BY <1>1, <1>2 DEF Ledger!LedgerInit

(* Every step of the cluster is a step of the ledger or leaves it alone. *)
LEMMA LedgerStep == IInv /\ [Next]_vars => [Ledger!LedgerNext]_Ledger!ledger
<1> SUFFICES ASSUME IInv, [Next]_vars PROVE [Ledger!LedgerNext]_Ledger!ledger
  OBVIOUS
<1>1. TypeInv /\ TypeInv'
  BY TypeStep DEF IInv, ClaimInv, TypeInv
<1>2. CASE \E id \in TaskIds : RunTimes(id)' # RunTimes(id)
  <2>1. PICK id \in TaskIds : RunTimes(id)' # RunTimes(id)
    BY <1>2
  <2>2. PICK w \in Workers : /\ LockTask(w)
                             /\ worker[w].task.id = id
                             /\ RunTimes(id)' = RunTimes(id) + 1
    BY <1>1, <2>1, OnlyLockTaskClaims
  <2>3. log' = log /\ called' = called
    BY <2>2 DEF LockTask
  <2>4. \A other \in TaskIds \ {id} : task'[other] = task[other]
    BY <1>1, <2>2 DEF LockTask, TypeInv, TypeOK
  <2>5. \A other \in TaskIds \ {id} : RunTimes(other)' = RunTimes(other)
    BY <2>4 DEF RunTimes
  <2>6. RunTimes(id) \in Nat /\ RunTimes(id)' \in 0 .. MaxRuns
    BY <1>1, MaxRunsAssumption DEF TypeInv, TypeOK, RunTimes, TaskModel
  <2>7. RunTimes(id) < MaxRuns
    BY <2>2, <2>6, MaxRunsAssumption
  <2>8. Ledger!Claim(id)
    BY <2>2, <2>3, <2>5, <2>7 DEF Ledger!Claim
  <2>9. QED BY <2>8 DEF Ledger!LedgerNext
<1>3. CASE \A id \in TaskIds : RunTimes(id)' = RunTimes(id)
  <2>1. CASE \A r \in Run : /\ log'[r] = NoLog <=> log[r] = NoLog
                           /\ called'[r] = called[r]
    BY <1>3, <2>1 DEF Ledger!ledger
  <2>2. CASE \E w \in Workers : SaveTaskStartedLog(w) /\ log' # log
    <3>1. PICK w \in Workers : SaveTaskStartedLog(w) /\ log' # log
      BY <2>2
    <3>2. PICK r \in Run : r = RunOf(w) /\ r[2] <= RunTimes(r[1])
      BY <3>1, HeldRun DEF SaveTaskStartedLog, Holding
    <3>3. /\ log[r] = NoLog
          /\ log' = [log EXCEPT ![r] = StartedLog]
          /\ called' = called
      BY <3>1, <3>2 DEF SaveTaskStartedLog, LogFree
    <3>4. \A s \in Run : log'[s] # NoLog <=> (log[s] # NoLog \/ s = r)
      <4>1. StartedLog # NoLog
        BY DEF StartedLog, NoLog
      <4>2. QED BY <1>1, <3>3, <4>1 DEF TypeInv, TypeOK
    <3>5. r[1] \in TaskIds
      BY DEF Run
    <3>6. Ledger!Start(r)
      BY <1>3, <3>2, <3>3, <3>4, <3>5 DEF Ledger!Start
    <3>7. QED BY <3>6 DEF Ledger!LedgerNext, Ledger!Runs, Run
  <2>3. CASE \E w \in Workers : CallbackSrv(w)
    <3>1. PICK w \in Workers : CallbackSrv(w)
      BY <2>3
    <3>2. PICK r \in Run : r = RunOf(w)
      BY <3>1, HeldRun DEF CallbackSrv, Holding
    <3>3. log[r] # NoLog /\ called[r] = "no"
      BY <3>1, <3>2 DEF CallbackSrv, IInv, ClaimInv, CallIsLogged, CallbackAtMostOnce
    <3>4. /\ log' = log
          /\ \A s \in Run : called'[s] # "no" <=> (called[s] # "no" \/ s = r)
      BY <1>1, <3>1, <3>2, SrvModesAssumption DEF CallbackSrv, TypeInv, TypeOK
    <3>5. Ledger!Call(r)
      BY <1>3, <3>3, <3>4 DEF Ledger!Call
    <3>6. QED BY <3>5 DEF Ledger!LedgerNext, Ledger!Runs, Run
  <2>4. CASE \E w \in Workers : LockTask(w)
    BY <2>1, <2>4 DEF LockTask
  <2>5. QED BY <2>1, <2>2, <2>3, <2>4, StepKinds DEF Quiet
<1>4. QED BY <1>2, <1>3

-----------------------------------------------------------------------------
(* The theorems *)

LEMMA IInvHolds == Spec => []IInv
BY ClaimInit, ClaimStep, PTL DEF Spec

(* The bookkeeping of claims holds in every reachable state: no worker holds, *)
(* no log row bears and no service has seen a run number above the row's.    *)
THEOREM ClaimInvariant == Spec => []ClaimInv
<1>1. IInv => ClaimInv
  BY DEF IInv
<1>2. QED BY <1>1, IInvHolds, PTL

(* LockTask's compare-and-set gives a run to one worker, however many nodes  *)
(* believe to be master.                                                     *)
THEOREM OneWorkerPerRun == Spec => []RunClaimedOnce
<1>1. IInv => RunClaimedOnce
  BY DEF IInv, ClaimInv
<1>2. QED BY <1>1, IInvHolds, PTL

(* A callback service is asked to do a run at most once. *)
THEOREM OneCallbackPerRun == Spec => []CallbackAtMostOnce
<1>1. IInv => CallbackAtMostOnce
  BY DEF IInv, ClaimInv
<1>2. QED BY <1>1, IInvHolds, PTL

(* The INSERT of a started log never meets the unique index. *)
THEOREM StartedLogsFresh == Spec => []StartedLogFresh
<1>1. IInv => StartedLogFresh
  BY DEF IInv, ClaimInv
<1>2. QED BY <1>1, IInvHolds, PTL

(* No run of a stopped or removed task is claimed: LockTask's UPDATE finds    *)
(* no row of it, whatever snapshot the worker has.                                         *)
THEOREM StoppedTasksNotClaimed == Spec => StoppedNotClaimed
<1>1. IInv /\ [Next]_vars
        => [\A id \in TaskIds : Claimed(id) => task[id].state = "live"]_vars
  <2> SUFFICES ASSUME IInv, [Next]_vars, NEW id \in TaskIds, Claimed(id)
               PROVE  task[id].state = "live"
    OBVIOUS
  <2>1. TypeInv
    BY DEF IInv, ClaimInv, TypeInv
  <2>2. task[id].runTimes \in Nat
    BY <2>1, MaxRunsAssumption DEF TypeInv, TypeOK, TaskModel, Claimed
  <2>3. \E t : SameAsSnapshot(task[id], t)
    BY <2>1, <2>2, OnlyLockTaskClaims DEF Claimed
  <2>4. QED BY <2>3 DEF SameAsSnapshot
<1>2. QED BY <1>1, IInvHolds, PTL DEF Spec, StoppedNotClaimed

(* easytask keeps the ledger's promise: the runs of a task are numbered      *)
(* without a gap, each is written down at most once and then called at most  *)
(* once, whatever crashes, fails or is elected in between.                   *)
THEOREM LedgerKept == Spec => KeepsLedger
BY LedgerInit, LedgerStep, IInvHolds, PTL DEF Spec, KeepsLedger, Ledger!LedgerSpec
==============================================================================
