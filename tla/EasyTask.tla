------------------------------- MODULE EasyTask -------------------------------
(***************************************************************************)
(* A whole easytask cluster: the registry of callback services and the life *)
(* of tasks over one database, on nodes that crash with everything they     *)
(* run.  TaskRun meets the registry only in two facts about a service,      *)
(* whether its row is live and whether it has a live route, which there     *)
(* change at any time; here they are read from the registry's own tables.   *)
(***************************************************************************)
EXTENDS Registry

CONSTANTS
  \* as in TaskRun, which shares Srvs, Nodes and PageSize with Registry
  Keys, TaskIds, Params, MaxTime, MaxRuns, MaxInt, CronNextAt(_, _),
  RouteTimeoutSec, ResultColumns, SrvModes,
  TaskSlots,      \* the task workers of one process, by number
  TaskClients,    \* concurrent callers of add_task
  TaskRequests,   \* the add_task requests they may send
  TaskMaxCalls, TaskMaxFaults, TaskEnv

ASSUME ServicesMayChange == "registry" \in TaskEnv

VARIABLES   \* as in TaskRun, which shares master with Registry
  task, log, now, sched, worker, client, called, confirmed, taskCalls, taskFaults

taskVars   == <<task, log, now, sched, worker, client, called, confirmed,
                taskCalls, taskFaults>>
systemVars == <<taskVars, vars>>

(* What the scheduler and add_task see of the registry's tables. *)
LiveSrvs   == {s \in Srvs : SrvLive(s)}
RoutedSrvs == {s \in Srvs : LiveRoutes(s) # {}}

TaskRun == INSTANCE TaskRun WITH
             srvLive <- LiveSrvs, srvRouted <- RoutedSrvs,
             Slots <- TaskSlots, Clients <- TaskClients, Requests <- TaskRequests,
             MaxCalls <- TaskMaxCalls, MaxFaults <- TaskMaxFaults, Env <- TaskEnv,
             calls <- taskCalls, faults <- taskFaults

-----------------------------------------------------------------------------
(* A step of the tasks' side, which leaves the registry alone. *)
TaskStep ==
  /\ UNCHANGED <<srv, route, answers, round, proc, calls, faults>>
  /\ \/ \E c \in TaskClients : TaskRun!ClientStep(c)
     \/ \E id \in TaskIds : TaskRun!StopTask(id) \/ TaskRun!ClearExpiredTaskLogs(id)
     \/ \E r \in TaskRun!Run, status \in TaskRun!Final : TaskRun!ConfirmTask(r, status)
     \/ \E n \in Nodes : TaskRun!SchedStep(n) \/ TaskRun!Elect(n) \/ TaskRun!Depose(n)
     \/ \E w \in TaskRun!Workers : TaskRun!WorkerStep(w)
     \/ TaskRun!Tick

(* A step of the registry, which leaves the tasks and the election alone. *)
RegistryStep ==
  /\ UNCHANGED <<taskVars, master>>
  /\ \/ \E c \in Clients :
          \/ \E req \in Requests : Register(c, req)
          \/ \E r \in Routes : Unregister(c, r)
          \/ CallStep(c)
     \/ \E w \in Workers : CheckStep(w) \/ HeartBeatLost(w)
     \/ \E n \in Nodes : RoundStep(n) \/ AbortRound(n)
     \/ \E p \in Procs : Abort(p)
     \/ \E a \in Addrs : Die(a) \/ Restart(a)

(* The process n dies with its scheduler and workers, its health check and   *)
(* the calls it was serving, at whatever statement each of them was.         *)
Crash(n) ==
  /\ round' = [round EXCEPT ![n] = NewRound]
  /\ \E served \in SUBSET {c \in Clients : proc[c] # Idle} :
       proc' = [p \in Procs |-> IF p \in served \/ p \in {n} \X Slots THEN Idle
                                ELSE proc[p]]
  /\ UNCHANGED <<srv, route, answers, calls, faults>>
  /\ TaskRun!Crash(n)

(* Every service is registered, with the health check on. *)
SystemInit ==
  /\ srv = [s \in Srvs |-> [state |-> "live", hasCheck |-> TRUE]]
  /\ route = [r \in Routes |-> [state |-> "live", check |-> TRUE]]
  /\ answers = Addrs
  /\ round = [n \in Nodes |-> NewRound]
  /\ proc = [p \in Procs |-> Idle]
  /\ calls = 0
  /\ faults = 0
  /\ TaskRun!Init

SystemNext == TaskStep \/ RegistryStep \/ \E n \in Nodes : Crash(n)

SystemSpec == SystemInit /\ [][SystemNext]_systemVars

-----------------------------------------------------------------------------
(* What TaskRun assumes of the registry is what the registry does: its       *)
(* statements bring and take a service's row or its last route one service   *)
(* and one of the two at a time, whatever calls, checks and crashes overlap. *)
ImplementsTaskRun == TaskRun!Spec

(* Nothing has failed so far. *)
NoFailure == faults = 0 /\ taskFaults = 0

(* A scheduler gives a worker a task without a route, which ends the worker, *)
(* only because it read the routes while a call or a check was halfway       *)
(* through the service, or after it deleted it; failures apart, no service   *)
(* stays behind that would cost one worker after the other.                  *)
UnroutedInPassing ==
  [][NoFailure =>
       \A n \in Nodes, id \in TaskIds, s \in Srvs :
         /\ sched[n].pc = "routes" /\ sched'[n].pc = "send"
         /\ sched[n].rows[id].callbackSrvId = s
         /\ \E t \in sched'[n].batch : t.id = id /\ ~t.routed
         => ~SrvLive(s) \/ \E p \in Procs : Settles(p, s)]_systemVars

(* No worker is ever lost to a task without a route. *)
WorkersStay == \A w \in TaskRun!Workers : worker[w].pc # "dead"
==============================================================================
