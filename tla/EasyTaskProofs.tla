---------------------------- MODULE EasyTaskProofs ----------------------------
(***************************************************************************)
(* The composition implements TaskRun, and a task loses its worker only in  *)
(* passing, proved for any services, processes, calls and tasks.            *)
(***************************************************************************)
EXTENDS EasyTask, RegistryProofs

(* The actions of TaskRun that a step of the tasks' side may be.             *)
LEMMA TaskStepCases ==
  ASSUME TaskStep
  PROVE  /\ UNCHANGED <<srv, route, answers, round, proc, calls, faults>>
         /\ taskFaults' = taskFaults \/ taskFaults' = taskFaults + 1
         /\ \/ UNCHANGED master
            \/ \E n \in Nodes : master' = master \cup {n} \/ master' = master \ {n}
<1>1. UNCHANGED <<srv, route, answers, round, proc, calls, faults>>
  BY DEF TaskStep
<1> DEFINE Goal == /\ taskFaults' = taskFaults \/ taskFaults' = taskFaults + 1
                   /\ \/ UNCHANGED master
                      \/ \E n \in Nodes : master' = master \cup {n} \/ master' = master \ {n}
<1>2. ASSUME NEW c \in TaskClients, TaskRun!ClientStep(c) PROVE Goal
  BY <1>2 DEF TaskRun!ClientStep, TaskRun!AddTask, TaskRun!AddTaskFind,
              TaskRun!AddTaskInsert, TaskRun!AddTaskUpdate, TaskRun!Spend
<1>3. ASSUME NEW id \in TaskIds, TaskRun!StopTask(id) \/ TaskRun!ClearExpiredTaskLogs(id)
      PROVE  Goal
  BY <1>3 DEF TaskRun!StopTask, TaskRun!ClearExpiredTaskLogs
<1>4. ASSUME NEW r \in TaskRun!Run, NEW status \in TaskRun!Final,
             TaskRun!ConfirmTask(r, status)
      PROVE  Goal
  BY <1>4 DEF TaskRun!ConfirmTask, TaskRun!Spend
<1>5. ASSUME NEW n \in Nodes, TaskRun!SchedStep(n) PROVE Goal
  BY <1>5 DEF TaskRun!SchedStep, TaskRun!PollTasks, TaskRun!PollSrvs,
              TaskRun!PollRoutes, TaskRun!Send, TaskRun!Spend
<1>6. ASSUME NEW n \in Nodes, TaskRun!Elect(n) \/ TaskRun!Depose(n) PROVE Goal
  BY <1>6 DEF TaskRun!Elect, TaskRun!Depose
<1>7. ASSUME NEW w \in TaskRun!Workers, TaskRun!WorkerStep(w) PROVE Goal
  <2>1. CASE TaskRun!LockTask(w) \/ TaskRun!SaveTaskStartedLog(w) \/ TaskRun!CallbackSrv(w)
    BY <2>1 DEF TaskRun!LockTask, TaskRun!SaveTaskStartedLog, TaskRun!CallbackSrv,
                TaskRun!Spend
  <2>2. CASE TaskRun!CallbackRefused(w) \/ TaskRun!CallbackReply(w) \/ TaskRun!CallbackLost(w)
    BY <2>2 DEF TaskRun!CallbackRefused, TaskRun!CallbackReply, TaskRun!CallbackLost,
                TaskRun!Fault
  <2>3. CASE TaskRun!SaveTaskCallbackLog(w) \/ TaskRun!SubmitTaskResp(w)
    BY <2>3 DEF TaskRun!SaveTaskCallbackLog, TaskRun!SubmitTaskResp, TaskRun!Spend
  <2> QED
    BY <1>7, <2>1, <2>2, <2>3 DEF TaskRun!WorkerStep
<1>8. ASSUME TaskRun!Tick PROVE Goal
  BY <1>8 DEF TaskRun!Tick
<1>9. Goal
  BY <1>2, <1>3, <1>4, <1>5, <1>6, <1>7, <1>8 DEF TaskStep
<1> QED
  BY <1>1, <1>9

(* A step of the registry is a step of module Registry.                      *)
LEMMA RegistryStepIsNext == RegistryStep => Next
  BY DEF RegistryStep, Next

-----------------------------------------------------------------------------
(* The registry's invariants hold in the composition. *)

SystemInv ==
  /\ TypeOK
  /\ OneSrvInv
  /\ taskFaults \in Nat
  /\ NoFailure => EmptySrvSettled

LEMMA SystemInvInit == SystemInit => SystemInv
<1> SUFFICES ASSUME SystemInit PROVE SystemInv
  OBVIOUS
<1>1. NewRound \in RoundState
  BY DEF NewRound, RoundState
<1>2. master = {} /\ taskFaults = 0
  BY DEF SystemInit, TaskRun!Init
<1>3. TypeOK
  BY <1>1, <1>2, IdleType, RegistryBounds DEF SystemInit, TypeOK, RowStates
<1>4. OneSrvInv
  BY DEF SystemInit, OneSrvInv, RoutesOfSrv, ListedOfSrv, Idle, NewRound
<1>5. EmptySrvSettled
  <2>1. RoutedSrvs = Srvs
    BY DEF SystemInit, TaskRun!Init
  <2> QED
    BY <2>1 DEF EmptySrvSettled, Settled, RoutedSrvs
<1> QED
  BY <1>2, <1>3, <1>4, <1>5 DEF SystemInv

(* A crash leaves the tables as they are; what died with it was nobody's    *)
(* any more.                                                                 *)
LEMMA CrashInv ==
  ASSUME SystemInv, NEW n \in Nodes, Crash(n)
  PROVE  SystemInv'
<1>1. /\ \A p \in Procs : proc'[p] = Idle \/ proc'[p] = proc[p]
      /\ DOMAIN proc' = Procs /\ proc' = [p \in Procs |-> proc'[p]]
  BY DEF Crash
<1>2. NewRound \in RoundState
  BY DEF NewRound, RoundState
<1>3. master' = master \ {n} /\ taskFaults' = taskFaults + 1
  BY DEF Crash, TaskRun!Crash, TaskRun!Fault
<1>4. UNCHANGED <<srv, route, answers, calls, faults>>
  BY DEF Crash
<1>5. TypeOK'
  <2>1. proc' \in [Procs -> ProcState]
    BY <1>1, IdleType DEF SystemInv, TypeOK
  <2>2. round' \in [Nodes -> RoundState]
    BY <1>2 DEF Crash, SystemInv, TypeOK
  <2> QED
    BY <1>3, <1>4, <2>1, <2>2 DEF SystemInv, TypeOK
<1>6. OneSrvInv'
  <2>1. RoutesOfSrv'
    BY <1>1 DEF SystemInv, OneSrvInv, RoutesOfSrv, Idle
  <2>2. ListedOfSrv'
    BY DEF Crash, SystemInv, OneSrvInv, ListedOfSrv, NewRound, TypeOK
  <2> QED
    BY <2>1, <2>2 DEF OneSrvInv
<1>7. ~NoFailure' /\ taskFaults' \in Nat
  BY <1>3 DEF SystemInv, NoFailure
<1> QED
  BY <1>5, <1>6, <1>7 DEF SystemInv

(* A failure of the registry is counted.                                     *)
LEMMA FaultsCounted ==
  ASSUME TypeOK, [Next]_vars, faults' = 0
  PROVE  faults = 0
  BY FaultsGrow, RegistryBounds DEF TypeOK

LEMMA SystemInvStep == SystemInv /\ [SystemNext]_systemVars => SystemInv'
<1> SUFFICES ASSUME SystemInv, [SystemNext]_systemVars PROVE SystemInv'
  OBVIOUS
<1>1. ASSUME UNCHANGED <<srv, route, answers, round, proc, calls, faults>>,
             master' \subseteq Nodes,
             taskFaults' = taskFaults \/ taskFaults' = taskFaults + 1
      PROVE  SystemInv'
  <2>1. TypeOK'
    BY <1>1 DEF SystemInv, TypeOK
  <2>2. OneSrvInv'
    BY <1>1 DEF SystemInv, OneSrvInv, RoutesOfSrv, ListedOfSrv
  <2>3. taskFaults' \in Nat /\ (NoFailure' => NoFailure)
    BY <1>1 DEF SystemInv, NoFailure
  <2>4. EmptySrvSettled => EmptySrvSettled'
    BY <1>1 DEF EmptySrvSettled, Settled, SrvLive, LiveRoutes, RouteLive, Settles, RouteOf
  <2> QED
    BY <2>1, <2>2, <2>3, <2>4 DEF SystemInv
<1>2. CASE UNCHANGED systemVars
  BY <1>1, <1>2 DEF systemVars, taskVars, vars, SystemInv, TypeOK
<1>3. CASE TaskStep
  BY <1>1, <1>3, TaskStepCases DEF SystemInv, TypeOK
<1>4. CASE RegistryStep
  <2>1. [Next]_vars /\ UNCHANGED taskFaults
    BY <1>4, RegistryStepIsNext DEF RegistryStep, taskVars
  <2>2. TypeOK' /\ OneSrvInv'
    BY <2>1, TypeStep, OneSrvStep DEF SystemInv
  <2>3. ASSUME NoFailure' PROVE EmptySrvSettled'
    <3>1. faults' = 0 /\ faults = 0 /\ taskFaults = 0
      BY <2>1, <2>3, FaultsCounted DEF NoFailure, SystemInv
    <3>2. EmptySrvSettled
      BY <3>1 DEF SystemInv, NoFailure
    <3> QED
      BY <2>1, <3>1, <3>2, SettledStep DEF SystemInv
  <2> QED
    BY <2>1, <2>2, <2>3 DEF SystemInv
<1>5. CASE \E n \in Nodes : Crash(n)
  BY <1>5, CrashInv
<1> QED
  BY <1>2, <1>3, <1>4, <1>5 DEF SystemNext

(* The registry's invariants survive in the composition, crashes included.   *)
THEOREM SystemInvariant == SystemSpec => []SystemInv
  BY SystemInvInit, SystemInvStep, PTL DEF SystemSpec

-----------------------------------------------------------------------------
(* TaskRun *)

(* What TaskRun lets the registry do in one step.                            *)
OneFactChanges ==
  \/ UNCHANGED <<LiveSrvs, RoutedSrvs>>
  \/ \E s \in Srvs : /\ LiveSrvs' = LiveSrvs \cup {s} \/ LiveSrvs' = LiveSrvs \ {s}
                     /\ UNCHANGED RoutedSrvs
  \/ \E s \in Srvs : /\ RoutedSrvs' = RoutedSrvs \cup {s} \/ RoutedSrvs' = RoutedSrvs \ {s}
                     /\ UNCHANGED LiveSrvs

LEMMA SameLive ==
  ASSUME \A s \in Srvs : srv'[s].state = srv[s].state
  PROVE  UNCHANGED LiveSrvs
  BY DEF LiveSrvs, SrvLive

LEMMA SameRouted ==
  ASSUME UNCHANGED route
  PROVE  UNCHANGED RoutedSrvs
  BY DEF RoutedSrvs, LiveRoutes, RouteLive

(* A write to the row of one service.                                        *)
LEMMA LiveChange ==
  ASSUME NEW s \in Srvs, UNCHANGED route,
         \A q \in Srvs : q # s => srv'[q].state = srv[q].state
  PROVE  OneFactChanges
<1>1. CASE SrvLive(s)'
  <2>1. LiveSrvs' = LiveSrvs \cup {s}
    BY <1>1 DEF LiveSrvs, SrvLive
  <2> QED
    BY <2>1, SameRouted DEF OneFactChanges
<1>2. CASE ~SrvLive(s)'
  <2>1. LiveSrvs' = LiveSrvs \ {s}
    BY <1>2 DEF LiveSrvs, SrvLive
  <2> QED
    BY <2>1, SameRouted DEF OneFactChanges
<1> QED
  BY <1>1, <1>2

(* A write to routes of one service.                                         *)
LEMMA RoutedChange ==
  ASSUME NEW s \in Srvs, UNCHANGED srv,
         \A r \in Routes : r[1] # s => route'[r] = route[r]
  PROVE  OneFactChanges
<1>1. \A q \in Srvs : q # s => (LiveRoutes(q) # {})' = (LiveRoutes(q) # {})
  <2> SUFFICES ASSUME NEW q \in Srvs, q # s PROVE LiveRoutes(q)' = LiveRoutes(q)
    OBVIOUS
  <2> QED
    BY DEF LiveRoutes, RouteLive
<1>2. UNCHANGED LiveSrvs
  BY SameLive
<1>3. CASE (LiveRoutes(s) # {})'
  <2>1. RoutedSrvs' = RoutedSrvs \cup {s}
    BY <1>1, <1>3 DEF RoutedSrvs
  <2> QED
    BY <1>2, <2>1 DEF OneFactChanges
<1>4. CASE ~(LiveRoutes(s) # {})'
  <2>1. RoutedSrvs' = RoutedSrvs \ {s}
    BY <1>1, <1>4 DEF RoutedSrvs
  <2> QED
    BY <1>2, <2>1 DEF OneFactChanges
<1> QED
  BY <1>3, <1>4

(* The statements of a registration.                                         *)
LEMMA RegisterChanges ==
  ASSUME SystemInv, NEW c \in Clients, RegisterStep(c)
  PROVE  OneFactChanges
<1>0. c \in Procs /\ proc[c] \in ProcState
  BY DEF Procs, SystemInv, TypeOK
<1>1. CASE FindSrv(c) \/ FindRoute(c)
  BY <1>1, SameLive, SameRouted DEF FindSrv, FindRoute, OneFactChanges
<1>2. CASE InsertSrv(c) \/ ReviveSrv(c)
  <2>1. proc[c].req.srv \in Srvs
    BY <1>0, <1>2, ProcCases, RegistryRequests
       DEF InsertSrv, ReviveSrv, SeekingSrv, SeekingRoute
  <2>2. UNCHANGED route
    BY <1>2 DEF InsertSrv, ReviveSrv
  <2>3. \A q \in Srvs : q # proc[c].req.srv => srv'[q].state = srv[q].state
    BY <1>2 DEF InsertSrv, ReviveSrv, SystemInv, TypeOK
  <2> QED
    BY <2>1, <2>2, <2>3, LiveChange
<1>3. CASE InsertRoute(c) \/ UpdateRoute(c)
  <2>1. proc[c].req.srv \in Srvs
    BY <1>0, <1>3, ProcCases, RegistryRequests DEF InsertRoute, UpdateRoute, SeekingRoute
  <2>2. UNCHANGED srv
    BY <1>3 DEF InsertRoute, UpdateRoute
  <2>3. \A r \in Routes : r[1] # proc[c].req.srv => route'[r] = route[r]
    BY <1>3 DEF InsertRoute, UpdateRoute, WriteRoute, RouteOf, SystemInv, TypeOK
  <2> QED
    BY <2>1, <2>2, <2>3, RoutedChange
<1>4. CASE SetFlag(c)
  <2>1. UNCHANGED route /\ \A s \in Srvs : srv'[s].state = srv[s].state
    BY <1>4 DEF SetFlag, SystemInv, TypeOK
  <2> QED
    BY <2>1, SameLive, SameRouted DEF OneFactChanges
<1> QED
  BY <1>1, <1>2, <1>3, <1>4 DEF RegisterStep

(* The statements of DelSrvRoutes.                                           *)
LEMMA DelSrvRoutesChanges ==
  ASSUME SystemInv, NEW p \in Procs, DelSrvRoutesStep(p)
  PROVE  OneFactChanges
<1>0. proc[p] \in ProcState
  BY DEF SystemInv, TypeOK
<1>1. CASE TakeSrv(p) \/ CountRoutes(p)
  BY <1>1, SameLive, SameRouted DEF TakeSrv, CountRoutes, OneFactChanges
<1>2. CASE DelRoutes(p)
  <2>1. proc[p].srv \in Srvs
    BY <1>0, <1>2, ProcCases DEF DelRoutes, Deleting
  <2>2. \A r \in proc[p].routes : r[1] = proc[p].srv
    BY <1>2 DEF DelRoutes, SystemInv, OneSrvInv, RoutesOfSrv
  <2>3. \A r \in Routes : r[1] # proc[p].srv => route'[r] = route[r]
    BY <1>2, <2>2 DEF DelRoutes
  <2>4. UNCHANGED srv
    BY <1>2 DEF DelRoutes
  <2> QED
    BY <2>1, <2>3, <2>4, RoutedChange
<1>3. CASE DropSrv(p)
  <2>1. proc[p].srv \in Srvs
    BY <1>0, <1>3, ProcCases DEF DropSrv, Settling
  <2>2. UNCHANGED route /\ \A q \in Srvs : q # proc[p].srv => srv'[q].state = srv[q].state
    BY <1>3 DEF DropSrv, SystemInv, TypeOK
  <2> QED
    BY <2>1, <2>2, LiveChange
<1> QED
  BY <1>1, <1>2, <1>3 DEF DelSrvRoutesStep

(* Every step of the registry changes one of the two facts about one service *)
(* at most.                                                                  *)
LEMMA RegistryChanges == SystemInv /\ RegistryStep => OneFactChanges
<1> SUFFICES ASSUME SystemInv, RegistryStep PROVE OneFactChanges
  OBVIOUS
<1>1. ASSUME UNCHANGED <<srv, route>> PROVE OneFactChanges
  BY <1>1, SameLive, SameRouted DEF OneFactChanges
<1>2. ASSUME NEW c \in Clients,
             \/ \E req \in Requests : Register(c, req)
             \/ \E r \in Routes : Unregister(c, r)
             \/ Discover(c) \/ DiscoverRoutes(c)
      PROVE  UNCHANGED <<srv, route>>
  BY <1>2 DEF Register, Unregister, Discover, DiscoverRoutes
<1>3. ASSUME NEW w \in Workers, Beat(w) PROVE UNCHANGED <<srv, route>>
  BY <1>3, BeatJudges
<1>4. ASSUME NEW n \in Nodes, RoundStep(n) \/ AbortRound(n) PROVE UNCHANGED <<srv, route>>
  BY <1>4 DEF RoundStep, ReadSrvs, ReadRoutes, SendSrv, AbortRound
<1>5. ASSUME NEW p \in Procs, Abort(p) PROVE UNCHANGED <<srv, route>>
  BY <1>5 DEF Abort
<1>6. ASSUME NEW a \in Addrs, Die(a) \/ Restart(a) PROVE UNCHANGED <<srv, route>>
  BY <1>6 DEF Die, Restart
<1> QED
  BY <1>1, <1>2, <1>3, <1>4, <1>5, <1>6, RegisterChanges, DelSrvRoutesChanges
     DEF RegistryStep, CallStep, CheckStep, Beat, Procs

(* Each step of the composition is a step of TaskRun, or none.               *)
LEMMA StepOfTaskRun ==
  SystemInv /\ [SystemNext]_systemVars => [TaskRun!Next]_(TaskRun!vars)
<1> SUFFICES ASSUME SystemInv, [SystemNext]_systemVars
             PROVE  [TaskRun!Next]_(TaskRun!vars)
  OBVIOUS
<1>1. CASE UNCHANGED systemVars
  <2>1. UNCHANGED <<LiveSrvs, RoutedSrvs>>
    BY <1>1, SameLive, SameRouted DEF systemVars, vars
  <2> QED
    BY <1>1, <2>1 DEF systemVars, taskVars, vars, TaskRun!vars
<1>2. CASE TaskStep
  <2>1. TaskRun!Next
    BY <1>2 DEF TaskStep, TaskRun!Next
  <2> QED
    BY <2>1
<1>3. CASE RegistryStep
  <2>1. UNCHANGED <<taskVars, master>>
    BY <1>3 DEF RegistryStep
  <2>2. OneFactChanges
    BY <1>3, RegistryChanges
  <2>3. CASE UNCHANGED <<LiveSrvs, RoutedSrvs>>
    BY <2>1, <2>3 DEF taskVars, TaskRun!vars
  <2>4. CASE ~UNCHANGED <<LiveSrvs, RoutedSrvs>>
    <3>1. \E s \in Srvs : TaskRun!RegistryStep(s)
      BY <2>1, <2>2, <2>4, ServicesMayChange
         DEF OneFactChanges, taskVars, TaskRun!RegistryStep
    <3> QED
      BY <3>1 DEF TaskRun!Next
  <2> QED
    BY <2>3, <2>4
<1>4. ASSUME NEW n \in Nodes, Crash(n) PROVE TaskRun!Next
  BY <1>4 DEF Crash, TaskRun!Next
<1> QED
  BY <1>1, <1>2, <1>3, <1>4 DEF SystemNext

(* TaskRun's view of the registry, two facts that change at any time, is what *)
(* the registry's tables give it: every behaviour of the composition is one  *)
(* of TaskRun, so what is proved of TaskRun holds of the whole cluster.       *)
THEOREM SystemImplementsTaskRun == SystemSpec => ImplementsTaskRun
<1>1. SystemInit => TaskRun!Init
  BY DEF SystemInit
<1> QED
  BY <1>1, SystemInvariant, StepOfTaskRun, PTL
     DEF SystemSpec, ImplementsTaskRun, TaskRun!Spec

-----------------------------------------------------------------------------
(* UnroutedInPassing *)

(* The loop of one process only moves on its own step.                       *)
LEMMA SchedStepChanges ==
  ASSUME NEW m \in Nodes, TaskRun!SchedStep(m)
  PROVE  \E state : sched' = [sched EXCEPT ![m] = state]
<1>1. CASE TaskRun!PollTasks(m)
  BY <1>1 DEF TaskRun!PollTasks, TaskRun!NoMoreTasks, TaskRun!PollFailed
<1>2. CASE TaskRun!PollSrvs(m)
  BY <1>2 DEF TaskRun!PollSrvs, TaskRun!NoMoreTasks, TaskRun!PollFailed
<1>3. CASE TaskRun!PollRoutes(m)
  BY <1>3 DEF TaskRun!PollRoutes, TaskRun!PollFailed
<1>4. ASSUME NEW k \in TaskSlots, TaskRun!Send(m, k)
      PROVE  \E state : sched' = [sched EXCEPT ![m] = state]
  BY <1>4 DEF TaskRun!Send
<1> QED
  BY <1>1, <1>2, <1>3, <1>4 DEF TaskRun!SchedStep

(* Whoever else steps leaves the loops alone, a crash aside.                 *)
LEMMA SchedSteps ==
  ASSUME [SystemNext]_systemVars
  PROVE  \/ UNCHANGED sched
         \/ \E m \in Nodes :
              \/ TaskRun!SchedStep(m)
              \/ sched' = [sched EXCEPT ![m] = TaskRun!FreshSched]
<1>1. CASE UNCHANGED systemVars
  BY <1>1 DEF systemVars, taskVars
<1>2. CASE RegistryStep
  BY <1>2 DEF RegistryStep, taskVars
<1>3. CASE \E n \in Nodes : Crash(n)
  BY <1>3 DEF Crash, TaskRun!Crash
<1>4. ASSUME NEW c \in TaskClients, TaskRun!ClientStep(c) PROVE UNCHANGED sched
  BY <1>4 DEF TaskRun!ClientStep, TaskRun!AddTask, TaskRun!AddTaskFind,
              TaskRun!AddTaskInsert, TaskRun!AddTaskUpdate
<1>5. ASSUME NEW id \in TaskIds, TaskRun!StopTask(id) \/ TaskRun!ClearExpiredTaskLogs(id)
      PROVE  UNCHANGED sched
  BY <1>5 DEF TaskRun!StopTask, TaskRun!ClearExpiredTaskLogs
<1>6. ASSUME NEW r \in TaskRun!Run, NEW status \in TaskRun!Final,
             TaskRun!ConfirmTask(r, status)
      PROVE  UNCHANGED sched
  BY <1>6 DEF TaskRun!ConfirmTask
<1>7. ASSUME NEW n \in Nodes, TaskRun!Elect(n) \/ TaskRun!Depose(n) PROVE UNCHANGED sched
  BY <1>7 DEF TaskRun!Elect, TaskRun!Depose
<1>8. ASSUME NEW w \in TaskRun!Workers, TaskRun!WorkerStep(w) PROVE UNCHANGED sched
  BY <1>8 DEF TaskRun!WorkerStep, TaskRun!LockTask, TaskRun!SaveTaskStartedLog,
              TaskRun!CallbackSrv, TaskRun!CallbackRefused, TaskRun!CallbackReply,
              TaskRun!CallbackLost, TaskRun!SaveTaskCallbackLog, TaskRun!SubmitTaskResp
<1>9. ASSUME TaskRun!Tick PROVE UNCHANGED sched
  BY <1>9 DEF TaskRun!Tick
<1> QED
  BY <1>1, <1>2, <1>3, <1>4, <1>5, <1>6, <1>7, <1>8, <1>9 DEF SystemNext, TaskStep

(* There is a loop for each process, and for no other.                       *)
SchedOfNodes == DOMAIN sched = Nodes

LEMMA SchedOfNodesInit == SystemInit => SchedOfNodes
  BY DEF SystemInit, TaskRun!Init, SchedOfNodes

LEMMA SchedOfNodesStep == SchedOfNodes /\ [SystemNext]_systemVars => SchedOfNodes'
  BY SchedSteps, SchedStepChanges DEF SchedOfNodes

(* A list leaves the loop with the services that had a route when the list   *)
(* was read.                                                                 *)
LEMMA RoutesRead ==
  ASSUME SchedOfNodes, [SystemNext]_systemVars, NEW n \in Nodes,
         sched[n].pc = "routes", sched'[n].pc = "send",
         NEW t \in sched'[n].batch
  PROVE  t.routed = (sched[n].rows[t.id].callbackSrvId \in RoutedSrvs)
<1>1. PICK m \in Nodes : \/ TaskRun!SchedStep(m)
                        \/ sched' = [sched EXCEPT ![m] = TaskRun!FreshSched]
  BY SchedSteps
<1>2. ~(sched' = [sched EXCEPT ![m] = TaskRun!FreshSched])
  BY DEF SchedOfNodes, TaskRun!FreshSched
<1>3. m = n
  BY <1>1, <1>2, SchedStepChanges DEF SchedOfNodes
<1>4. TaskRun!PollRoutes(n)
  BY <1>1, <1>2, <1>3 DEF TaskRun!SchedStep, TaskRun!PollTasks, TaskRun!PollSrvs, TaskRun!Send
<1> DEFINE rows == sched[n].rows
           ids == {id \in TaskRun!Read(rows) : rows[id].callbackSrvId \in sched[n].srvs}
<1>5. ~TaskRun!PollFailed(n)
  BY DEF TaskRun!PollFailed, SchedOfNodes
<1>6. sched'[n].batch = {TaskRun!ToEntity(id, rows[id], rows[id].callbackSrvId \in RoutedSrvs) :
                           id \in ids}
  BY <1>4, <1>5 DEF TaskRun!PollRoutes, SchedOfNodes
<1>7. PICK id \in ids : t = TaskRun!ToEntity(id, rows[id], rows[id].callbackSrvId \in RoutedSrvs)
  BY <1>6
<1> QED
  BY <1>7 DEF TaskRun!ToEntity

(* A scheduler finds a live service without a route only while a call or a   *)
(* check that will bring one, or take the service, is halfway: for any       *)
(* number of calls, processes and tasks, as long as nothing failed.          *)
THEOREM UnroutedInPassingHolds == SystemSpec => UnroutedInPassing
<1>1. ASSUME SystemInv, SchedOfNodes, [SystemNext]_systemVars, NoFailure,
             NEW n \in Nodes, NEW id \in TaskIds, NEW s \in Srvs,
             sched[n].pc = "routes", sched'[n].pc = "send",
             sched[n].rows[id].callbackSrvId = s,
             NEW t \in sched'[n].batch, t.id = id, ~t.routed,
             SrvLive(s)
      PROVE  \E p \in Procs : Settles(p, s)
  <2>1. s \notin RoutedSrvs
    BY <1>1, RoutesRead
  <2>2. LiveRoutes(s) = {}
    BY <2>1 DEF RoutedSrvs
  <2>3. EmptySrvSettled
    BY <1>1 DEF SystemInv
  <2> QED
    BY <1>1, <2>2, <2>3 DEF EmptySrvSettled, Settled
<1> DEFINE Unrouted ==
      NoFailure =>
        \A n \in Nodes, id \in TaskIds, s \in Srvs :
          /\ sched[n].pc = "routes" /\ sched'[n].pc = "send"
          /\ sched[n].rows[id].callbackSrvId = s
          /\ \E t \in sched'[n].batch : t.id = id /\ ~t.routed
          => ~SrvLive(s) \/ \E p \in Procs : Settles(p, s)
<1>2. SystemInv /\ SchedOfNodes /\ [SystemNext]_systemVars => [Unrouted]_systemVars
  BY <1>1
<1>3. SystemSpec => []SchedOfNodes
  BY SchedOfNodesInit, SchedOfNodesStep, PTL DEF SystemSpec
<1> QED
  BY <1>2, <1>3, SystemInvariant, PTL DEF SystemSpec, UnroutedInPassing
==============================================================================
