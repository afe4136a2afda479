------------------------------- MODULE Shutdown -------------------------------
(***************************************************************************)
(* The end of one easytask process.  On a signal main.go stops, one after  *)
(* the other, the election, the registry, the worker engine and the HTTP   *)
(* server, and exits.  Each part has loops that look for their stop signal *)
(* only at their head, workers that look at a pause flag only while they   *)
(* wait, and a WaitGroup that counts them.  What the loops send and the    *)
(* workers do is left out here: a page of services, a batch of tasks and a *)
(* run are numbers and program counters.                                   *)
(***************************************************************************)
EXTENDS Integers

CONSTANTS
  Checkers,   \* the health check workers of the registry
  Workers,    \* the workers of the engine
  Requests,   \* the HTTP requests that arrive in the life of the process
  MaxPages,   \* bound on the pages of one health check round
  PageSize,   \* services in a page of the health check
  BatchSize   \* tasks in a batch of the scheduler

ASSUME ShutdownBounds == MaxPages \in Nat /\ PageSize \in Nat /\ BatchSize \in Nat

VARIABLES
  main,       \* the signal handler of main.go
  regPaused,  \* Registry.isPaused
  round,      \* Registry.sched and the round of HealthCheck it is in
  checker,    \* Registry.runWorker, for each health check worker
  engPaused,  \* WorkerEngine.isPaused
  sched,      \* Sched.schedule
  worker,     \* WorkerEngine.runWorker, for each worker
  apiPaused,  \* HttpRouter.isPaused
  request,    \* the handler of each HTTP request
  misused     \* HttpRouter.servingWait was used in a way that breaks it

registryVars == <<regPaused, round, checker>>
engineVars   == <<engPaused, sched, worker>>
apiVars      == <<apiPaused, request, misused>>

vars == <<main, registryVars, engineVars, apiVars>>

AtHead == [pc |-> "head"]
Ended  == [pc |-> "gone"]

(* What the WaitGroup of a pool counts: Add when a worker is created, Done  *)
(* when it leaves.  A worker that returned without Done stays counted.      *)
Counted(pool) == {p \in DOMAIN pool : pool[p] \notin {"new", "gone"}}

(* What servingWait counts: Add is the first thing a handler does. *)
Serving == {r \in Requests : request[r] \in {"counted", "handling", "refused"}}

-----------------------------------------------------------------------------
(* The signal handler *)

(* Another signal that arrives while the handler is busy is dropped, for    *)
(* the channel has no buffer.                                               *)
Signal ==
  /\ main = "serving"
  /\ main' = "stop_elect"
  /\ UNCHANGED <<registryVars, engineVars, apiVars>>

StopElect ==
  /\ main = "stop_elect"
  /\ main' = "pause_registry"
  /\ UNCHANGED <<registryVars, engineVars, apiVars>>

(* Registry.Stop: first the flag, ... *)
PauseRegistry ==
  /\ main = "pause_registry"
  /\ main' = "signal_round"
  /\ regPaused' = TRUE
  /\ UNCHANGED <<round, checker, engineVars, apiVars>>

(* ... then the signal, which the loop takes at its head only, ... *)
SignalRound ==
  /\ main = "signal_round"
  /\ round = AtHead
  /\ main' = "wait_checkers"
  /\ round' = Ended
  /\ UNCHANGED <<regPaused, checker, engineVars, apiVars>>

(* Mutant of WaitCheckers: the engine too is paused before its scheduler is *)
(* stopped.                                                                 *)
WaitCheckersPauseWorkers ==
  /\ main = "wait_checkers"
  /\ Counted(checker) = {}
  /\ main' = "signal_sched"
  /\ engPaused' = TRUE
  /\ UNCHANGED <<registryVars, sched, worker, apiVars>>

(* ... then the wait for the health check workers. *)
WaitCheckers ==
  /\ main = "wait_checkers"
  /\ Counted(checker) = {}
  /\ main' = "signal_sched"
  /\ UNCHANGED <<registryVars, engineVars, apiVars>>

(* WorkerEngine.Stop: here the scheduler is stopped first. *)
SignalSched ==
  /\ main = "signal_sched"
  /\ sched = AtHead
  /\ main' = "pause_workers"
  /\ sched' = Ended
  /\ UNCHANGED <<registryVars, engPaused, worker, apiVars>>

PauseWorkers ==
  /\ main = "pause_workers"
  /\ main' = "wait_workers"
  /\ engPaused' = TRUE
  /\ UNCHANGED <<registryVars, sched, worker, apiVars>>

(* Mutant of WaitWorkers: nobody waits. *)
WaitWorkersNot ==
  /\ main = "wait_workers"
  /\ main' = "pause_api"
  /\ UNCHANGED <<registryVars, engineVars, apiVars>>

WaitWorkers ==
  /\ main = "wait_workers"
  /\ Counted(worker) = {}
  /\ main' = "pause_api"
  /\ UNCHANGED <<registryVars, engineVars, apiVars>>

(* Mutant of PauseApi: the flag comes after the wait, too late for those who *)
(* arrive in between.                                                        *)
PauseApiLate ==
  /\ main = "pause_api"
  /\ main' = "wait_api"
  /\ UNCHANGED <<registryVars, engineVars, apiVars>>

(* HttpRouter.Stop; the listener stays open. *)
PauseApi ==
  /\ main = "pause_api"
  /\ main' = "wait_api"
  /\ apiPaused' = TRUE
  /\ UNCHANGED <<registryVars, engineVars, request, misused>>

WaitApi ==
  /\ main = "wait_api"
  /\ Serving = {} /\ ~misused
  /\ main' = "flush"
  /\ UNCHANGED <<registryVars, engineVars, apiVars>>

(* os.Exit: no goroutine takes another step. *)
Exit ==
  /\ main = "flush"
  /\ main' = "exited"
  /\ UNCHANGED <<registryVars, engineVars, apiVars>>

-----------------------------------------------------------------------------
(* The registry *)

(* A round of HealthCheck, unless the handler stands at the channel. *)
StartRound ==
  /\ round = AtHead
  /\ main # "signal_round"
  /\ round' = [pc |-> "page", pages |-> 0]
  /\ UNCHANGED <<main, regPaused, checker, engineVars, apiVars>>

(* Mutant of PageLoads: the round goes on for ever. *)
PageLoadsUnbounded(pages) == 0 .. PageSize

(* How many services the next page may hold; the tables are finite. *)
PageLoads(pages) == IF pages < MaxPages THEN 0 .. PageSize ELSE {0}

(* An empty page or an error ends the round. *)
ReadPage ==
  /\ round.pc = "page"
  /\ \E load \in PageLoads(round.pages) :
       round' = IF load = 0 THEN AtHead
                ELSE [pc |-> "send", pages |-> round.pages + 1, left |-> load]
  /\ UNCHANGED <<main, regPaused, checker, engineVars, apiVars>>

(* The unbuffered channel readyCheckSrvChan. *)
SendSrv(c) ==
  /\ round.pc = "send"
  /\ checker[c] = "idle"
  /\ checker' = [checker EXCEPT ![c] = "beat"]
  /\ round' = IF round.left = 1 THEN [pc |-> "page", pages |-> round.pages]
              ELSE [round EXCEPT !.left = @ - 1]
  /\ UNCHANGED <<main, regPaused, engineVars, apiVars>>

(* createHealthCheckWorkerPool has a goroutine of its own. *)
StartChecker(c) ==
  /\ checker[c] = "new"
  /\ checker' = [checker EXCEPT ![c] = "idle"]
  /\ UNCHANGED <<main, regPaused, round, engineVars, apiVars>>

(* The heart beat and what it deletes. *)
EndBeat(c) ==
  /\ checker[c] = "beat"
  /\ checker' = [checker EXCEPT ![c] = "idle"]
  /\ UNCHANGED <<main, regPaused, round, engineVars, apiVars>>

(* The ticker of a worker that waits finds the flag set. *)
LeaveChecker(c) ==
  /\ checker[c] = "idle"
  /\ regPaused
  /\ checker' = [checker EXCEPT ![c] = "gone"]
  /\ UNCHANGED <<main, regPaused, round, engineVars, apiVars>>

-----------------------------------------------------------------------------
(* The worker engine *)

(* WorkerEngine.Run creates the workers, then it schedules. *)
StartWorker(w) ==
  /\ worker[w] = "new"
  /\ worker' = [worker EXCEPT ![w] = "idle"]
  /\ UNCHANGED <<main, registryVars, engPaused, sched, apiVars>>

StartSched ==
  /\ sched.pc = "new"
  /\ \A w \in Workers : worker[w] # "new"
  /\ sched' = AtHead
  /\ UNCHANGED <<main, registryVars, engPaused, worker, apiVars>>

(* TimeoutTasks found a batch; a node that is no master, an error and an    *)
(* empty page lead back to the head of the loop.                            *)
PollTasks ==
  /\ sched = AtHead
  /\ main # "signal_sched"
  /\ \E load \in 1 .. BatchSize : sched' = [pc |-> "send", left |-> load]
  /\ UNCHANGED <<main, registryVars, engPaused, worker, apiVars>>

(* The unbuffered channel taskCh.  A worker that is given a task without a  *)
(* route returns and never calls Done.                                      *)
SendTask(w) ==
  /\ sched.pc = "send"
  /\ worker[w] = "idle"
  /\ \E state \in {"run", "dead"} : worker' = [worker EXCEPT ![w] = state]
  /\ sched' = IF sched.left = 1 THEN AtHead ELSE [sched EXCEPT !.left = @ - 1]
  /\ UNCHANGED <<main, registryVars, engPaused, apiVars>>

(* From LockTask to submitTaskResp. *)
EndRun(w) ==
  /\ worker[w] = "run"
  /\ worker' = [worker EXCEPT ![w] = "idle"]
  /\ UNCHANGED <<main, registryVars, engPaused, sched, apiVars>>

LeaveWorker(w) ==
  /\ worker[w] = "idle"
  /\ engPaused
  /\ worker' = [worker EXCEPT ![w] = "gone"]
  /\ UNCHANGED <<main, registryVars, engPaused, sched, apiVars>>

-----------------------------------------------------------------------------
(* The HTTP server *)

RequestIs(r, state) == request' = [request EXCEPT ![r] = state]

(* servingWait.Add(1) ... *)
Arrive(r) ==
  /\ request[r] = "out"
  /\ RequestIs(r, "counted")
  /\ UNCHANGED <<main, registryVars, engineVars, apiPaused, misused>>

(* ... then the look at isPaused. *)
CheckPaused(r) ==
  /\ request[r] = "counted"
  /\ RequestIs(r, IF apiPaused THEN "refused" ELSE "handling")
  /\ UNCHANGED <<main, registryVars, engineVars, apiPaused, misused>>

(* The handler returns: its answer is in the buffer of net/http, and the    *)
(* deferred Done has been called.                                           *)
ReturnFromHandler(r) ==
  /\ request[r] \in {"handling", "refused"}
  /\ RequestIs(r, "returned")
  /\ UNCHANGED <<main, registryVars, engineVars, apiPaused, misused>>

FlushAnswer(r) ==
  /\ request[r] = "returned"
  /\ RequestIs(r, "answered")
  /\ UNCHANGED <<main, registryVars, engineVars, apiPaused, misused>>

(* The Done of the last request finds the handler of main.go waiting, and   *)
(* before it has released it r calls Add: both panic, net/http recovers     *)
(* from it and drops both connections, r stays counted and nobody releases  *)
(* the waiting handler.                                                     *)
ArriveDuringDone(r, last) ==
  /\ main = "wait_api"
  /\ Serving = {last}
  /\ request[last] \in {"handling", "refused"}
  /\ request[r] = "out"
  /\ request' = [request EXCEPT ![r] = "dropped", ![last] = "dropped"]
  /\ misused' = TRUE
  /\ UNCHANGED <<main, registryVars, engineVars, apiPaused>>

-----------------------------------------------------------------------------
Init ==
  /\ main = "serving"
  /\ regPaused = FALSE
  /\ round = AtHead
  /\ checker = [c \in Checkers |-> "new"]
  /\ engPaused = FALSE
  /\ sched = [pc |-> "new"]
  /\ worker = [w \in Workers |-> "new"]
  /\ apiPaused = FALSE
  /\ request = [r \in Requests |-> "out"]
  /\ misused = FALSE

StopStep ==
  \/ StopElect
  \/ PauseRegistry \/ SignalRound \/ WaitCheckers
  \/ SignalSched \/ PauseWorkers \/ WaitWorkers
  \/ PauseApi \/ WaitApi
  \/ Exit

RoundStep == StartRound \/ ReadPage \/ \E c \in Checkers : SendSrv(c)

CheckerStep(c) == StartChecker(c) \/ EndBeat(c) \/ LeaveChecker(c)

SchedStep == StartSched \/ PollTasks \/ \E w \in Workers : SendTask(w)

WorkerStep(w) == StartWorker(w) \/ EndRun(w) \/ LeaveWorker(w)

RequestStep(r) == CheckPaused(r) \/ ReturnFromHandler(r) \/ FlushAnswer(r)

Next ==
  /\ main # "exited"
  /\ \/ Signal
     \/ StopStep
     \/ RoundStep
     \/ \E c \in Checkers : CheckerStep(c)
     \/ SchedStep
     \/ \E w \in Workers : WorkerStep(w)
     \/ \E r \in Requests :
          \/ Arrive(r)
          \/ RequestStep(r)
          \/ \E last \in Requests : ArriveDuringDone(r, last)

Spec == Init /\ [][Next]_vars

(* Goroutines are scheduled; heart beats, runs and API calls end.  Nobody   *)
(* has to send a signal or a request.                                       *)
FairSpec ==
  /\ Spec
  /\ WF_vars(StopStep)
  /\ WF_vars(RoundStep)
  /\ WF_vars(SchedStep)
  /\ \A c \in Checkers : WF_vars(CheckerStep(c))
  /\ \A w \in Workers : WF_vars(WorkerStep(w))
  /\ \A r \in Requests : WF_vars(RequestStep(r))

-----------------------------------------------------------------------------
(* Types *)

MainStates ==
  {"serving", "stop_elect", "pause_registry", "signal_round", "wait_checkers",
   "signal_sched", "pause_workers", "wait_workers", "pause_api", "wait_api",
   "flush", "exited"}

RoundState ==
  [pc : {"head", "gone"}] \cup
  [pc : {"page"}, pages : 0 .. MaxPages] \cup
  [pc : {"send"}, pages : 0 .. MaxPages, left : 1 .. PageSize]

SchedState ==
  [pc : {"new", "head", "gone"}] \cup [pc : {"send"}, left : 1 .. BatchSize]

(* Every variable has its type. *)
TypeOK ==
  /\ main \in MainStates
  /\ regPaused \in BOOLEAN
  /\ round \in RoundState
  /\ checker \in [Checkers -> {"new", "idle", "beat", "gone"}]
  /\ engPaused \in BOOLEAN
  /\ sched \in SchedState
  /\ worker \in [Workers -> {"new", "idle", "run", "dead", "gone"}]
  /\ apiPaused \in BOOLEAN
  /\ request \in [Requests -> {"out", "counted", "handling", "refused",
                               "returned", "answered", "dropped"}]
  /\ misused \in BOOLEAN

-----------------------------------------------------------------------------
(* Safety *)

(* When the process exits no run and no heart beat is cut off, and no task   *)
(* or service is on its way to a worker, although pools may still be filled  *)
(* and batches read while the parts are being stopped.                       *)
NoWorkCut ==
  main = "exited" =>
    /\ round.pc # "send" /\ \A c \in Checkers : checker[c] # "beat"
    /\ sched.pc # "send" /\ \A w \in Workers : worker[w] # "run"

(* An API call that was let in has run to its end when the process exits,    *)
(* however close to the pause it came.                                       *)
AdmittedHandled ==
  main = "exited" => \A r \in Requests : request[r] # "handling"

(* ... and its answer has left the process. *)
NoAnswerCut ==
  main = "exited" => \A r \in Requests : request[r] # "returned"

-----------------------------------------------------------------------------
(* Liveness *)

(* A signal ends the process. *)
ShutdownEnds == (main = "stop_elect") ~> (main = "exited")

(* What keeps the process from ending: a worker that was lost to a task      *)
(* without routes and stays counted; a round with a service to send when all *)
(* the health check workers have left; a broken WaitGroup.                   *)
Obstructed ==
  \/ \E w \in Workers : worker[w] = "dead"
  \/ round.pc = "send" /\ \A c \in Checkers : checker[c] = "gone"
  \/ misused

(* Nothing else does: whatever the loops and workers are at when the signal  *)
(* comes, the parts wait for each other in an order that ends.               *)
ShutdownEndsUnlessObstructed ==
  (main = "stop_elect") ~> (main = "exited" \/ Obstructed)
==============================================================================
