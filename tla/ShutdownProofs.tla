---------------------------- MODULE ShutdownProofs ----------------------------
(***************************************************************************)
(* Proofs about Shutdown, for any pools, any requests and any page and      *)
(* batch sizes.                                                             *)
(***************************************************************************)
EXTENDS Shutdown, TLAPS

-----------------------------------------------------------------------------
(* Types *)

(* The types hold initially. *)
LEMMA InitType == Init => TypeOK
<1> SUFFICES ASSUME Init PROVE TypeOK
  OBVIOUS
<1>1. AtHead \in RoundState /\ [pc |-> "new"] \in SchedState
  BY DEF AtHead, RoundState, SchedState
<1>2. main \in MainStates
  BY DEF Init, MainStates
<1> QED
  BY <1>1, <1>2 DEF Init, TypeOK

(* The signal handler keeps the types. *)
LEMMA HandlerType == TypeOK /\ (Signal \/ StopStep) => TypeOK'
<1> SUFFICES ASSUME TypeOK, Signal \/ StopStep PROVE TypeOK'
  OBVIOUS
<1> USE DEF registryVars, engineVars, apiVars
<1>1. main' \in MainStates
  BY DEF Signal, StopStep, StopElect, PauseRegistry, SignalRound, WaitCheckers,
         SignalSched, PauseWorkers, WaitWorkers, PauseApi, WaitApi, Exit, MainStates
<1>2. regPaused' \in BOOLEAN /\ engPaused' \in BOOLEAN /\ apiPaused' \in BOOLEAN
  BY DEF Signal, StopStep, StopElect, PauseRegistry, SignalRound, WaitCheckers,
         SignalSched, PauseWorkers, WaitWorkers, PauseApi, WaitApi, Exit, TypeOK
<1>3. UNCHANGED <<checker, worker, request, misused>>
  BY DEF Signal, StopStep, StopElect, PauseRegistry, SignalRound, WaitCheckers,
         SignalSched, PauseWorkers, WaitWorkers, PauseApi, WaitApi, Exit
<1>4. round' \in {round, Ended} /\ sched' \in {sched, Ended}
  BY DEF Signal, StopStep, StopElect, PauseRegistry, SignalRound, WaitCheckers,
         SignalSched, PauseWorkers, WaitWorkers, PauseApi, WaitApi, Exit
<1>5. Ended \in RoundState /\ Ended \in SchedState
  BY DEF Ended, RoundState, SchedState
<1> QED
  BY <1>1, <1>2, <1>3, <1>4, <1>5 DEF TypeOK

(* A step of the round and its channel keeps the types. *)
LEMMA RoundType == TypeOK /\ RoundStep => TypeOK'
<1> SUFFICES ASSUME TypeOK, RoundStep PROVE TypeOK'
  OBVIOUS
<1> USE ShutdownBounds DEF registryVars, engineVars, apiVars
<1>1. CASE StartRound
  <2>1. [pc |-> "page", pages |-> 0] \in RoundState
    BY DEF RoundState
  <2> QED
    BY <1>1, <2>1 DEF StartRound, TypeOK
<1>2. CASE ReadPage
  <2>1. round \in [pc : {"page"}, pages : 0 .. MaxPages]
    BY <1>2 DEF ReadPage, TypeOK, RoundState
  <2>2. PICK load \in PageLoads(round.pages) :
          round' = IF load = 0 THEN AtHead
                   ELSE [pc |-> "send", pages |-> round.pages + 1, left |-> load]
    BY <1>2 DEF ReadPage
  <2>3. CASE load = 0
    <3>1. AtHead \in RoundState
      BY DEF AtHead, RoundState
    <3> QED
      BY <1>2, <2>2, <2>3, <3>1 DEF ReadPage, TypeOK
  <2>4. CASE load # 0
    <3>1. round.pages + 1 \in 0 .. MaxPages /\ load \in 1 .. PageSize
      BY <2>1, <2>4 DEF PageLoads
    <3>2. [pc |-> "send", pages |-> round.pages + 1, left |-> load] \in RoundState
      BY <3>1 DEF RoundState
    <3> QED
      BY <1>2, <2>2, <2>4, <3>2 DEF ReadPage, TypeOK
  <2> QED
    BY <2>3, <2>4
<1>3. ASSUME NEW c \in Checkers, SendSrv(c) PROVE TypeOK'
  <2>1. round \in [pc : {"send"}, pages : 0 .. MaxPages, left : 1 .. PageSize]
    BY <1>3 DEF SendSrv, TypeOK, RoundState
  <2>2. CASE round.left = 1
    <3>1. [pc |-> "page", pages |-> round.pages] \in RoundState
      BY <2>1 DEF RoundState
    <3> QED
      BY <1>3, <2>2, <3>1 DEF SendSrv, TypeOK
  <2>3. CASE round.left # 1
    <3>1. [round EXCEPT !.left = @ - 1] \in
            [pc : {"send"}, pages : 0 .. MaxPages, left : 1 .. PageSize]
      BY <2>1, <2>3
    <3> QED
      BY <1>3, <2>3, <3>1 DEF SendSrv, TypeOK, RoundState
  <2> QED
    BY <2>2, <2>3
<1> QED
  BY <1>1, <1>2, <1>3 DEF RoundStep

(* A step of the scheduler and its channel keeps the types. *)
LEMMA SchedType == TypeOK /\ SchedStep => TypeOK'
<1> SUFFICES ASSUME TypeOK, SchedStep PROVE TypeOK'
  OBVIOUS
<1> USE ShutdownBounds DEF registryVars, engineVars, apiVars
<1>1. AtHead \in SchedState
  BY DEF AtHead, SchedState
<1>2. CASE StartSched
  BY <1>1, <1>2 DEF StartSched, TypeOK
<1>3. CASE PollTasks
  <2>1. PICK load \in 1 .. BatchSize : sched' = [pc |-> "send", left |-> load]
    BY <1>3 DEF PollTasks
  <2>2. [pc |-> "send", left |-> load] \in SchedState
    BY DEF SchedState
  <2> QED
    BY <1>3, <2>1, <2>2 DEF PollTasks, TypeOK
<1>4. ASSUME NEW w \in Workers, SendTask(w) PROVE TypeOK'
  <2>1. sched \in [pc : {"send"}, left : 1 .. BatchSize]
    BY <1>4 DEF SendTask, TypeOK, SchedState
  <2>2. sched' \in SchedState
    <3>1. CASE sched.left = 1
      BY <1>1, <1>4, <3>1 DEF SendTask
    <3>2. CASE sched.left # 1
      <4>1. [sched EXCEPT !.left = @ - 1] \in [pc : {"send"}, left : 1 .. BatchSize]
        BY <2>1, <3>2
      <4> QED
        BY <1>4, <3>2, <4>1 DEF SendTask, SchedState
    <3> QED
      BY <3>1, <3>2
  <2>3. worker' \in [Workers -> {"new", "idle", "run", "dead", "gone"}]
    BY <1>4 DEF SendTask, TypeOK
  <2> QED
    BY <1>4, <2>2, <2>3 DEF SendTask, TypeOK
<1> QED
  BY <1>2, <1>3, <1>4 DEF SchedStep

(* The steps of the pools keep the types. *)
LEMMA PoolType ==
  TypeOK /\ ((\E c \in Checkers : CheckerStep(c)) \/ (\E w \in Workers : WorkerStep(w)))
    => TypeOK'
<1> SUFFICES ASSUME TypeOK,
                    (\E c \in Checkers : CheckerStep(c)) \/ (\E w \in Workers : WorkerStep(w))
             PROVE TypeOK'
  OBVIOUS
<1> USE DEF registryVars, engineVars, apiVars
<1>1. ASSUME NEW c \in Checkers, CheckerStep(c) PROVE TypeOK'
  BY <1>1 DEF CheckerStep, StartChecker, EndBeat, LeaveChecker, TypeOK
<1>2. ASSUME NEW w \in Workers, WorkerStep(w) PROVE TypeOK'
  BY <1>2 DEF WorkerStep, StartWorker, EndRun, LeaveWorker, TypeOK
<1> QED
  BY <1>1, <1>2

(* The steps of a request keep the types. *)
LEMMA RequestType ==
  ASSUME TypeOK, NEW r \in Requests,
         Arrive(r) \/ RequestStep(r) \/ \E last \in Requests : ArriveDuringDone(r, last)
  PROVE TypeOK'
<1> USE DEF registryVars, engineVars, apiVars
<1>1. ASSUME Arrive(r) \/ RequestStep(r) PROVE TypeOK'
  BY <1>1 DEF Arrive, RequestStep, CheckPaused, ReturnFromHandler, FlushAnswer,
              RequestIs, TypeOK
<1>2. ASSUME NEW last \in Requests, ArriveDuringDone(r, last) PROVE TypeOK'
  BY <1>2 DEF ArriveDuringDone, TypeOK
<1> QED
  BY <1>1, <1>2

(* Every step keeps the types. *)
LEMMA TypeStep == TypeOK /\ [Next]_vars => TypeOK'
<1> SUFFICES ASSUME TypeOK, [Next]_vars PROVE TypeOK'
  OBVIOUS
<1>1. CASE UNCHANGED vars
  BY <1>1 DEF vars, registryVars, engineVars, apiVars, TypeOK
<1>2. CASE Next
  BY <1>2, HandlerType, RoundType, SchedType, PoolType, RequestType DEF Next
<1> QED
  BY <1>1, <1>2

(* The types hold in every behaviour, whatever the sizes of the pools, pages *)
(* and batches.                                                              *)
THEOREM TypeCorrect == Spec => []TypeOK
  BY InitType, TypeStep, PTL DEF Spec

-----------------------------------------------------------------------------
(* Nothing is cut off *)

(* How far the handler has come. *)
PastApiWait   == {"flush", "exited"}
PastApiPause  == PastApiWait \cup {"wait_api"}
PastWorkers   == PastApiPause \cup {"pause_api"}
PastSched     == PastWorkers \cup {"pause_workers", "wait_workers"}
PastCheckers  == PastSched \cup {"signal_sched"}
PastRound     == PastCheckers \cup {"wait_checkers"}

(* What the handler has waited for stays as it found it: a loop that took    *)
(* its signal sends nothing more, so a pool that was seen without work gets   *)
(* no more of it, and the workers all exist once the scheduler runs.          *)
StopInv ==
  /\ main \in PastRound => round = Ended
  /\ main \in PastCheckers => \A c \in Checkers : checker[c] # "beat"
  /\ sched.pc # "new" => \A w \in Workers : worker[w] # "new"
  /\ main \in PastSched => sched = Ended
  /\ main \in PastWorkers => \A w \in Workers : worker[w] = "gone"
  /\ main \in PastApiPause => apiPaused
  /\ main \in PastApiWait => \A r \in Requests : request[r] # "handling"

LEMMA StopInit == Init => StopInv
  BY DEF Init, StopInv, PastRound, PastCheckers, PastSched, PastWorkers,
         PastApiPause, PastApiWait

(* A step of the signal handler establishes the next part of the invariant.  *)
LEMMA StopInvHandler == TypeOK /\ StopInv /\ (Signal \/ StopStep) => StopInv'
<1> SUFFICES ASSUME TypeOK, StopInv, Signal \/ StopStep PROVE StopInv'
  OBVIOUS
<1> USE DEF registryVars, engineVars, apiVars, StopInv, PastRound, PastCheckers,
            PastSched, PastWorkers, PastApiPause, PastApiWait
<1>1. CASE Signal \/ StopElect \/ PauseRegistry \/ SignalRound
  BY <1>1 DEF Signal, StopElect, PauseRegistry, SignalRound
<1>2. CASE WaitCheckers
  <2>1. \A c \in Checkers : checker[c] # "beat"
    BY <1>2 DEF WaitCheckers, Counted, TypeOK
  <2> QED
    BY <1>2, <2>1 DEF WaitCheckers
<1>3. CASE SignalSched
  BY <1>3 DEF SignalSched, AtHead
<1>4. CASE PauseWorkers
  BY <1>4 DEF PauseWorkers
<1>5. CASE WaitWorkers
  <2>1. \A w \in Workers : worker[w] # "new"
    BY <1>5 DEF WaitWorkers, Ended
  <2>2. \A w \in Workers : worker[w] = "gone"
    BY <1>5, <2>1 DEF WaitWorkers, Counted, TypeOK
  <2> QED
    BY <1>5, <2>2 DEF WaitWorkers
<1>6. CASE PauseApi
  BY <1>6 DEF PauseApi
<1>7. CASE WaitApi
  <2>1. \A r \in Requests : request[r] # "handling"
    BY <1>7 DEF WaitApi, Serving
  <2> QED
    BY <1>7, <2>1 DEF WaitApi
<1>8. CASE Exit
  BY <1>8 DEF Exit
<1> QED
  BY <1>1, <1>2, <1>3, <1>4, <1>5, <1>6, <1>7, <1>8 DEF StopStep

(* A loop or worker does not undo what the handler has seen.                 *)
LEMMA StopInvParts ==
  ASSUME TypeOK, StopInv,
         \/ RoundStep \/ (\E c \in Checkers : CheckerStep(c))
         \/ SchedStep \/ (\E w \in Workers : WorkerStep(w))
  PROVE StopInv'
<1> USE DEF registryVars, engineVars, apiVars, StopInv
<1>1. PastApiWait \subseteq PastApiPause /\ PastApiPause \subseteq PastWorkers
      /\ PastWorkers \subseteq PastSched /\ PastSched \subseteq PastCheckers
      /\ PastCheckers \subseteq PastRound
  BY DEF PastRound, PastCheckers, PastSched, PastWorkers, PastApiPause, PastApiWait
<1>2. ASSUME RoundStep PROVE StopInv'
  <2>1. CASE StartRound \/ ReadPage
    BY <1>2, <2>1 DEF StartRound, ReadPage, AtHead, Ended
  <2>2. ASSUME NEW c \in Checkers, SendSrv(c) PROVE StopInv'
    BY <1>1, <2>2 DEF SendSrv, Ended
  <2> QED
    BY <1>2, <2>1, <2>2 DEF RoundStep
<1>3. ASSUME NEW c \in Checkers, CheckerStep(c) PROVE StopInv'
  BY <1>3 DEF CheckerStep, StartChecker, EndBeat, LeaveChecker, TypeOK
<1>4. ASSUME SchedStep PROVE StopInv'
  <2>1. CASE StartSched
    BY <1>1, <2>1 DEF StartSched, AtHead, Ended
  <2>2. CASE PollTasks
    BY <1>1, <2>2 DEF PollTasks, AtHead, Ended
  <2>3. ASSUME NEW w \in Workers, SendTask(w) PROVE StopInv'
    BY <1>1, <2>3 DEF SendTask, Ended, TypeOK
  <2> QED
    BY <1>4, <2>1, <2>2, <2>3 DEF SchedStep
<1>5. ASSUME NEW w \in Workers, WorkerStep(w) PROVE StopInv'
  BY <1>5 DEF WorkerStep, StartWorker, EndRun, LeaveWorker, TypeOK
<1> QED
  BY <1>2, <1>3, <1>4, <1>5

(* A request that looks at the flag after the pause is refused.              *)
LEMMA StopInvRequest ==
  ASSUME TypeOK, StopInv, NEW r \in Requests,
         Arrive(r) \/ RequestStep(r) \/ \E last \in Requests : ArriveDuringDone(r, last)
  PROVE StopInv'
<1> USE DEF registryVars, engineVars, apiVars, StopInv
<1>1. PastApiWait \subseteq PastApiPause
  BY DEF PastApiPause
<1>2. ASSUME Arrive(r) \/ RequestStep(r) PROVE StopInv'
  BY <1>1, <1>2 DEF Arrive, RequestStep, CheckPaused, ReturnFromHandler, FlushAnswer,
                    RequestIs, TypeOK
<1>3. ASSUME NEW last \in Requests, ArriveDuringDone(r, last) PROVE StopInv'
  BY <1>3 DEF ArriveDuringDone, TypeOK
<1> QED
  BY <1>2, <1>3

LEMMA StopInvStep == TypeOK /\ StopInv /\ [Next]_vars => StopInv'
<1> SUFFICES ASSUME TypeOK, StopInv, [Next]_vars PROVE StopInv'
  OBVIOUS
<1>1. CASE UNCHANGED vars
  BY <1>1 DEF vars, registryVars, engineVars, apiVars, StopInv
<1>2. CASE Next
  BY <1>2, StopInvHandler, StopInvParts, StopInvRequest DEF Next
<1> QED
  BY <1>1, <1>2

(* What the handler waits for does not come back, in any behaviour.          *)
THEOREM StopInvHolds == Spec => []StopInv
  BY InitType, StopInit, TypeStep, StopInvStep, PTL DEF Spec

(* No run and no heart beat is cut off by the exit, for any number of        *)
(* workers, and no task or service is left between a loop and a worker.      *)
THEOREM NoWorkCutHolds == Spec => []NoWorkCut
<1>1. StopInv => NoWorkCut
  BY DEF StopInv, NoWorkCut, Ended, PastRound, PastCheckers, PastSched, PastWorkers,
         PastApiPause, PastApiWait
<1> QED
  BY <1>1, StopInvHolds, PTL

(* An API call that was let in has run to its end when the process exits.    *)
THEOREM AdmittedHandledHolds == Spec => []AdmittedHandled
<1>1. StopInv => AdmittedHandled
  BY DEF StopInv, AdmittedHandled, PastApiWait
<1> QED
  BY <1>1, StopInvHolds, PTL
==============================================================================
