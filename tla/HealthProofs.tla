----------------------------- MODULE HealthProofs -----------------------------
(***************************************************************************)
(* What the health check does to routes and what it gets to see.  Until the *)
(* first failure it takes nothing from a service all of whose processes     *)
(* answer, for any number of processes and whatever the goroutines of one   *)
(* heart beat do to each other.  And where nothing fails and no registration *)
(* meets the deletion of its service, no checked route escapes it.          *)
(***************************************************************************)
EXTENDS RegistryProofs, FiniteSetTheorems

(* Somebody registered the route, whether it is still there or not.          *)
Known(r) == route[r].state # "none"

(* Why: only routes somebody registered are in a round and in the hands of a *)
(* worker; and a worker goes on to delete only where one of them did not      *)
(* answer.  Which one, the goroutines may mix up, and rows are soft-deleted,  *)
(* so that what is known of a service outlasts what calls do to it between    *)
(* the heart beat and the delete.                                            *)
HealthInv ==
  /\ \A n \in Nodes : round[n].pc = "send" =>
       \A entry \in round[n].list : \A r \in entry.routes : Known(r)
  /\ \A w \in Workers : proc[w].pc = "beat" => \A r \in proc[w].routes : Known(r)
  /\ \A w \in Workers : proc[w].pc \in {"take_srv", "del_routes"} /\ faults = 0 =>
       HasDead(proc[w].srv)

LEMMA HealthInit == Init => HealthInv
  BY DEF Init, HealthInv, NewRound, Idle, Procs

(* Where every route that was asked answers, none is found dead.             *)
LEMMA AllAnswered ==
  ASSUME NEW routes, NEW no \in NoReplies(routes, {}) PROVE no = {}
  BY DEF NoReplies

(* Rows are never removed ...                                                *)
LEMMA KnownStays ==
  ASSUME TypeOK, [Next]_vars, NEW r \in Routes, Known(r) PROVE Known(r)'
<1>1. ASSUME NEW c \in Clients, InsertRoute(c) \/ UpdateRoute(c) PROVE Known(r)'
  <2>1. route'[r] = route[r] \/ route'[r].state = "live"
    BY <1>1 DEF InsertRoute, UpdateRoute, WriteRoute, TypeOK
  <2> QED
    BY <2>1 DEF Known
<1>2. ASSUME NEW p \in Procs, DelRoutes(p) PROVE Known(r)'
  <2>1. route'[r] = route[r] \/ route'[r] = [route[r] EXCEPT !.state = "deleted"]
    BY <1>2 DEF DelRoutes
  <2>2. [route[r] EXCEPT !.state = "deleted"].state = "deleted"
    BY DEF TypeOK
  <2> QED
    BY <2>1, <2>2 DEF Known
<1>3. CASE UNCHANGED route
  BY <1>3 DEF Known
<1> QED
  BY <1>1, <1>2, <1>3
     DEF Next, vars, Register, Unregister, CallStep, RegisterStep, FindSrv, InsertSrv,
         ReviveSrv, FindRoute, SetFlag, Discover, DiscoverRoutes, DelSrvRoutesStep,
         TakeSrv, CountRoutes, DropSrv, CheckStep, HeartBeat, HeartBeatLost, RoundStep,
         ReadSrvs, ReadRoutes, SendSrv, AbortRound, Elect, Depose, Abort, Die, Restart,
         Procs

(* ... and until the first failure who is dead stays dead.                   *)
LEMMA DeadStay ==
  ASSUME TypeOK, [Next]_vars, faults' = 0 PROVE faults = 0 /\ answers' \subseteq answers
<1>1. CASE UNCHANGED <<answers, faults>>
  BY <1>1
<1>2. ASSUME NEW kind, Fault(kind) PROVE FALSE
  BY <1>2, RegistryBounds DEF Fault, TypeOK
<1>3. ASSUME NEW a \in Addrs, Die(a) PROVE UNCHANGED faults /\ answers' \subseteq answers
  BY <1>3 DEF Die
<1> QED
  BY <1>1, <1>2, <1>3
     DEF Next, vars, Register, Unregister, CallStep, RegisterStep, FindSrv, InsertSrv,
         ReviveSrv, FindRoute, InsertRoute, UpdateRoute, SetFlag, Discover,
         DiscoverRoutes, DelSrvRoutesStep, TakeSrv, DelRoutes, CountRoutes, DropSrv,
         CheckStep, HeartBeat, HeartBeatLost, RoundStep, ReadSrvs, ReadRoutes, SendSrv,
         AbortRound, Elect, Depose, Abort, Restart

LEMMA HasDeadStays ==
  ASSUME TypeOK, [Next]_vars, faults' = 0, NEW s, HasDead(s) PROVE HasDead(s)'
<1>1. PICK r \in Routes : r[1] = s /\ Known(r) /\ r[2] \notin answers
  BY DEF HasDead, Known
<1>2. Known(r)' /\ r[2] \notin answers'
  BY <1>1, KnownStays, DeadStay
<1> QED
  BY <1>1, <1>2 DEF HasDead, Known

(* The rounds *)
LEMMA KnownLists ==
  ASSUME TypeOK, HealthInv, [Next]_vars, NEW n \in Nodes, round'[n].pc = "send",
         NEW entry \in round'[n].list, NEW r \in entry.routes
  PROVE  Known(r)
<1>1. CASE round'[n] = round[n]
  BY <1>1 DEF HealthInv
<1>2. ASSUME NEW m \in Nodes, ReadSrvs(m) \/ AbortRound(m) PROVE Known(r)
  BY <1>1, <1>2 DEF ReadSrvs, AfterPage, NewRound, AbortRound, TypeOK
<1>3. ASSUME NEW m \in Nodes, ReadRoutes(m) PROVE Known(r)
  <2>1. CASE m # n
    BY <1>1, <1>3, <2>1 DEF ReadRoutes, TypeOK
  <2>2. CASE m = n
    <3> DEFINE list == {[srv |-> s, routes |-> {q \in LiveRoutes(s) : route[q].check}] :
                          s \in round[n].srvs}
    <3>1. round'[n].list = list
      BY <1>3, <2>2 DEF ReadRoutes, TypeOK
    <3>2. \A e \in list : \A q \in e.routes : q \in Routes /\ RouteLive(q)
      BY DEF LiveRoutes
    <3> HIDE DEF list
    <3>3. r \in Routes /\ route[r].state = "live"
      BY <3>1, <3>2 DEF RouteLive
    <3> QED
      BY <3>3 DEF Known
  <2> QED
    BY <2>1, <2>2
<1>4. ASSUME NEW m \in Nodes, NEW k \in Slots, SendSrv(m, k) PROVE Known(r)
  <2>1. CASE m # n
    BY <1>1, <1>4, <2>1 DEF SendSrv, TypeOK
  <2>2. CASE m = n
    <3>1. PICK sent \in round[n].list :
            round' = [round EXCEPT ![n] =
                 IF round[n].list = {sent}
                   THEN [pc |-> "page", offset |-> round[n].offset]
                   ELSE [round[n] EXCEPT !.list = @ \ {sent}]]
      BY <1>4, <2>2 DEF SendSrv
    <3>2. round[n].pc = "send"
      BY <1>4, <2>2 DEF SendSrv
    <3>3. round[n] \in [pc : {"send"}, offset : Nat,
                        list : SUBSET [srv : Srvs, routes : SUBSET Routes]]
      BY <3>2 DEF TypeOK, RoundState
    <3>4. [round[n] EXCEPT !.list = @ \ {sent}].list = round[n].list \ {sent}
      BY <3>3
    <3>5. entry \in round[n].list
      BY <3>1, <3>4 DEF TypeOK
    <3> QED
      BY <3>2, <3>5 DEF HealthInv
  <2> QED
    BY <2>1, <2>2
<1> QED
  BY <1>1, <1>2, <1>3, <1>4
     DEF Next, vars, Register, Unregister, CallStep, RegisterStep, FindSrv, InsertSrv,
         ReviveSrv, FindRoute, InsertRoute, UpdateRoute, SetFlag, Discover,
         DiscoverRoutes, DelSrvRoutesStep, TakeSrv, DelRoutes, CountRoutes, DropSrv,
         CheckStep, HeartBeat, HeartBeatLost, RoundStep, Elect, Depose, Abort, Die, Restart

(* The workers, which no call of the API is                                  *)
WorkerSafe(w) ==
  /\ proc[w].pc = "beat" => \A r \in proc[w].routes : Known(r)
  /\ proc[w].pc \in {"take_srv", "del_routes"} /\ faults = 0 => HasDead(proc[w].srv)

(* What a heart beat makes of a worker: nothing is left to delete, or a route *)
(* did not answer, or a message was lost.                                    *)
LEMMA BeatFindsDead ==
  ASSUME TypeOK, OneSrvInv, HealthInv, NEW w \in Workers, Beat(w), faults' = 0,
         proc'[w].pc \in {"take_srv", "del_routes"}
  PROVE  HasDead(proc'[w].srv)
<1>0. w \in Procs /\ proc[w] \in ProcState
  BY DEF Procs, TypeOK
<1>1. HeartBeat(w)
  BY RegistryBounds DEF Beat, HeartBeatLost, Fault, TypeOK
<1>2. PICK no \in NoReplies(proc[w].routes, Unreachable(proc[w].routes)) :
        Becomes(w, IF no = {} THEN Idle
                   ELSE [pc |-> "take_srv", srv |-> proc[w].srv, routes |-> no])
  BY <1>1 DEF HeartBeat, Judged
<1>3. proc'[w] = IF no = {} THEN Idle
                 ELSE [pc |-> "take_srv", srv |-> proc[w].srv, routes |-> no]
  BY <1>0, <1>2 DEF Becomes, TypeOK
<1>4. no # {} /\ proc'[w].srv = proc[w].srv
  BY <1>3 DEF Idle
<1>5. PICK r \in proc[w].routes : r[2] \notin answers
  BY <1>2, <1>4, AllAnswered DEF Unreachable
<1>6. proc[w].pc = "beat" /\ UNCHANGED <<route, answers>>
  BY <1>1 DEF HeartBeat
<1>7. proc[w] \in Deleting
  BY <1>0, <1>6, ProcCases
<1>8. r \in Routes /\ r[1] = proc[w].srv /\ Known(r)
  BY <1>0, <1>6, <1>7 DEF Deleting, OneSrvInv, RoutesOfSrv, HealthInv
<1> QED
  BY <1>4, <1>5, <1>8 DEF HasDead, Known

LEMMA WorkersSafe ==
  ASSUME Clients \cap Workers = {}, TypeOK, OneSrvInv, HealthInv, [Next]_vars,
         NEW w \in Workers
  PROVE  WorkerSafe(w)'
<1>0. WorkerSafe(w) /\ w \in Procs /\ proc[w] \in ProcState
  BY DEF HealthInv, WorkerSafe, Procs, TypeOK
<1>a. \A r \in Routes : Known(r) => Known(r)'
  BY KnownStays
<1>b. faults' = 0 => faults = 0 /\ \A s : HasDead(s) => HasDead(s)'
  BY DeadStay, HasDeadStays
<1>1. CASE proc'[w] = proc[w]
  <2>1. proc[w].pc = "beat" => \A r \in proc[w].routes : r \in Routes
    BY <1>0, ProcCases DEF Deleting
  <2> QED
    BY <1>0, <1>1, <1>a, <1>b, <2>1 DEF WorkerSafe
<1>2. CASE proc'[w].pc \notin {"beat", "take_srv", "del_routes"}
  BY <1>2 DEF WorkerSafe
<1>3. ASSUME NEW n \in Nodes, NEW k \in Slots, SendSrv(n, k) PROVE WorkerSafe(w)'
  <2>1. CASE w # <<n, k>>
    <3>1. proc'[w] = proc[w]
      BY <1>3, <2>1 DEF SendSrv, Becomes, TypeOK
    <3> QED
      BY <1>1, <3>1
  <2>2. CASE w = <<n, k>>
    <3>1. PICK entry \in round[n].list :
            Becomes(w, [pc |-> "beat", srv |-> entry.srv, routes |-> entry.routes])
      BY <1>3, <2>2 DEF SendSrv
    <3>2. proc'[w].pc = "beat" /\ proc'[w].routes = entry.routes
      BY <1>0, <3>1 DEF Becomes, TypeOK
    <3>3. \A r \in entry.routes : Known(r)
      BY <1>3, <3>1 DEF SendSrv, HealthInv
    <3>4. UNCHANGED route
      BY <1>3 DEF SendSrv
    <3> QED
      BY <3>2, <3>3, <3>4 DEF WorkerSafe, Known
  <2> QED
    BY <2>1, <2>2
<1>4. ASSUME NEW v \in Workers, v # w, CheckStep(v) \/ HeartBeatLost(v)
      PROVE  proc'[w] = proc[w]
  <2>1. \E state : proc' = [proc EXCEPT ![v] = state]
    <3>1. CASE Beat(v)
      BY <3>1, BeatJudges DEF Becomes
    <3>2. CASE DelSrvRoutesStep(v)
      BY <3>2 DEF DelSrvRoutesStep, TakeSrv, DelRoutes, CountRoutes, DropSrv, Becomes
    <3> QED
      BY <1>4, <3>1, <3>2 DEF CheckStep, Beat
  <2> QED
    BY <1>4, <2>1 DEF TypeOK
<1>5. CASE Beat(w)
  <2>1. PICK no : Becomes(w, IF no = {} THEN Idle
                             ELSE [pc |-> "take_srv", srv |-> proc[w].srv, routes |-> no])
    BY <1>5, BeatJudges
  <2> DEFINE state == IF no = {} THEN Idle
                      ELSE [pc |-> "take_srv", srv |-> proc[w].srv, routes |-> no]
  <2>2. proc' = [proc EXCEPT ![w] = state] /\ state.pc # "beat"
    BY <2>1 DEF Becomes, Idle
  <2> HIDE DEF state
  <2>3. proc'[w].pc # "beat"
    BY <1>0, <2>2 DEF TypeOK
  <2>4. UNCHANGED <<route, answers>>
    BY <1>5, BeatJudges
  <2>5. \A s : HasDead(s)' <=> HasDead(s)
    BY <2>4 DEF HasDead
  <2> QED
    BY <1>5, <2>3, <2>5, BeatFindsDead DEF WorkerSafe
<1>6. CASE TakeSrv(w)
  <2>1. proc[w] \in Deleting /\ proc[w].pc = "take_srv"
    BY <1>0, <1>6, ProcCases DEF TakeSrv
  <2>2. /\ [proc[w] EXCEPT !.pc = "del_routes"].srv = proc[w].srv
        /\ [proc[w] EXCEPT !.pc = "del_routes"].pc = "del_routes"
    BY <2>1 DEF Deleting
  <2>3. proc'[w] = [proc[w] EXCEPT !.pc = "del_routes"] \/ proc'[w] = Idle
    BY <1>0, <1>6 DEF TakeSrv, TypeOK
  <2>4. CASE proc'[w] = Idle
    BY <1>2, <2>4 DEF Idle
  <2>5. CASE proc'[w] = [proc[w] EXCEPT !.pc = "del_routes"]
    <3>1. proc'[w].pc = "del_routes" /\ proc'[w].srv = proc[w].srv
      BY <2>2, <2>5
    <3> QED
      BY <1>0, <1>b, <2>1, <3>1 DEF WorkerSafe
  <2> QED
    BY <2>3, <2>4, <2>5
<1>7. CASE DelRoutes(w) \/ CountRoutes(w) \/ DropSrv(w)
  <2>1. CASE DelRoutes(w) \/ DropSrv(w)
    BY <1>0, <1>2, <2>1 DEF DelRoutes, DropSrv, Becomes, Idle, TypeOK
  <2>2. CASE CountRoutes(w)
    <3>1. proc[w] \in Settling
      BY <1>0, <2>2, ProcCases DEF CountRoutes, TypeOK
    <3>2. [proc[w] EXCEPT !.pc = "drop_srv"].pc = "drop_srv"
      BY <3>1 DEF Settling
    <3> QED
      BY <1>0, <1>2, <2>2, <3>2 DEF CountRoutes, Idle, TypeOK
  <2> QED
    BY <1>7, <2>1, <2>2
<1>8. ASSUME NEW c \in Clients,
             \/ \E req \in Requests : Register(c, req)
             \/ \E r \in Routes : Unregister(c, r)
             \/ CallStep(c)
      PROVE  proc'[w] = proc[w]
  <2>1. c # w
    OBVIOUS
  <2>2. \E state : proc' = [proc EXCEPT ![c] = state]
    BY <1>8 DEF Register, Unregister, CallStep, RegisterStep, FindSrv, InsertSrv,
                ReviveSrv, FindRoute, InsertRoute, UpdateRoute, SetFlag, Discover,
                DiscoverRoutes, DelSrvRoutesStep, TakeSrv, DelRoutes, CountRoutes,
                DropSrv, Becomes
  <2> QED
    BY <2>1, <2>2 DEF TypeOK
<1>9. ASSUME NEW p \in Procs, Abort(p) PROVE WorkerSafe(w)'
  <2>1. proc'[w] = proc[w] \/ proc'[w].pc = "idle"
    BY <1>9 DEF Abort, Becomes, Idle, TypeOK
  <2> QED
    BY <1>1, <1>2, <2>1
<1>10. ASSUME NEW n \in Nodes,
              ReadSrvs(n) \/ ReadRoutes(n) \/ AbortRound(n) \/ Elect(n) \/ Depose(n)
       PROVE  UNCHANGED proc
  BY <1>10 DEF ReadSrvs, ReadRoutes, AbortRound, Elect, Depose
<1>11. ASSUME NEW a \in Addrs, Die(a) \/ Restart(a)
       PROVE  UNCHANGED proc
  BY <1>11 DEF Die, Restart
<1>12. CASE UNCHANGED vars
  BY <1>1, <1>12 DEF vars
<1>13. CASE \E v \in Workers : CheckStep(v) \/ HeartBeatLost(v)
  BY <1>1, <1>4, <1>5, <1>6, <1>7, <1>13 DEF CheckStep, Beat, DelSrvRoutesStep
<1>14. CASE \E n \in Nodes : RoundStep(n) \/ AbortRound(n) \/ Elect(n) \/ Depose(n)
  BY <1>1, <1>3, <1>10, <1>14 DEF RoundStep
<1> QED
  BY <1>1, <1>8, <1>9, <1>11, <1>12, <1>13, <1>14 DEF Next

LEMMA HealthStep ==
  ASSUME Clients \cap Workers = {}, TypeOK, OneSrvInv, HealthInv, [Next]_vars
  PROVE  HealthInv'
<1>1. \A n \in Nodes : round'[n].pc = "send" =>
        \A entry \in round'[n].list : \A r \in entry.routes : Known(r)'
  <2> SUFFICES ASSUME NEW n \in Nodes, round'[n].pc = "send",
                      NEW entry \in round'[n].list, NEW r \in entry.routes
               PROVE  Known(r)'
    OBVIOUS
  <2>1. TypeOK'
    BY TypeStep
  <2>2. round'[n] \in [pc : {"send"}, offset : Nat,
                       list : SUBSET [srv : Srvs, routes : SUBSET Routes]]
    BY <2>1 DEF TypeOK, RoundState
  <2>3. r \in Routes
    BY <2>2
  <2> QED
    BY <2>3, KnownLists, KnownStays
<1>2. \A w \in Workers : WorkerSafe(w)'
  BY WorkersSafe
<1> QED
  BY <1>1, <1>2 DEF HealthInv, WorkerSafe

(* Until the first failure a service keeps its routes as long as all its     *)
(* processes answer, whatever calls, rounds and deletions overlap: the       *)
(* goroutines of one heart beat do not invent a silent route.                *)
THEOREM HealthyServicesKept ==
  ASSUME Clients \cap Workers = {} PROVE Spec => HealthyServiceKept
<1> DEFINE Kept == \A w \in Workers, r \in Routes :
                     DelRoutes(w) /\ RouteLive(r) /\ ~RouteLive(r)' /\ faults = 0
                       => HasDead(r[1])
           Inv == TypeOK /\ OneSrvInv /\ HealthInv
<1>1. Init => Inv
  BY InitType, OneSrvInit, HealthInit
<1>2. Inv /\ [Next]_vars => Inv'
  BY TypeStep, OneSrvStep, HealthStep
<1>3. Inv => Kept
  <2> SUFFICES ASSUME Inv, NEW w \in Workers, NEW r \in Routes,
                      DelRoutes(w), RouteLive(r), ~RouteLive(r)', faults = 0
               PROVE  HasDead(r[1])
    OBVIOUS
  <2>1. r \in proc[w].routes /\ proc[w].pc = "del_routes"
    BY DEF DelRoutes, RouteLive
  <2>2. r[1] = proc[w].srv
    BY <2>1 DEF OneSrvInv, RoutesOfSrv, Procs
  <2> QED
    BY <2>1, <2>2 DEF HealthInv
<1>4. Inv /\ [Next]_vars => [Kept]_vars
  BY <1>3
<1> QED
  BY <1>1, <1>2, <1>4, PTL DEF Spec, HealthyServiceKept

-----------------------------------------------------------------------------
(* What the health check finds *)

(* p wrote a checked route of s and will set the flag of s.                  *)
SetsFlag(p, s) == proc[p].pc = "set_flag" /\ proc[p].req.srv = s

Seeking == {"revive_srv", "find_route", "insert_route", "update_route"}

(* A service with a checked route has its flag set, or whoever wrote the     *)
(* route is about to set it.  What makes it last is that no statement takes  *)
(* a flag back: a call that read it as set is still right when it skips the   *)
(* statement that would set it.                                              *)
FlagInv ==
  /\ \A s \in Srvs : srv[s].state = "none" => ~srv[s].hasCheck
  /\ \A p \in Procs :
       proc[p].pc \in Seeking /\ proc[p].hasCheck => srv[proc[p].req.srv].hasCheck
  /\ \A r \in Routes : RouteLive(r) /\ route[r].check =>
       srv[r[1]].hasCheck \/ \E p \in Procs : SetsFlag(p, r[1])

LEMMA FlagInit == Init => FlagInv
  BY DEF Init, FlagInv, RouteLive, Seeking, Idle

(* A step of p that leaves a flag wherever a checked route needs one.        *)
LEMMA FlagKept ==
  ASSUME TypeOK, FlagInv, NEW p \in Procs, NEW state, proc' = [proc EXCEPT ![p] = state],
         \A s \in Srvs : srv'[s].hasCheck = srv[s].hasCheck \/ srv'[s].hasCheck = TRUE,
         \A s \in Srvs : srv'[s].state = "none" => ~srv'[s].hasCheck,
         \A r \in Routes : RouteLive(r)' /\ route'[r].check =>
           \/ RouteLive(r) /\ route[r].check
           \/ srv'[r[1]].hasCheck
           \/ SetsFlag(p, r[1])',
         state.pc \in Seeking /\ state.hasCheck => srv'[state.req.srv].hasCheck,
         \A s \in Srvs : SetsFlag(p, s) =>
           \/ srv'[s].hasCheck
           \/ \A r \in Routes : r[1] = s => ~RouteLive(r)
  PROVE  FlagInv'
<1>1. proc'[p] = state /\ \A q \in Procs : q # p => proc'[q] = proc[q]
  BY DEF TypeOK
<1>2. \A s \in Srvs : srv[s].hasCheck => srv'[s].hasCheck
  OBVIOUS
<1>3. ASSUME NEW q \in Procs, proc'[q].pc \in Seeking, proc'[q].hasCheck
      PROVE  srv'[proc'[q].req.srv].hasCheck
  <2>1. CASE q = p
    BY <1>1, <1>3, <2>1
  <2>2. CASE q # p
    <3>1. proc[q] \in SeekingRoute /\ proc'[q] = proc[q]
      BY <1>1, <1>3, <2>2, ProcCases DEF Seeking, TypeOK
    <3>2. proc[q].req.srv \in Srvs
      BY <3>1, RegistryRequests DEF SeekingRoute
    <3> QED
      BY <1>2, <1>3, <3>1, <3>2 DEF FlagInv
  <2> QED
    BY <2>1, <2>2
<1>4. ASSUME NEW r \in Routes, RouteLive(r)', route'[r].check
      PROVE  srv'[r[1]].hasCheck \/ \E q \in Procs : SetsFlag(q, r[1])'
  <2>0. r[1] \in Srvs
    BY DEF Routes
  <2>1. CASE RouteLive(r) /\ route[r].check
    <3>1. CASE srv[r[1]].hasCheck
      BY <1>2, <2>0, <3>1
    <3>2. ASSUME NEW q \in Procs, SetsFlag(q, r[1])
          PROVE  srv'[r[1]].hasCheck \/ \E q2 \in Procs : SetsFlag(q2, r[1])'
      <4>1. CASE q = p
        BY <2>0, <2>1, <3>2, <4>1
      <4>2. CASE q # p
        <5>1. SetsFlag(q, r[1])'
          BY <1>1, <3>2, <4>2 DEF SetsFlag
        <5> QED
          BY <5>1
      <4> QED
        BY <4>1, <4>2
    <3> QED
      BY <2>1, <3>1, <3>2 DEF FlagInv
  <2>2. CASE ~(RouteLive(r) /\ route[r].check)
    BY <1>4, <2>2
  <2> QED
    BY <2>1, <2>2
<1> QED
  BY <1>3, <1>4 DEF FlagInv

(* A step that gives no route, takes no flag and was not about to set one.   *)
LEMMA FlagUntouched ==
  ASSUME TypeOK, FlagInv, NEW p \in Procs, NEW state, proc' = [proc EXCEPT ![p] = state],
         \A s \in Srvs : srv'[s].hasCheck = srv[s].hasCheck,
         \A s \in Srvs : srv'[s].state = srv[s].state \/ srv'[s].state # "none",
         \A r \in Routes : route'[r] = route[r] \/ ~RouteLive(r)',
         state.pc \in Seeking /\ state.hasCheck => srv[state.req.srv].hasCheck,
         state.pc \in Seeking => state.req.srv \in Srvs,
         proc[p].pc # "set_flag"
  PROVE  FlagInv'
<1>1. \A s \in Srvs : srv'[s].state = "none" => ~srv'[s].hasCheck
  BY DEF FlagInv
<1>2. \A s \in Srvs : ~SetsFlag(p, s)
  BY DEF SetsFlag
<1>3. \A r \in Routes : RouteLive(r)' /\ route'[r].check => RouteLive(r) /\ route[r].check
  BY DEF RouteLive
<1>4. state.pc \in Seeking /\ state.hasCheck => srv'[state.req.srv].hasCheck
  OBVIOUS
<1> QED
  BY <1>1, <1>2, <1>3, <1>4, FlagKept

LEMMA FlagRegister ==
  ASSUME TypeOK, OrphanInv, FlagInv, NEW c \in Clients,
         (\E req \in Requests : Register(c, req)) \/ RegisterStep(c)
  PROVE  FlagInv'
<1> DEFINE req == proc[c].req
<1>0. c \in Procs /\ proc[c] \in ProcState
  BY DEF Procs, TypeOK
<1>1. ASSUME NEW asked \in Requests, Register(c, asked) PROVE FlagInv'
  <2> DEFINE state == [pc |-> "find_srv", req |-> asked]
  <2>1. UNCHANGED <<srv, route>> /\ proc' = [proc EXCEPT ![c] = state] /\ state.pc = "find_srv"
    BY <1>1 DEF Register, Becomes
  <2>2. proc[c].pc # "set_flag"
    BY <1>1 DEF Register, Idle
  <2> HIDE DEF state
  <2> QED
    BY <1>0, <2>1, <2>2, FlagUntouched DEF Seeking
<1>2. CASE FindSrv(c)
  <2>1. req \in Requests /\ req.srv \in Srvs
    BY <1>0, <1>2, ProcCases, RegistryRequests DEF FindSrv, SeekingSrv
  <2>2. PICK state :
          /\ proc' = [proc EXCEPT ![c] = state]
          /\ state.pc \in {"insert_srv", "revive_srv", "find_route"}
          /\ state.req = req
          /\ state.pc # "insert_srv" => state.hasCheck = srv[req.srv].hasCheck
    BY <1>2 DEF FindSrv, Becomes
  <2>3. UNCHANGED <<srv, route>> /\ proc[c].pc # "set_flag"
    BY <1>2 DEF FindSrv
  <2> QED
    BY <1>0, <2>1, <2>2, <2>3, FlagUntouched DEF Seeking
<1>3. CASE InsertSrv(c)
  <2>1. req \in Requests /\ req.srv \in Srvs
    BY <1>0, <1>3, ProcCases, RegistryRequests DEF InsertSrv, SeekingSrv
  <2>2. UNCHANGED route /\ proc[c].pc # "set_flag"
    BY <1>3 DEF InsertSrv
  <2>3. CASE srv[req.srv].state = "none"
    <3> DEFINE state == [pc |-> "find_route", req |-> req, hasCheck |-> FALSE]
    <3>1. /\ srv' = [srv EXCEPT ![req.srv] = [state |-> "live", hasCheck |-> FALSE]]
          /\ proc' = [proc EXCEPT ![c] = state]
          /\ state.req = req /\ ~state.hasCheck
      BY <1>3, <2>3 DEF InsertSrv, Becomes
    <3> HIDE DEF state
    <3>2. srv[req.srv].hasCheck = FALSE
      BY <2>1, <2>3 DEF FlagInv, TypeOK
    <3>3. \A s \in Srvs : srv'[s].hasCheck = srv[s].hasCheck
      BY <3>1, <3>2 DEF TypeOK
    <3>4. \A s \in Srvs : srv'[s].state = srv[s].state \/ srv'[s].state # "none"
      BY <3>1 DEF TypeOK
    <3> QED
      BY <1>0, <2>1, <2>2, <3>1, <3>3, <3>4, FlagUntouched
  <2>4. CASE srv[req.srv].state # "none"
    <3>1. UNCHANGED srv /\ proc' = [proc EXCEPT ![c] = Idle] /\ Idle.pc \notin Seeking
      BY <1>3, <2>4 DEF InsertSrv, Becomes, Idle, Seeking
    <3> QED
      BY <1>0, <2>2, <3>1, FlagUntouched
  <2> QED
    BY <2>3, <2>4
<1>4. CASE ReviveSrv(c) \/ FindRoute(c)
  <2>1. proc[c] \in SeekingRoute /\ req.srv \in Srvs
    BY <1>0, <1>4, ProcCases, RegistryRequests DEF ReviveSrv, FindRoute, SeekingRoute
  <2>2. proc[c].pc \in Seeking /\ proc[c].pc # "set_flag"
    BY <1>4 DEF ReviveSrv, FindRoute, Seeking
  <2>3. PICK pc : proc' = [proc EXCEPT ![c] = [proc[c] EXCEPT !.pc = pc]]
    BY <1>4 DEF ReviveSrv, FindRoute
  <2> DEFINE state == [proc[c] EXCEPT !.pc = pc]
  <2>4. state.req = req /\ state.hasCheck = proc[c].hasCheck
    BY <2>1 DEF SeekingRoute
  <2>5. proc[c].hasCheck => srv[req.srv].hasCheck
    BY <1>0, <2>2 DEF FlagInv
  <2>6. UNCHANGED route
    BY <1>4 DEF ReviveSrv, FindRoute
  <2>7. \A s \in Srvs : srv'[s].hasCheck = srv[s].hasCheck
    BY <1>4 DEF ReviveSrv, FindRoute, TypeOK
  <2>8. \A s \in Srvs : srv'[s].state = srv[s].state \/ srv'[s].state # "none"
    BY <1>4 DEF ReviveSrv, FindRoute, TypeOK
  <2>9. proc' = [proc EXCEPT ![c] = state]
    BY <2>3
  <2> HIDE DEF state
  <2> QED
    BY <1>0, <2>1, <2>2, <2>4, <2>5, <2>6, <2>7, <2>8, <2>9, FlagUntouched
<1>5. CASE InsertRoute(c) \/ UpdateRoute(c)
  <2>1. proc[c] \in SeekingRoute /\ req \in Requests /\ req.srv \in Srvs
        /\ req.check \in BOOLEAN
    BY <1>0, <1>5, ProcCases, RegistryRequests DEF InsertRoute, UpdateRoute, SeekingRoute
  <2>2. UNCHANGED srv /\ proc[c].pc # "set_flag" /\ proc[c].pc \in Seeking
    BY <1>5 DEF InsertRoute, UpdateRoute, Seeking
  <2>3. CASE InsertRoute(c) /\ route[RouteOf(req)].state # "none"
    <3>1. UNCHANGED route /\ proc' = [proc EXCEPT ![c] = Idle] /\ Idle.pc \notin Seeking
      BY <2>3 DEF InsertRoute, Becomes, Idle, Seeking
    <3> QED
      BY <1>0, <2>2, <3>1, FlagUntouched
  <2>4. CASE (InsertRoute(c) /\ route[RouteOf(req)].state = "none") \/ UpdateRoute(c)
    <3> DEFINE state == RouteWritten(c)
    <3>1. /\ route' = [route EXCEPT ![RouteOf(req)] = [state |-> "live", check |-> req.check]]
          /\ proc' = [proc EXCEPT ![c] = state]
      BY <2>4 DEF InsertRoute, UpdateRoute, WriteRoute, Becomes
    <3>2. /\ state.pc \notin Seeking
          /\ req.check => proc[c].hasCheck \/ (state.pc = "set_flag" /\ state.req = req)
      BY DEF RouteWritten, Seeking, Idle
    <3>3. proc'[c] = state
      BY <1>0, <3>1 DEF TypeOK
    <3>4. \A r \in Routes : r = RouteOf(req) \/ route'[r] = route[r]
      BY <3>1 DEF TypeOK
    <3>5. /\ RouteOf(req) \in Routes /\ RouteOf(req)[1] = req.srv
          /\ route'[RouteOf(req)].check = req.check
      BY <2>1, <3>1, RegistryRequests DEF RouteOf, Routes, TypeOK
    <3> HIDE DEF state
    <3>6. req.check => \/ srv[req.srv].hasCheck
                       \/ proc'[c].pc = "set_flag" /\ proc'[c].req.srv = req.srv
      BY <1>0, <2>2, <3>2, <3>3 DEF FlagInv
    <3>7. \A r \in Routes : RouteLive(r)' /\ route'[r].check =>
            \/ RouteLive(r) /\ route[r].check
            \/ srv'[r[1]].hasCheck
            \/ SetsFlag(c, r[1])'
      <4> SUFFICES ASSUME NEW r \in Routes, RouteLive(r)', route'[r].check,
                          r = RouteOf(req)
                   PROVE  srv'[r[1]].hasCheck \/ SetsFlag(c, r[1])'
        BY <3>4 DEF RouteLive
      <4>1. r[1] = req.srv /\ req.check
        BY <3>5
      <4> QED
        BY <2>2, <3>6, <4>1 DEF SetsFlag
    <3>8. \A s \in Srvs : ~SetsFlag(c, s)
      BY <2>2 DEF SetsFlag
    <3>9. \A s \in Srvs : srv'[s].state = "none" => ~srv'[s].hasCheck
      BY <2>2 DEF FlagInv
    <3> QED
      BY <1>0, <2>2, <3>1, <3>2, <3>7, <3>8, <3>9, FlagKept
  <2> QED
    BY <1>5, <2>3, <2>4
<1>6. CASE SetFlag(c)
  <2>1. UNCHANGED route /\ proc' = [proc EXCEPT ![c] = Idle] /\ Idle.pc \notin Seeking
    BY <1>6 DEF SetFlag, Becomes, Idle, Seeking
  <2>2. \A s \in Srvs : srv'[s].hasCheck = srv[s].hasCheck \/ srv'[s].hasCheck = TRUE
    BY <1>6 DEF SetFlag, TypeOK
  <2>3. \A s \in Srvs : srv'[s].state = "none" => ~srv'[s].hasCheck
    BY <1>6 DEF SetFlag, SrvLive, FlagInv, TypeOK
  <2>4. ASSUME NEW s \in Srvs, SetsFlag(c, s)
        PROVE  srv'[s].hasCheck \/ \A r \in Routes : r[1] = s => ~RouteLive(r)
    <3>1. SrvLive(s) => srv'[s].hasCheck
      BY <1>6, <2>4 DEF SetFlag, SetsFlag, TypeOK
    <3> QED
      BY <3>1 DEF OrphanInv
  <2> QED
    BY <1>0, <2>1, <2>2, <2>3, <2>4, FlagKept DEF RouteLive
<1> QED
  BY <1>1, <1>2, <1>3, <1>4, <1>5, <1>6 DEF RegisterStep

LEMMA FlagDelSrvRoutes ==
  ASSUME TypeOK, FlagInv, NEW p \in Procs, DelSrvRoutesStep(p)
  PROVE  FlagInv'
<1>0. proc[p] \in ProcState
  BY DEF TypeOK
<1>1. proc[p].pc # "set_flag"
  BY DEF DelSrvRoutesStep, TakeSrv, DelRoutes, CountRoutes, DropSrv
<1>2. /\ \A s \in Srvs : srv'[s].hasCheck = srv[s].hasCheck
      /\ \A s \in Srvs : srv'[s].state = srv[s].state \/ srv'[s].state # "none"
      /\ \A r \in Routes : route'[r] = route[r] \/ ~RouteLive(r)'
  <2>1. CASE TakeSrv(p) \/ CountRoutes(p)
    BY <2>1 DEF TakeSrv, CountRoutes
  <2>2. CASE DelRoutes(p)
    <3>1. \A r \in Routes : route'[r] = route[r] \/ route'[r] = [route[r] EXCEPT !.state = "deleted"]
      BY <2>2 DEF DelRoutes
    <3>2. \A r \in Routes : [route[r] EXCEPT !.state = "deleted"].state = "deleted"
      BY DEF TypeOK
    <3> QED
      BY <2>2, <3>1, <3>2 DEF DelRoutes, RouteLive
  <2>3. CASE DropSrv(p)
    <3>1. UNCHANGED route
      BY <2>3 DEF DropSrv
    <3> QED
      BY <2>3, <3>1 DEF DropSrv, TypeOK
  <2> QED
    BY <2>1, <2>2, <2>3 DEF DelSrvRoutesStep
<1>3. PICK state : proc' = [proc EXCEPT ![p] = state] /\ state.pc \notin Seeking
  <2> USE DEF Seeking
  <2>1. CASE TakeSrv(p)
    <3>1. proc[p] \in Deleting
      BY <1>0, <2>1, ProcCases DEF TakeSrv
    <3>2. [proc[p] EXCEPT !.pc = "del_routes"].pc = "del_routes"
      BY <3>1 DEF Deleting
    <3>3. \/ proc' = [proc EXCEPT ![p] = [proc[p] EXCEPT !.pc = "del_routes"]]
          \/ proc' = [proc EXCEPT ![p] = Idle]
      BY <2>1 DEF TakeSrv
    <3> QED
      BY <3>2, <3>3 DEF Idle
  <2>2. CASE DelRoutes(p)
    <3> DEFINE state == [pc |-> "count", srv |-> proc[p].srv]
    <3>1. proc' = [proc EXCEPT ![p] = state] /\ state.pc = "count"
      BY <2>2 DEF DelRoutes, Becomes
    <3> HIDE DEF state
    <3> QED
      BY <3>1
  <2>3. CASE CountRoutes(p)
    <3>1. proc[p] \in Settling
      BY <1>0, <2>3, ProcCases DEF CountRoutes
    <3>2. [proc[p] EXCEPT !.pc = "drop_srv"].pc = "drop_srv"
      BY <3>1 DEF Settling
    <3>3. \/ proc' = [proc EXCEPT ![p] = [proc[p] EXCEPT !.pc = "drop_srv"]]
          \/ proc' = [proc EXCEPT ![p] = Idle]
      BY <2>3 DEF CountRoutes
    <3> QED
      BY <3>2, <3>3 DEF Idle
  <2>4. CASE DropSrv(p)
    <3>1. proc' = [proc EXCEPT ![p] = Idle] /\ Idle.pc = "idle"
      BY <2>4 DEF DropSrv, Becomes, Idle
    <3> QED
      BY <3>1
  <2> QED
    BY <2>1, <2>2, <2>3, <2>4 DEF DelSrvRoutesStep
<1> QED
  BY <1>1, <1>2, <1>3, FlagUntouched

(* The other steps write no row; only who fails between the route and the    *)
(* flag leaves the flag out.                                                 *)
LEMMA FlagOthers ==
  ASSUME "fail" \notin Env, TypeOK, FlagInv,
         \/ \E c \in Clients, r \in Routes : Unregister(c, r)
         \/ \E c \in Clients : Discover(c) \/ DiscoverRoutes(c)
         \/ \E w \in Workers : Beat(w)
         \/ \E n \in Nodes : RoundStep(n) \/ AbortRound(n) \/ Elect(n) \/ Depose(n)
         \/ \E p \in Procs : Abort(p)
         \/ \E a \in Addrs : Die(a) \/ Restart(a)
  PROVE  FlagInv'
<1>1. UNCHANGED <<srv, route>>
  BY BeatJudges
     DEF Unregister, Discover, DiscoverRoutes, RoundStep, ReadSrvs, ReadRoutes,
         SendSrv, AbortRound, Elect, Depose, Abort, Die, Restart
<1>2. ASSUME NEW p \in Procs, NEW state, proc' = [proc EXCEPT ![p] = state],
             proc'[p].pc \notin Seeking, proc[p].pc # "set_flag"
      PROVE  FlagInv'
  <2>1. proc'[p] = state
    BY <1>2 DEF TypeOK
  <2> QED
    BY <1>1, <1>2, <2>1, FlagUntouched
<1>3. ASSUME NEW c \in Clients, NEW r \in Routes, Unregister(c, r) PROVE FlagInv'
  <2>1. \E state : proc' = [proc EXCEPT ![c] = state]
    BY <1>3 DEF Unregister, Becomes
  <2>2. proc'[c].pc = "discover" /\ proc[c].pc = "idle"
    BY <1>3 DEF Unregister, Becomes, Idle, TypeOK, Procs
  <2> QED
    BY <1>2, <2>1, <2>2 DEF Procs, Seeking
<1>4. ASSUME NEW c \in Clients, Discover(c) PROVE FlagInv'
  <2> DEFINE on == [proc[c] EXCEPT !.pc = "discover_routes"]
  <2>1. proc[c] \in Discovering
    BY <1>4, ProcCases DEF Discover, TypeOK, Procs
  <2>2. on.pc = "discover_routes" /\ Idle.pc = "idle" /\ proc[c].pc = "discover"
    BY <1>4, <2>1 DEF Discovering, Discover, Idle
  <2>3. \/ proc' = [proc EXCEPT ![c] = on]
        \/ proc' = [proc EXCEPT ![c] = Idle]
    BY <1>4 DEF Discover
  <2> HIDE DEF on
  <2>4. proc'[c] \in {on, Idle}
    BY <2>3 DEF TypeOK, Procs
  <2> QED
    BY <1>2, <2>2, <2>3, <2>4 DEF Procs, Seeking
<1>5. ASSUME NEW c \in Clients, DiscoverRoutes(c) PROVE FlagInv'
  <2> DEFINE state == [pc |-> "take_srv", srv |-> proc[c].route[1],
                       routes |-> {proc[c].route} \cap LiveRoutes(proc[c].route[1])]
  <2>1. proc' = [proc EXCEPT ![c] = state] /\ state.pc = "take_srv"
        /\ proc[c].pc = "discover_routes"
    BY <1>5 DEF DiscoverRoutes, Becomes
  <2> HIDE DEF state
  <2>2. proc'[c] = state
    BY <2>1 DEF TypeOK, Procs
  <2> QED
    BY <1>2, <2>1, <2>2 DEF Procs, Seeking
<1>6. ASSUME NEW w \in Workers, Beat(w) PROVE FlagInv'
  <2>1. PICK no : Becomes(w, IF no = {} THEN Idle
                             ELSE [pc |-> "take_srv", srv |-> proc[w].srv, routes |-> no])
    BY <1>6, BeatJudges
  <2> DEFINE state == IF no = {} THEN Idle
                      ELSE [pc |-> "take_srv", srv |-> proc[w].srv, routes |-> no]
  <2>2. proc' = [proc EXCEPT ![w] = state] /\ state.pc \in {"idle", "take_srv"}
    BY <2>1 DEF Becomes, Idle
  <2> HIDE DEF state
  <2>3. proc'[w].pc \in {"idle", "take_srv"} /\ proc[w].pc = "beat"
    BY <1>6, <2>2, BeatJudges DEF TypeOK, Procs
  <2> QED
    BY <1>2, <2>2, <2>3 DEF Procs, Seeking
<1>7. ASSUME NEW n \in Nodes, NEW k \in Slots, SendSrv(n, k) PROVE FlagInv'
  <2>1. \E state : proc' = [proc EXCEPT ![<<n, k>>] = state]
    BY <1>7 DEF SendSrv, Becomes
  <2>2. proc'[<<n, k>>].pc = "beat" /\ proc[<<n, k>>].pc = "idle"
    BY <1>7 DEF SendSrv, Becomes, Idle, TypeOK, Procs, Workers
  <2> QED
    BY <1>2, <2>1, <2>2 DEF Procs, Workers, Seeking
<1>8. ASSUME NEW p \in Procs, Abort(p) PROVE FALSE
  BY <1>8 DEF Abort, Fault
<1>9. CASE UNCHANGED proc
  BY <1>1, <1>9 DEF FlagInv, RouteLive, SetsFlag
<1>10. ASSUME NEW n \in Nodes,
              ReadSrvs(n) \/ ReadRoutes(n) \/ AbortRound(n) \/ Elect(n) \/ Depose(n)
       PROVE  UNCHANGED proc
  BY <1>10 DEF ReadSrvs, ReadRoutes, AbortRound, Elect, Depose
<1>11. ASSUME NEW a \in Addrs, Die(a) \/ Restart(a) PROVE UNCHANGED proc
  BY <1>11 DEF Die, Restart
<1> QED
  BY <1>3, <1>4, <1>5, <1>6, <1>7, <1>8, <1>9, <1>10, <1>11 DEF RoundStep

LEMMA FlagStep ==
  ASSUME "fail" \notin Env, TypeOK, OrphanInv, FlagInv, [Next]_vars
  PROVE  FlagInv'
<1>1. CASE UNCHANGED vars
  BY <1>1 DEF vars, FlagInv, RouteLive, SetsFlag
<1>2. CASE Next
  BY <1>2, FlagRegister, FlagDelSrvRoutes, FlagOthers
     DEF Next, CallStep, CheckStep, Beat, Procs
<1> QED
  BY <1>1, <1>2

(* Once the calls are over, every route that was registered with the health  *)
(* check on is one the health check gets to see: its service is there and    *)
(* has the flag.                                                             *)
CheckedFound == Quiet => \A r \in Routes : RouteLive(r) /\ route[r].check => r[1] \in Checked

(* That is so as long as nothing fails between two statements and no route   *)
(* is registered while its service is being deleted.                         *)
THEOREM CheckedRoutesFound ==
  ASSUME "fail" \notin Env PROVE Spec /\ []Apart => []CheckedFound
<1>1. OrphanInv /\ FlagInv => CheckedFound
  BY DEF OrphanInv, FlagInv, CheckedFound, Quiet, Checked, SetsFlag, Idle, Routes
<1>2. TypeOK /\ OrphanInv /\ FlagInv /\ [Next]_vars => FlagInv'
  BY FlagStep
<1> QED
  BY <1>1, <1>2, InitType, OrphanInit, FlagInit, TypeStep, OrphanStep, PTL DEF Spec
==============================================================================
