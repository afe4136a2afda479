------------------------------- MODULE Registry -------------------------------
(***************************************************************************)
(* The registry of callback services: API calls register and unregister    *)
(* routes, and on the master a health check asks every route for a heart   *)
(* beat and removes those that do not answer.  Calls and health check      *)
(* write the tables task_callback_srv and task_callback_srv_route with     *)
(* several statements and no transaction; each statement is one step here. *)
(* The name of a service stands for its id, service and address for the id *)
(* of a route: both pairs are unique indexes, and rows are only            *)
(* soft-deleted.                                                           *)
(***************************************************************************)
EXTENDS Integers, FiniteSets

CONSTANTS
  Srvs,        \* names of callback services
  Addrs,       \* (schema, host, port) of their processes
  Requests,    \* the registrations clients may ask for
  Nodes,       \* easytask processes
  Slots,       \* the health check workers of one process, by number
  Clients,     \* concurrent callers of the API
  PageSize,    \* `size` of HealthCheck(): 1000 in the code
  MaxCalls,    \* bound on API calls
  MaxFaults,   \* bound on failures: statements, elections, heart beats, restarts
  Env          \* what the environment may do; see RegistryEnvAssumption

Routes == Srvs \X Addrs

ASSUME RegistryRequests == Requests \subseteq [srv : Srvs, addr : Addrs, check : BOOLEAN]
ASSUME RegistryBounds ==
  PageSize \in Nat \ {0} /\ MaxCalls \in Nat /\ MaxFaults \in Nat
ASSUME RegistryEnvAssumption ==
  Env \subseteq
    {"fail",      \* a statement fails, or its process dies
     "elect",     \* mastership moves; two nodes may believe to hold it
     "net",       \* a heart beat or its answer is lost
     "die",       \* the process at an address stops answering
     "restart"}   \* ... and answers again

VARIABLES
  srv,      \* table task_callback_srv
  route,    \* table task_callback_srv_route
  answers,  \* the addresses whose process answers a heart beat
  master,   \* the nodes whose elect.IsMaster() answers true
  round,    \* HealthCheck on each node
  proc,     \* API calls and health check workers
  calls,    \* API calls so far
  faults    \* failures so far

vars == <<srv, route, answers, master, round, proc, calls, faults>>

Workers == Nodes \X Slots
Procs   == Clients \cup Workers

Idle     == [pc |-> "idle"]
NewRound == [pc |-> "page", offset |-> 0]

SrvLive(s)   == srv[s].state = "live"
RouteLive(r) == route[r].state = "live"
LiveRoutes(s) == {r \in Routes : r[1] = s /\ RouteLive(r)}

ApiCall ==
  /\ calls < MaxCalls
  /\ calls' = calls + 1

Fault(kind) ==
  /\ kind \in Env
  /\ faults < MaxFaults
  /\ faults' = faults + 1

Becomes(p, state) == proc' = [proc EXCEPT ![p] = state]

-----------------------------------------------------------------------------
(* Registry.Register: TaskSrvRepo.AddSrvRoutes with one route *)

Register(c, req) ==
  /\ proc[c] = Idle
  /\ ApiCall
  /\ Becomes(c, [pc |-> "find_srv", req |-> req])
  /\ UNCHANGED <<srv, route, answers, master, round, faults>>

(* FirstOrCreate's SELECT, unscoped: it sees a soft-deleted service, and    *)
(* the call remembers the flag it read.                                     *)
FindSrv(c) ==
  LET req == proc[c].req
      row == srv[req.srv]
  IN /\ proc[c].pc = "find_srv"
     /\ \/ /\ row.state = "none"
           /\ Becomes(c, [pc |-> "insert_srv", req |-> req])
        \/ /\ row.state = "deleted"
           /\ Becomes(c, [pc |-> "revive_srv", req |-> req, hasCheck |-> row.hasCheck])
        \/ /\ row.state = "live"
           /\ Becomes(c, [pc |-> "find_route", req |-> req, hasCheck |-> row.hasCheck])
     /\ UNCHANGED <<srv, route, answers, master, round, calls, faults>>

(* FirstOrCreate's INSERT; the unique index refuses a second row of a name. *)
InsertSrv(c) ==
  LET req == proc[c].req
  IN /\ proc[c].pc = "insert_srv"
     /\ IF srv[req.srv].state = "none"
          THEN /\ srv' = [srv EXCEPT ![req.srv] = [state |-> "live", hasCheck |-> FALSE]]
               /\ Becomes(c, [pc |-> "find_route", req |-> req, hasCheck |-> FALSE])
          ELSE /\ Becomes(c, Idle)
               /\ UNCHANGED srv
     /\ UNCHANGED <<route, answers, master, round, calls, faults>>

ReviveSrv(c) ==
  /\ proc[c].pc = "revive_srv"
  /\ srv' = [srv EXCEPT ![proc[c].req.srv].state = "live"]
  /\ proc' = [proc EXCEPT ![c].pc = "find_route"]
  /\ UNCHANGED <<route, answers, master, round, calls, faults>>

RouteOf(req) == <<req.srv, req.addr>>

(* The same for the route; a soft-deleted one is updated like a live one. *)
FindRoute(c) ==
  /\ proc[c].pc = "find_route"
  /\ proc' = [proc EXCEPT ![c].pc =
       IF route[RouteOf(proc[c].req)].state = "none"
         THEN "insert_route" ELSE "update_route"]
  /\ UNCHANGED <<srv, route, answers, master, round, calls, faults>>

(* What is left to do once the route is there: the service's flag, when the *)
(* call did not read it as set.                                             *)
RouteWritten(c) ==
  IF proc[c].req.check /\ ~proc[c].hasCheck
    THEN [pc |-> "set_flag", req |-> proc[c].req]
    ELSE Idle

WriteRoute(req) ==
  route' = [route EXCEPT ![RouteOf(req)] = [state |-> "live", check |-> req.check]]

InsertRoute(c) ==
  LET req == proc[c].req
  IN /\ proc[c].pc = "insert_route"
     /\ IF route[RouteOf(req)].state = "none"
          THEN WriteRoute(req) /\ Becomes(c, RouteWritten(c))
          ELSE Becomes(c, Idle) /\ UNCHANGED route
     /\ UNCHANGED <<srv, answers, master, round, calls, faults>>

UpdateRoute(c) ==
  /\ proc[c].pc = "update_route"
  /\ WriteRoute(proc[c].req)
  /\ Becomes(c, RouteWritten(c))
  /\ UNCHANGED <<srv, answers, master, round, calls, faults>>

(* This UPDATE is scoped: it misses a service deleted in the meantime. *)
SetFlag(c) ==
  LET s == proc[c].req.srv
  IN /\ proc[c].pc = "set_flag"
     /\ srv' = IF SrvLive(s) THEN [srv EXCEPT ![s].hasCheck = TRUE] ELSE srv
     /\ Becomes(c, Idle)
     /\ UNCHANGED <<route, answers, master, round, calls, faults>>

-----------------------------------------------------------------------------
(* RegistryService.UnregisterTaskCallbackSrv *)

Unregister(c, r) ==
  /\ proc[c] = Idle
  /\ ApiCall
  /\ Becomes(c, [pc |-> "discover", route |-> r])
  /\ UNCHANGED <<srv, route, answers, master, round, faults>>

(* Discover: GetSrvs by name, first the service ... *)
Discover(c) ==
  /\ proc[c].pc = "discover"
  /\ proc' = IF SrvLive(proc[c].route[1])
               THEN [proc EXCEPT ![c].pc = "discover_routes"]
               ELSE [proc EXCEPT ![c] = Idle]
  /\ UNCHANGED <<srv, route, answers, master, round, calls, faults>>

(* ... then its routes, of which the call keeps the one it was asked for. *)
DiscoverRoutes(c) ==
  LET r == proc[c].route
  IN /\ proc[c].pc = "discover_routes"
     /\ Becomes(c, [pc |-> "take_srv", srv |-> r[1],
                    routes |-> {r} \cap LiveRoutes(r[1])])
     /\ UNCHANGED <<srv, route, answers, master, round, calls, faults>>

-----------------------------------------------------------------------------
(* TaskSrvRepo.DelSrvRoutes, for a call or for a health check worker *)

TakeSrv(p) ==
  /\ proc[p].pc = "take_srv"
  /\ proc' = IF SrvLive(proc[p].srv)
               THEN [proc EXCEPT ![p].pc = "del_routes"]
               ELSE [proc EXCEPT ![p] = Idle]
  /\ UNCHANGED <<srv, route, answers, master, round, calls, faults>>

(* Soft-delete by the ids of the routes. *)
DelRoutes(p) ==
  /\ proc[p].pc = "del_routes"
  /\ route' = [r \in Routes |->
                 IF r \in proc[p].routes /\ RouteLive(r)
                   THEN [route[r] EXCEPT !.state = "deleted"] ELSE route[r]]
  /\ Becomes(p, [pc |-> "count", srv |-> proc[p].srv])
  /\ UNCHANGED <<srv, answers, master, round, calls, faults>>

(* Mutant of CountRoutes: an empty service is left alone. *)
CountRoutesKeepSrv(p) ==
  /\ proc[p].pc = "count"
  /\ Becomes(p, Idle)
  /\ UNCHANGED <<srv, route, answers, master, round, calls, faults>>

(* COUNT(1) and COUNT(IF(enable_health_check > 0, 1, 0)) are the same       *)
(* number, so the branch that would clear the service's flag, for routes    *)
(* without one that is checked, is never taken.                             *)
CountRoutes(p) ==
  /\ proc[p].pc = "count"
  /\ proc' = IF LiveRoutes(proc[p].srv) = {}
               THEN [proc EXCEPT ![p].pc = "drop_srv"]
               ELSE [proc EXCEPT ![p] = Idle]
  /\ UNCHANGED <<srv, route, answers, master, round, calls, faults>>

(* Mutant of DropSrv: the row is written anew, without its flag. *)
DropSrvRewritten(p) ==
  /\ proc[p].pc = "drop_srv"
  /\ srv' = [srv EXCEPT ![proc[p].srv] = [state |-> "deleted"]]
  /\ Becomes(p, Idle)
  /\ UNCHANGED <<route, answers, master, round, calls, faults>>

(* Mutant of DropSrv: the delete takes the routes with it, also one that was *)
(* registered since the count.                                               *)
DropSrvCascade(p) ==
  /\ proc[p].pc = "drop_srv"
  /\ srv' = [srv EXCEPT ![proc[p].srv].state = "deleted"]
  /\ route' = [r \in Routes |-> IF r[1] = proc[p].srv /\ RouteLive(r)
                                 THEN [route[r] EXCEPT !.state = "deleted"] ELSE route[r]]
  /\ Becomes(p, Idle)
  /\ UNCHANGED <<answers, master, round, calls, faults>>

DropSrv(p) ==
  /\ proc[p].pc = "drop_srv"
  /\ srv' = [srv EXCEPT ![proc[p].srv].state = "deleted"]
  /\ Becomes(p, Idle)
  /\ UNCHANGED <<route, answers, master, round, calls, faults>>

-----------------------------------------------------------------------------
(* Registry.HealthCheck and its workers *)

Checked == {s \in Srvs : SrvLive(s) /\ srv[s].hasCheck}

(* LIMIT and OFFSET without ORDER BY: any services fill the page. *)
Pages(offset) ==
  {page \in SUBSET Checked :
     LET left == Cardinality(Checked) - offset
     IN Cardinality(page) = IF left > PageSize THEN PageSize
                            ELSE IF left < 0 THEN 0 ELSE left}

(* Mutant of AfterPage: the next round starts where this one ended. *)
AfterPageKeepsOffset(offset, page) ==
  IF page = {} THEN [pc |-> "page", offset |-> offset]
  ELSE [pc |-> "routes", offset |-> offset + PageSize, srvs |-> page]

(* The round is over with an empty page; the next one starts from the front. *)
AfterPage(offset, page) ==
  IF page = {} THEN NewRound
  ELSE [pc |-> "routes", offset |-> offset + PageSize, srvs |-> page]

(* A round starts on a master. *)
ReadSrvs(n) ==
  LET offset == round[n].offset
  IN /\ round[n].pc = "page"
     /\ offset = 0 => n \in master
     /\ \E page \in Pages(offset) :
          round' = [round EXCEPT ![n] = AfterPage(offset, page)]
     /\ UNCHANGED <<srv, route, answers, master, proc, calls, faults>>

ReadRoutes(n) ==
  /\ round[n].pc = "routes"
  /\ round' = [round EXCEPT ![n] =
       [pc |-> "send", offset |-> round[n].offset,
        list |-> {[srv |-> s, routes |-> {r \in LiveRoutes(s) : route[r].check}] :
                    s \in round[n].srvs}]]
  /\ UNCHANGED <<srv, route, answers, master, proc, calls, faults>>

(* The unbuffered channel readyCheckSrvChan. *)
SendSrv(n, k) ==
  /\ round[n].pc = "send"
  /\ proc[<<n, k>>] = Idle
  /\ \E entry \in round[n].list :
       /\ round' = [round EXCEPT ![n] =
            IF round[n].list = {entry}
              THEN [pc |-> "page", offset |-> round[n].offset]
              ELSE [round[n] EXCEPT !.list = @ \ {entry}]]
       /\ Becomes(<<n, k>>, [pc |-> "beat", srv |-> entry.srv, routes |-> entry.routes])
  /\ UNCHANGED <<srv, route, answers, master, calls, faults>>

(* Mutant of NoReplies: the two lists are swapped. *)
Replies(routes, silent) == {routes \ silent}

(* HttpExec.HeartBeat asks all routes at once in goroutines that share the  *)
(* error, the response and the two lists; no answer, an answer too late and *)
(* a body that is no answer are all the same error, and `silent` the routes *)
(* that meet one.  One route is judged by its own answer.  Among several a  *)
(* route that answers is taken for dead when the error of another one       *)
(* overwrites its own, a dead one for alive, and an append may be lost to   *)
(* another; when none answers, one append survives.                         *)
NoReplies(routes, silent) ==
  IF Cardinality(routes) <= 1 \/ silent = {} THEN {silent}
  ELSE {no \in SUBSET routes : silent = routes => no # {}}

Unreachable(routes) == {r \in routes : r[2] \notin answers}

(* What replied only has checked_health_at written, which nobody reads. *)
Judged(w, silent) ==
  \E no \in NoReplies(proc[w].routes, silent) :
    Becomes(w, IF no = {} THEN Idle
               ELSE [pc |-> "take_srv", srv |-> proc[w].srv, routes |-> no])

HeartBeat(w) ==
  /\ proc[w].pc = "beat"
  /\ Judged(w, Unreachable(proc[w].routes))
  /\ UNCHANGED <<srv, route, answers, master, round, calls, faults>>

(* The same, with the heart beat of one route lost on the way. *)
HeartBeatLost(w) ==
  /\ proc[w].pc = "beat"
  /\ Fault("net")
  /\ \E r \in proc[w].routes : Judged(w, Unreachable(proc[w].routes) \cup {r})
  /\ UNCHANGED <<srv, route, answers, master, round, calls>>

-----------------------------------------------------------------------------
(* The environment *)

(* A call or a check ends here: its next statement failed without effect,   *)
(* its last one lost its answer, or the process died (one by one).          *)
Abort(p) ==
  /\ proc[p] # Idle
  /\ Fault("fail")
  /\ Becomes(p, Idle)
  /\ UNCHANGED <<srv, route, answers, master, round, calls>>

AbortRound(n) ==
  /\ round[n] # NewRound
  /\ Fault("fail")
  /\ round' = [round EXCEPT ![n] = NewRound]
  /\ UNCHANGED <<srv, route, answers, master, proc, calls>>

Elect(n) ==
  /\ n \notin master
  /\ master = {} \/ "elect" \in Env
  /\ master' = master \cup {n}
  /\ UNCHANGED <<srv, route, answers, round, proc, calls, faults>>

Depose(n) ==
  /\ n \in master
  /\ Fault("elect")
  /\ master' = master \ {n}
  /\ UNCHANGED <<srv, route, answers, round, proc, calls>>

Die(a) ==
  /\ "die" \in Env
  /\ a \in answers
  /\ answers' = answers \ {a}
  /\ UNCHANGED <<srv, route, master, round, proc, calls, faults>>

Restart(a) ==
  /\ "restart" \in Env
  /\ a \notin answers
  /\ Fault("restart")
  /\ answers' = answers \cup {a}
  /\ UNCHANGED <<srv, route, master, round, proc, calls>>

-----------------------------------------------------------------------------
Init ==
  /\ srv = [s \in Srvs |-> [state |-> "none", hasCheck |-> FALSE]]
  /\ route = [r \in Routes |-> [state |-> "none", check |-> FALSE]]
  /\ answers = Addrs
  /\ master = {}
  /\ round = [n \in Nodes |-> NewRound]
  /\ proc = [p \in Procs |-> Idle]
  /\ calls = 0
  /\ faults = 0

RegisterStep(c) ==
  \/ FindSrv(c)
  \/ InsertSrv(c)
  \/ ReviveSrv(c)
  \/ FindRoute(c)
  \/ InsertRoute(c)
  \/ UpdateRoute(c)
  \/ SetFlag(c)

DelSrvRoutesStep(p) ==
  \/ TakeSrv(p)
  \/ DelRoutes(p)
  \/ CountRoutes(p)
  \/ DropSrv(p)

CallStep(c) ==
  \/ RegisterStep(c)
  \/ Discover(c)
  \/ DiscoverRoutes(c)
  \/ DelSrvRoutesStep(c)

CheckStep(w) == HeartBeat(w) \/ DelSrvRoutesStep(w)

RoundStep(n) ==
  \/ ReadSrvs(n)
  \/ ReadRoutes(n)
  \/ \E k \in Slots : SendSrv(n, k)

Next ==
  \/ \E c \in Clients : \/ \E req \in Requests : Register(c, req)
                        \/ \E r \in Routes : Unregister(c, r)
                        \/ CallStep(c)
  \/ \E w \in Workers : CheckStep(w) \/ HeartBeatLost(w)
  \/ \E n \in Nodes : RoundStep(n) \/ AbortRound(n) \/ Elect(n) \/ Depose(n)
  \/ \E p \in Procs : Abort(p)
  \/ \E a \in Addrs : Die(a) \/ Restart(a)

Spec == Init /\ [][Next]_vars

(* The round of n reads a page with the service s. *)
ReadsSrv(n, s) ==
  ReadSrvs(n) /\ round'[n].pc = "routes" /\ s \in round'[n].srvs

(* Goroutines are scheduled, the database answers and a master is elected;  *)
(* a heart beat ends, for the HTTP client has the timeout of the route; and *)
(* the order MySQL happens to read the services in does not keep one of     *)
(* them out of every page for ever (in the order of an index it does not).  *)
FairSpec ==
  /\ Spec
  /\ \A n \in Nodes : WF_vars(RoundStep(n)) /\ WF_vars(Elect(n))
  /\ \A n \in Nodes, s \in Srvs : SF_vars(ReadsSrv(n, s))
  /\ \A w \in Workers : WF_vars(CheckStep(w))
  /\ \A c \in Clients : WF_vars(CallStep(c))

-----------------------------------------------------------------------------
(* Types *)

RowStates == {"none", "live", "deleted"}

ProcState ==
  {Idle} \cup
  [pc : {"find_srv", "insert_srv"}, req : Requests] \cup
  [pc : {"revive_srv", "find_route", "insert_route", "update_route"},
   req : Requests, hasCheck : BOOLEAN] \cup
  [pc : {"set_flag"}, req : Requests] \cup
  [pc : {"discover", "discover_routes"}, route : Routes] \cup
  [pc : {"beat", "take_srv", "del_routes"}, srv : Srvs, routes : SUBSET Routes] \cup
  [pc : {"count", "drop_srv"}, srv : Srvs]

RoundState ==
  [pc : {"page"}, offset : Nat] \cup
  [pc : {"routes"}, offset : Nat, srvs : SUBSET Srvs] \cup
  [pc : {"send"}, offset : Nat,
   list : SUBSET [srv : Srvs, routes : SUBSET Routes]]

(* Every variable has its type: rows, and what calls and checks hold of them. *)
TypeOK ==
  /\ srv \in [Srvs -> [state : RowStates, hasCheck : BOOLEAN]]
  /\ route \in [Routes -> [state : RowStates, check : BOOLEAN]]
  /\ answers \subseteq Addrs
  /\ master \subseteq Nodes
  /\ round \in [Nodes -> RoundState]
  /\ proc \in [Procs -> ProcState]
  /\ calls \in 0 .. MaxCalls
  /\ faults \in 0 .. MaxFaults

-----------------------------------------------------------------------------
(* Safety *)

(* No call and no check is between two statements. *)
Quiet == \A p \in Procs : proc[p] = Idle

(* Once the calls are over every route that is there belongs to a service    *)
(* that is there: a route under a deleted service can neither be found by    *)
(* Discover nor be unregistered nor be checked.                              *)
NoOrphanRoute == Quiet => \A r \in Routes : RouteLive(r) => SrvLive(r[1])

(* Once the calls are over no service is left without a route: for the tasks *)
(* of such a service the scheduler builds entities without routes.           *)
NoEmptySrv == Quiet => \A s \in Srvs : SrvLive(s) => LiveRoutes(s) # {}

(* The process p still has a statement to send that gives s a route, or that *)
(* finds it empty and deletes it.                                            *)
Settles(p, s) ==
  \/ /\ proc[p].pc \in {"find_route", "update_route"}
     /\ proc[p].req.srv = s
  \/ /\ proc[p].pc = "insert_route"
     /\ proc[p].req.srv = s
     /\ route[RouteOf(proc[p].req)].state = "none"
  \/ /\ proc[p].pc \in {"count", "drop_srv"}
     /\ proc[p].srv = s

(* The service s has a route, or is gone, or some call or check that has      *)
(* begun will fill or delete it.                                             *)
Settled(s) == SrvLive(s) /\ LiveRoutes(s) = {} => \E p \in Procs : Settles(p, s)

(* Why: whenever a service is empty, in between two statements too, some     *)
(* call or check that has begun will fill or delete it; no two of them leave *)
(* that to each other.                                                       *)
EmptySrvSettled == \A s \in Srvs : Settled(s)

(* The empty services that nobody is going to fill or delete. *)
Neglected == {s \in Srvs : ~Settled(s)}

(* A statement that fails, or a process that dies between two statements,    *)
(* leaves at most one service empty behind it, and nothing else does.        *)
NeglectBounded == Cardinality(Neglected) <= faults

(* Once the calls are over the flag of a service says whether it has a route *)
(* with the health check on; by the flag the health check finds its services. *)
FlagMeansChecked ==
  Quiet => \A s \in Srvs :
             SrvLive(s) => (srv[s].hasCheck <=> \E r \in LiveRoutes(s) : route[r].check)

(* The health check removes a route only when its process does not answer. *)
AnsweringRouteKept ==
  [][\A w \in Workers, r \in Routes :
       DelRoutes(w) /\ RouteLive(r) /\ ~RouteLive(r)' => r[2] \notin answers]_vars

(* A process that registered for s does not answer. *)
HasDead(s) ==
  \E r \in Routes : r[1] = s /\ route[r].state # "none" /\ r[2] \notin answers

(* What remains of it for a cluster: until the first failure (a heart beat   *)
(* that is lost and a process that restarts are failures too) the check takes *)
(* nothing from a service all of whose processes answer.  The goroutines of   *)
(* one heart beat may mix up its routes, but not invent a silent one, and the *)
(* routes a worker still has to delete stay with the service they were asked  *)
(* for, whatever was registered and unregistered since.                      *)
HealthyServiceKept ==
  [][\A w \in Workers, r \in Routes :
       DelRoutes(w) /\ RouteLive(r) /\ ~RouteLive(r)' /\ faults = 0 => HasDead(r[1])]_vars

-----------------------------------------------------------------------------
(* Liveness *)

(* A checked route whose process is gone does not stay in the registry. *)
Gone(r) ==
  /\ RouteLive(r) /\ route[r].check
  /\ SrvLive(r[1]) /\ srv[r[1]].hasCheck
  /\ r[2] \notin answers
DeadRouteRemoved == \A r \in Routes : Gone(r) ~> ~Gone(r)
==============================================================================
