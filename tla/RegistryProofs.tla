---------------------------- MODULE RegistryProofs ----------------------------
(***************************************************************************)
(* What Registry's runs check on small instances, proved for any number of  *)
(* services, addresses, nodes, workers and clients.                         *)
(***************************************************************************)
EXTENDS Registry, FiniteSetTheorems, TLAPS

USE DEF RowStates

-----------------------------------------------------------------------------
(* What a call or check holds at each of its statements. *)

SeekingSrv   == [pc : {"find_srv", "insert_srv"}, req : Requests]
SeekingRoute == [pc : {"revive_srv", "find_route", "insert_route", "update_route"},
                 req : Requests, hasCheck : BOOLEAN]
Flagging     == [pc : {"set_flag"}, req : Requests]
Discovering  == [pc : {"discover", "discover_routes"}, route : Routes]
Deleting     == [pc : {"beat", "take_srv", "del_routes"}, srv : Srvs,
                 routes : SUBSET Routes]
Settling     == [pc : {"count", "drop_srv"}, srv : Srvs]

LEMMA ProcStates ==
  ProcState = {Idle} \cup SeekingSrv \cup SeekingRoute \cup Flagging
              \cup Discovering \cup Deleting \cup Settling
  BY DEF ProcState, SeekingSrv, SeekingRoute, Flagging, Discovering, Deleting, Settling

(* The program counter tells what there is. *)
LEMMA ProcCases ==
  ASSUME NEW state \in ProcState
  PROVE  /\ state.pc \in {"find_srv", "insert_srv"} => state \in SeekingSrv
         /\ state.pc \in {"revive_srv", "find_route", "insert_route", "update_route"}
              => state \in SeekingRoute
         /\ state.pc = "set_flag" => state \in Flagging
         /\ state.pc \in {"discover", "discover_routes"} => state \in Discovering
         /\ state.pc \in {"beat", "take_srv", "del_routes"} => state \in Deleting
         /\ state.pc \in {"count", "drop_srv"} => state \in Settling
<1>1. \/ state = Idle \/ state \in SeekingSrv \/ state \in SeekingRoute
      \/ state \in Flagging \/ state \in Discovering \/ state \in Deleting
      \/ state \in Settling
  BY ProcStates
<1>2. CASE state = Idle
  BY <1>2 DEF Idle
<1>3. CASE state \in SeekingSrv
  BY <1>3 DEF SeekingSrv
<1>4. CASE state \in SeekingRoute
  BY <1>4 DEF SeekingRoute
<1>5. CASE state \in Flagging
  BY <1>5 DEF Flagging
<1>6. CASE state \in Discovering
  BY <1>6 DEF Discovering
<1>7. CASE state \in Deleting
  BY <1>7 DEF Deleting
<1>8. CASE state \in Settling
  BY <1>8 DEF Settling
<1> QED
  BY <1>1, <1>2, <1>3, <1>4, <1>5, <1>6, <1>7, <1>8

(* A process that comes to a state it may be in keeps the type of proc. *)
LEMMA BecomesType ==
  ASSUME TypeOK, NEW p, NEW state \in ProcState, Becomes(p, state)
  PROVE  proc' \in [Procs -> ProcState]
  BY DEF TypeOK, Becomes

LEMMA IdleType == Idle \in ProcState
  BY ProcStates

-----------------------------------------------------------------------------
(* Types *)

LEMMA InitType == Init => TypeOK
<1> SUFFICES ASSUME Init PROVE TypeOK
  OBVIOUS
<1>1. NewRound \in RoundState
  BY DEF NewRound, RoundState
<1> QED
  BY <1>1, IdleType, RegistryBounds DEF Init, TypeOK

(* A call that registers: what it holds, and the row it writes. *)
LEMMA RegisterType ==
  ASSUME TypeOK, NEW c \in Clients,
         (\E req \in Requests : Register(c, req)) \/ RegisterStep(c)
  PROVE  TypeOK'
<1> USE DEF SeekingSrv, SeekingRoute
<1>0. c \in Procs /\ proc[c] \in ProcState
  BY DEF Procs, TypeOK
<1>1. ASSUME NEW req \in Requests, Register(c, req) PROVE TypeOK'
  <2>1. [pc |-> "find_srv", req |-> req] \in ProcState
    BY ProcStates
  <2>2. calls' \in 0 .. MaxCalls
    BY <1>1, RegistryBounds DEF Register, ApiCall, TypeOK
  <2> QED
    BY <1>1, <2>1, <2>2, BecomesType DEF Register, TypeOK
<1>2. CASE FindSrv(c)
  <2>1. proc[c].req \in Requests /\ proc[c].req.srv \in Srvs
    BY <1>0, <1>2, ProcCases, RegistryRequests DEF FindSrv
  <2>2. srv[proc[c].req.srv].hasCheck \in BOOLEAN
    BY <2>1 DEF TypeOK
  <2>3. \E state \in ProcState : Becomes(c, state)
    <3>1. [pc |-> "insert_srv", req |-> proc[c].req] \in ProcState
      BY <2>1, ProcStates
    <3>2. [pc |-> "revive_srv", req |-> proc[c].req,
           hasCheck |-> srv[proc[c].req.srv].hasCheck] \in ProcState
      BY <2>1, <2>2, ProcStates
    <3>3. [pc |-> "find_route", req |-> proc[c].req,
           hasCheck |-> srv[proc[c].req.srv].hasCheck] \in ProcState
      BY <2>1, <2>2, ProcStates
    <3> QED
      BY <1>2, <3>1, <3>2, <3>3 DEF FindSrv
  <2> QED
    BY <1>2, <2>3, BecomesType DEF FindSrv, TypeOK
<1>3. CASE InsertSrv(c)
  <2>1. proc[c].req \in Requests /\ proc[c].req.srv \in Srvs
    BY <1>0, <1>3, ProcCases, RegistryRequests DEF InsertSrv
  <2>2. [pc |-> "find_route", req |-> proc[c].req, hasCheck |-> FALSE] \in ProcState
    BY <2>1, ProcStates
  <2>3. proc' \in [Procs -> ProcState]
    BY <1>3, <2>2, IdleType, BecomesType DEF InsertSrv
  <2>4. srv' \in [Srvs -> [state : RowStates, hasCheck : BOOLEAN]]
    <3>1. [state |-> "live", hasCheck |-> FALSE] \in [state : RowStates, hasCheck : BOOLEAN]
      OBVIOUS
    <3>2. \/ srv' = srv
          \/ srv' = [srv EXCEPT ![proc[c].req.srv] = [state |-> "live", hasCheck |-> FALSE]]
      BY <1>3 DEF InsertSrv
    <3> QED
      BY <2>1, <3>1, <3>2 DEF TypeOK
  <2> QED
    BY <1>3, <2>3, <2>4 DEF InsertSrv, TypeOK
<1>4. CASE ReviveSrv(c)
  <2>1. proc[c] \in SeekingRoute
    BY <1>0, <1>4, ProcCases DEF ReviveSrv
  <2>2. [proc[c] EXCEPT !.pc = "find_route"] \in ProcState
    BY <2>1, ProcStates
  <2>3. proc' \in [Procs -> ProcState]
    BY <1>4, <2>2 DEF ReviveSrv, TypeOK
  <2>4. srv' \in [Srvs -> [state : RowStates, hasCheck : BOOLEAN]]
    BY <1>4 DEF ReviveSrv, TypeOK
  <2> QED
    BY <1>4, <2>3, <2>4 DEF ReviveSrv, TypeOK
<1>5. CASE FindRoute(c)
  <2>1. proc[c] \in SeekingRoute
    BY <1>0, <1>5, ProcCases DEF FindRoute
  <2>2. /\ [proc[c] EXCEPT !.pc = "insert_route"] \in ProcState
        /\ [proc[c] EXCEPT !.pc = "update_route"] \in ProcState
    BY <2>1, ProcStates
  <2>3. proc' \in [Procs -> ProcState]
    BY <1>5, <2>2 DEF FindRoute, TypeOK
  <2> QED
    BY <1>5, <2>3 DEF FindRoute, TypeOK
<1>6. CASE InsertRoute(c) \/ UpdateRoute(c)
  <2>1. proc[c].req \in Requests /\ proc[c].req.check \in BOOLEAN
    BY <1>0, <1>6, ProcCases, RegistryRequests DEF InsertRoute, UpdateRoute
  <2>2. RouteWritten(c) \in ProcState
    BY <2>1, IdleType, ProcStates DEF RouteWritten, Flagging
  <2>3. proc' \in [Procs -> ProcState]
    BY <1>6, <2>2, IdleType, BecomesType DEF InsertRoute, UpdateRoute
  <2>4. route' \in [Routes -> [state : RowStates, check : BOOLEAN]]
    BY <1>6, <2>1 DEF InsertRoute, UpdateRoute, WriteRoute, TypeOK
  <2> QED
    BY <1>6, <2>3, <2>4 DEF InsertRoute, UpdateRoute, TypeOK
<1>7. CASE SetFlag(c)
  <2>1. proc' \in [Procs -> ProcState]
    BY <1>7, IdleType, BecomesType DEF SetFlag
  <2>2. srv' \in [Srvs -> [state : RowStates, hasCheck : BOOLEAN]]
    BY <1>7 DEF SetFlag, TypeOK
  <2> QED
    BY <1>7, <2>1, <2>2 DEF SetFlag, TypeOK
<1> QED
  BY <1>1, <1>2, <1>3, <1>4, <1>5, <1>6, <1>7 DEF RegisterStep

(* A call that unregisters, up to DelSrvRoutes. *)
LEMMA UnregisterType ==
  ASSUME TypeOK, NEW c \in Clients,
         (\E r \in Routes : Unregister(c, r)) \/ Discover(c) \/ DiscoverRoutes(c)
  PROVE  TypeOK'
<1> USE DEF Discovering
<1>0. c \in Procs /\ proc[c] \in ProcState
  BY DEF Procs, TypeOK
<1>1. ASSUME NEW r \in Routes, Unregister(c, r) PROVE TypeOK'
  <2>1. [pc |-> "discover", route |-> r] \in ProcState
    BY ProcStates
  <2>2. calls' \in 0 .. MaxCalls
    BY <1>1, RegistryBounds DEF Unregister, ApiCall, TypeOK
  <2> QED
    BY <1>1, <2>1, <2>2, BecomesType DEF Unregister, TypeOK
<1>2. CASE Discover(c)
  <2>1. proc[c] \in Discovering
    BY <1>0, <1>2, ProcCases DEF Discover
  <2>2. [proc[c] EXCEPT !.pc = "discover_routes"] \in ProcState
    BY <2>1, ProcStates
  <2>3. proc' \in [Procs -> ProcState]
    BY <1>2, <2>2, IdleType DEF Discover, TypeOK
  <2> QED
    BY <1>2, <2>3 DEF Discover, TypeOK
<1>3. CASE DiscoverRoutes(c)
  <2>1. proc[c].route \in Routes
    BY <1>0, <1>3, ProcCases DEF DiscoverRoutes
  <2>2. [pc |-> "take_srv", srv |-> proc[c].route[1],
         routes |-> {proc[c].route} \cap LiveRoutes(proc[c].route[1])] \in Deleting
    BY <2>1 DEF Deleting, LiveRoutes, Routes
  <2>3. \E state \in ProcState : Becomes(c, state)
    BY <1>3, <2>2, ProcStates DEF DiscoverRoutes
  <2> QED
    BY <1>3, <2>3, BecomesType DEF DiscoverRoutes, TypeOK
<1> QED
  BY <1>1, <1>2, <1>3

(* DelSrvRoutes, by a call or a check. *)
LEMMA DelSrvRoutesType ==
  ASSUME TypeOK, NEW p \in Procs, DelSrvRoutesStep(p)
  PROVE  TypeOK'
<1>0. proc[p] \in ProcState
  BY DEF TypeOK
<1>1. CASE TakeSrv(p)
  <2>1. proc[p] \in Deleting
    BY <1>0, <1>1, ProcCases DEF TakeSrv
  <2>2. [proc[p] EXCEPT !.pc = "del_routes"] \in ProcState
    BY <2>1, ProcStates DEF Deleting
  <2>3. proc' \in [Procs -> ProcState]
    BY <1>1, <2>2, IdleType DEF TakeSrv, TypeOK
  <2> QED
    BY <1>1, <2>3 DEF TakeSrv, TypeOK
<1>2. CASE DelRoutes(p)
  <2>1. proc[p] \in Deleting
    BY <1>0, <1>2, ProcCases DEF DelRoutes
  <2>2. [pc |-> "count", srv |-> proc[p].srv] \in ProcState
    BY <2>1, ProcStates DEF Deleting, Settling
  <2>3. proc' \in [Procs -> ProcState]
    BY <1>2, <2>2, BecomesType DEF DelRoutes
  <2>4. route' \in [Routes -> [state : RowStates, check : BOOLEAN]]
    BY <1>2 DEF DelRoutes, TypeOK
  <2> QED
    BY <1>2, <2>3, <2>4 DEF DelRoutes, TypeOK
<1>3. CASE CountRoutes(p)
  <2>1. proc[p] \in Settling
    BY <1>0, <1>3, ProcCases DEF CountRoutes
  <2>2. [proc[p] EXCEPT !.pc = "drop_srv"] \in ProcState
    BY <2>1, ProcStates DEF Settling
  <2>3. proc' \in [Procs -> ProcState]
    BY <1>3, <2>2, IdleType DEF CountRoutes, TypeOK
  <2> QED
    BY <1>3, <2>3 DEF CountRoutes, TypeOK
<1>4. CASE DropSrv(p)
  <2>1. proc' \in [Procs -> ProcState]
    BY <1>4, IdleType, BecomesType DEF DropSrv
  <2>2. srv' \in [Srvs -> [state : RowStates, hasCheck : BOOLEAN]]
    BY <1>4 DEF DropSrv, TypeOK
  <2> QED
    BY <1>4, <2>1, <2>2 DEF DropSrv, TypeOK
<1> QED
  BY <1>1, <1>2, <1>3, <1>4 DEF DelSrvRoutesStep

(* The round of a health check. *)
LEMMA RoundType ==
  ASSUME TypeOK, NEW n \in Nodes, RoundStep(n)
  PROVE  TypeOK'
<1> DEFINE Paging  == [pc : {"page"}, offset : Nat]
           Reading == [pc : {"routes"}, offset : Nat, srvs : SUBSET Srvs]
           Sending == [pc : {"send"}, offset : Nat,
                       list : SUBSET [srv : Srvs, routes : SUBSET Routes]]
<1>0. round[n] \in RoundState /\ RoundState = Paging \cup Reading \cup Sending
  BY DEF TypeOK, RoundState
<1>1. CASE ReadSrvs(n)
  <2>1. round[n] \in Paging
    BY <1>0, <1>1 DEF ReadSrvs
  <2>2. PICK page \in Pages(round[n].offset) :
          round' = [round EXCEPT ![n] = AfterPage(round[n].offset, page)]
    BY <1>1 DEF ReadSrvs
  <2>3. page \in SUBSET Srvs
    BY DEF Pages, Checked
  <2>4. AfterPage(round[n].offset, page) \in RoundState
    BY <2>1, <2>3, RegistryBounds DEF AfterPage, NewRound, RoundState
  <2> QED
    BY <1>1, <2>2, <2>4 DEF ReadSrvs, TypeOK
<1>2. CASE ReadRoutes(n)
  <2>1. round[n] \in Reading
    BY <1>0, <1>2 DEF ReadRoutes
  <2>2. \A s \in round[n].srvs :
          [srv |-> s, routes |-> {r \in LiveRoutes(s) : route[r].check}]
            \in [srv : Srvs, routes : SUBSET Routes]
    BY <2>1 DEF LiveRoutes
  <2>3. [pc |-> "send", offset |-> round[n].offset,
         list |-> {[srv |-> s, routes |-> {r \in LiveRoutes(s) : route[r].check}] :
                     s \in round[n].srvs}] \in Sending
    BY <2>1, <2>2
  <2> QED
    BY <1>0, <1>2, <2>3 DEF ReadRoutes, TypeOK
<1>3. ASSUME NEW k \in Slots, SendSrv(n, k) PROVE TypeOK'
  <2>1. round[n] \in Sending
    BY <1>0, <1>3 DEF SendSrv
  <2>2. PICK entry \in round[n].list :
          /\ round' = [round EXCEPT ![n] =
               IF round[n].list = {entry}
                 THEN [pc |-> "page", offset |-> round[n].offset]
                 ELSE [round[n] EXCEPT !.list = @ \ {entry}]]
          /\ Becomes(<<n, k>>, [pc |-> "beat", srv |-> entry.srv,
                                routes |-> entry.routes])
    BY <1>3 DEF SendSrv
  <2>3. [pc |-> "page", offset |-> round[n].offset] \in Paging
    BY <2>1
  <2>4. [round[n] EXCEPT !.list = @ \ {entry}] \in Sending
    BY <2>1
  <2>5. round' \in [Nodes -> RoundState]
    BY <1>0, <2>2, <2>3, <2>4 DEF TypeOK
  <2>6. [pc |-> "beat", srv |-> entry.srv, routes |-> entry.routes] \in ProcState
    BY <2>1, <2>2, ProcStates DEF Deleting
  <2>7. proc' \in [Procs -> ProcState]
    BY <2>2, <2>6, BecomesType
  <2> QED
    BY <1>3, <2>5, <2>7 DEF SendSrv, TypeOK
<1> QED
  BY <1>1, <1>2, <1>3 DEF RoundStep

(* What was found dead is part of what was asked. *)
LEMMA NoRepliesAsked ==
  ASSUME NEW routes, NEW silent, silent \subseteq routes, NEW no \in NoReplies(routes, silent)
  PROVE  no \subseteq routes
  BY DEF NoReplies

(* A heart beat, whether one of its messages is lost or not.                 *)
Beat(w) == HeartBeat(w) \/ HeartBeatLost(w)

LEMMA BeatJudges ==
  ASSUME NEW w, Beat(w)
  PROVE  /\ proc[w].pc = "beat"
         /\ UNCHANGED <<srv, route, answers, master, round, calls>>
         /\ \E no : /\ no \subseteq proc[w].routes
                    /\ Becomes(w, IF no = {} THEN Idle
                                  ELSE [pc |-> "take_srv", srv |-> proc[w].srv, routes |-> no])
<1>1. /\ proc[w].pc = "beat"
      /\ UNCHANGED <<srv, route, answers, master, round, calls>>
  BY DEF Beat, HeartBeat, HeartBeatLost
<1>2. PICK silent : silent \subseteq proc[w].routes /\ Judged(w, silent)
  <2>1. CASE HeartBeat(w)
    BY <2>1 DEF HeartBeat, Unreachable
  <2>2. CASE HeartBeatLost(w)
    <3>1. PICK r \in proc[w].routes : Judged(w, Unreachable(proc[w].routes) \cup {r})
      BY <2>2 DEF HeartBeatLost
    <3> QED
      BY <3>1 DEF Unreachable
  <2> QED
    BY <2>1, <2>2 DEF Beat
<1> QED
  BY <1>1, <1>2, NoRepliesAsked DEF Judged

LEMMA HeartBeatType ==
  ASSUME TypeOK, NEW w \in Workers, Beat(w)
  PROVE  TypeOK'
<1>0. proc[w] \in ProcState
  BY DEF TypeOK, Procs
<1>1. proc[w] \in Deleting
  BY <1>0, ProcCases, BeatJudges
<1>2. PICK no : /\ no \subseteq proc[w].routes
                /\ Becomes(w, IF no = {} THEN Idle
                              ELSE [pc |-> "take_srv", srv |-> proc[w].srv, routes |-> no])
  BY BeatJudges
<1>3. no \in SUBSET Routes
  BY <1>1, <1>2 DEF Deleting
<1>4. [pc |-> "take_srv", srv |-> proc[w].srv, routes |-> no] \in ProcState
  BY <1>1, <1>3, ProcStates DEF Deleting
<1>5. proc' \in [Procs -> ProcState]
  BY <1>2, <1>4, IdleType, BecomesType
<1>6. faults' \in 0 .. MaxFaults
  BY RegistryBounds DEF Beat, HeartBeat, HeartBeatLost, Fault, TypeOK
<1> QED
  BY <1>5, <1>6, BeatJudges DEF TypeOK

(* Failures, elections and the processes of the services. *)
LEMMA EnvironmentType ==
  ASSUME TypeOK,
         \/ \E n \in Nodes : AbortRound(n) \/ Elect(n) \/ Depose(n)
         \/ \E p \in Procs : Abort(p)
         \/ \E a \in Addrs : Die(a) \/ Restart(a)
  PROVE  TypeOK'
<1> USE RegistryBounds DEF Fault, ApiCall
<1>1. ASSUME NEW n \in Nodes, AbortRound(n) PROVE TypeOK'
  <2>1. NewRound \in RoundState
    BY DEF NewRound, RoundState
  <2> QED
    BY <1>1, <2>1 DEF AbortRound, TypeOK
<1>2. ASSUME NEW n \in Nodes, Elect(n) \/ Depose(n) PROVE TypeOK'
  BY <1>2 DEF Elect, Depose, TypeOK
<1>3. ASSUME NEW p \in Procs, Abort(p) PROVE TypeOK'
  BY <1>3, IdleType, BecomesType DEF Abort, TypeOK
<1>4. ASSUME NEW a \in Addrs, Die(a) \/ Restart(a) PROVE TypeOK'
  BY <1>4 DEF Die, Restart, TypeOK
<1> QED
  BY <1>1, <1>2, <1>3, <1>4

LEMMA TypeStep == TypeOK /\ [Next]_vars => TypeOK'
<1> SUFFICES ASSUME TypeOK, [Next]_vars PROVE TypeOK'
  OBVIOUS
<1>1. CASE UNCHANGED vars
  BY <1>1 DEF vars, TypeOK
<1>2. ASSUME NEW c \in Clients,
             \/ \E req \in Requests : Register(c, req)
             \/ \E r \in Routes : Unregister(c, r)
             \/ CallStep(c)
      PROVE  TypeOK'
  BY <1>2, RegisterType, UnregisterType, DelSrvRoutesType DEF CallStep, Procs
<1>3. ASSUME NEW w \in Workers, CheckStep(w) \/ HeartBeatLost(w) PROVE TypeOK'
  BY <1>3, HeartBeatType, DelSrvRoutesType DEF CheckStep, Beat, Procs
<1> QED
  BY <1>1, <1>2, <1>3, RoundType, EnvironmentType DEF Next

(* The rows, and what calls and checks hold of them, have their types in     *)
(* every behaviour.                                                          *)
THEOREM TypeCorrect == Spec => []TypeOK
  BY InitType, TypeStep, PTL DEF Spec

-----------------------------------------------------------------------------
(* Empty services *)

(* The routes a process is about to delete are routes of one service.        *)
RoutesOfSrv ==
  \A p \in Procs : proc[p].pc \in {"beat", "take_srv", "del_routes"} =>
    \A r \in proc[p].routes : r[1] = proc[p].srv

(* So are those a round has read for a service.                              *)
ListedOfSrv ==
  \A n \in Nodes : round[n].pc = "send" =>
    \A entry \in round[n].list : \A r \in entry.routes : r[1] = entry.srv

OneSrvInv == RoutesOfSrv /\ ListedOfSrv

LEMMA OneSrvInit == Init => OneSrvInv
  BY DEF Init, OneSrvInv, RoutesOfSrv, ListedOfSrv, Idle, NewRound

(* Only DiscoverRoutes, ReadRoutes and the channel hand out sets of routes;  *)
(* HeartBeat makes them smaller.                                             *)
LEMMA OneSrvStep == TypeOK /\ OneSrvInv /\ [Next]_vars => OneSrvInv'
<1> SUFFICES ASSUME TypeOK, OneSrvInv, [Next]_vars PROVE OneSrvInv'
  OBVIOUS
<1> USE DEF OneSrvInv
<1>0. DOMAIN proc = Procs /\ proc = [p \in Procs |-> proc[p]]
      /\ DOMAIN round = Nodes /\ round = [n \in Nodes |-> round[n]]
  BY DEF TypeOK
<1>1. ASSUME NEW p \in Procs, NEW state, proc' = [proc EXCEPT ![p] = state],
             state.pc \in {"beat", "take_srv", "del_routes"} =>
               \A r \in state.routes : r[1] = state.srv
      PROVE  RoutesOfSrv'
  BY <1>0, <1>1 DEF RoutesOfSrv
<1>2. CASE UNCHANGED vars
  BY <1>2 DEF vars, RoutesOfSrv, ListedOfSrv
<1>3. ASSUME NEW c \in Clients,
             (\E req \in Requests : Register(c, req)) \/ RegisterStep(c)
      PROVE  OneSrvInv'
  <2>1. UNCHANGED round
    BY <1>3 DEF RegisterStep, Register, FindSrv, InsertSrv, ReviveSrv, FindRoute,
                InsertRoute, UpdateRoute, SetFlag
  <2>2. \E state : /\ proc' = [proc EXCEPT ![c] = state]
                   /\ state.pc \notin {"beat", "take_srv", "del_routes"}
    <3>1. proc[c] \in ProcState
      BY DEF TypeOK, Procs
    <3>2. proc[c].pc \in {"revive_srv", "find_route"} => proc[c] \in SeekingRoute
      BY <3>1, ProcCases
    <3>3. CASE ReviveSrv(c)
      <4>1. proc' = [proc EXCEPT ![c] = [proc[c] EXCEPT !.pc = "find_route"]]
        BY <3>3 DEF ReviveSrv
      <4>2. [proc[c] EXCEPT !.pc = "find_route"].pc = "find_route"
        BY <3>2, <3>3 DEF SeekingRoute, ReviveSrv
      <4> QED
        BY <4>1, <4>2
    <3>4. CASE FindRoute(c)
      <4> DEFINE next == IF route[RouteOf(proc[c].req)].state = "none"
                           THEN "insert_route" ELSE "update_route"
      <4>1. proc' = [proc EXCEPT ![c] = [proc[c] EXCEPT !.pc = next]]
        BY <3>4 DEF FindRoute
      <4>2. [proc[c] EXCEPT !.pc = next].pc = next
        BY <3>2, <3>4 DEF SeekingRoute, FindRoute
      <4>3. next \notin {"beat", "take_srv", "del_routes"}
        OBVIOUS
      <4> HIDE DEF next
      <4> QED
        BY <4>1, <4>2, <4>3
    <3>5. ASSUME NEW req \in Requests, Register(c, req)
          PROVE  \E state : /\ proc' = [proc EXCEPT ![c] = state]
                            /\ state.pc \notin {"beat", "take_srv", "del_routes"}
      <4> DEFINE state == [pc |-> "find_srv", req |-> req]
      <4>1. proc' = [proc EXCEPT ![c] = state] /\ state.pc = "find_srv"
        BY <3>5 DEF Register, Becomes
      <4> HIDE DEF state
      <4> QED
        BY <4>1
    <3>6. CASE FindSrv(c)
      BY <3>6 DEF FindSrv, Becomes
    <3>7. CASE InsertSrv(c)
      BY <3>7 DEF InsertSrv, Becomes, Idle
    <3>8. CASE InsertRoute(c) \/ UpdateRoute(c) \/ SetFlag(c)
      BY <3>8 DEF InsertRoute, UpdateRoute, SetFlag, RouteWritten, Becomes, Idle
    <3> QED
      BY <1>3, <3>3, <3>4, <3>5, <3>6, <3>7, <3>8 DEF RegisterStep
  <2> QED
    BY <1>1, <2>1, <2>2 DEF ListedOfSrv, Procs
<1>4. ASSUME NEW c \in Clients,
             (\E r \in Routes : Unregister(c, r)) \/ Discover(c) \/ DiscoverRoutes(c)
      PROVE  OneSrvInv'
  <2>1. UNCHANGED round
    BY <1>4 DEF Unregister, Discover, DiscoverRoutes
  <2>2. CASE \E r \in Routes : Unregister(c, r)
    BY <1>1, <2>1, <2>2 DEF Unregister, Becomes, ListedOfSrv, Procs
  <2>3. CASE Discover(c)
    <3>1. proc[c] \in Discovering
      BY <2>3, ProcCases DEF Discover, TypeOK, Procs
    <3>2. [proc[c] EXCEPT !.pc = "discover_routes"].pc = "discover_routes"
      BY <3>1 DEF Discovering
    <3>3. \/ proc' = [proc EXCEPT ![c] = [proc[c] EXCEPT !.pc = "discover_routes"]]
          \/ proc' = [proc EXCEPT ![c] = Idle]
      BY <2>3 DEF Discover
    <3> QED
      BY <1>1, <2>1, <3>2, <3>3 DEF Idle, ListedOfSrv, Procs
  <2>4. CASE DiscoverRoutes(c)
    BY <1>1, <2>1, <2>4 DEF DiscoverRoutes, Becomes, LiveRoutes, ListedOfSrv, Procs
  <2> QED
    BY <1>4, <2>2, <2>3, <2>4
<1>5. ASSUME NEW p \in Procs, DelSrvRoutesStep(p) PROVE OneSrvInv'
  <2>1. UNCHANGED round
    BY <1>5 DEF DelSrvRoutesStep, TakeSrv, DelRoutes, CountRoutes, DropSrv
  <2>2. CASE TakeSrv(p)
    <3>1. proc[p] \in Deleting
      BY <2>2, ProcCases DEF TakeSrv, TypeOK
    <3>2. /\ [proc[p] EXCEPT !.pc = "del_routes"].routes = proc[p].routes
          /\ [proc[p] EXCEPT !.pc = "del_routes"].srv = proc[p].srv
      BY <3>1 DEF Deleting
    <3>3. \/ proc' = [proc EXCEPT ![p] = [proc[p] EXCEPT !.pc = "del_routes"]]
          \/ proc' = [proc EXCEPT ![p] = Idle]
      BY <2>2 DEF TakeSrv
    <3>4. \A r \in proc[p].routes : r[1] = proc[p].srv
      BY <2>2 DEF TakeSrv, RoutesOfSrv
    <3> QED
      BY <1>1, <2>1, <3>2, <3>3, <3>4 DEF Idle, ListedOfSrv
  <2>3. CASE DelRoutes(p)
    BY <1>1, <2>1, <2>3 DEF DelRoutes, Becomes, ListedOfSrv
  <2>4. CASE CountRoutes(p)
    <3>1. proc[p] \in Settling
      BY <2>4, ProcCases DEF CountRoutes, TypeOK
    <3>2. [proc[p] EXCEPT !.pc = "drop_srv"].pc = "drop_srv"
      BY <3>1 DEF Settling
    <3>3. \/ proc' = [proc EXCEPT ![p] = [proc[p] EXCEPT !.pc = "drop_srv"]]
          \/ proc' = [proc EXCEPT ![p] = Idle]
      BY <2>4 DEF CountRoutes
    <3> QED
      BY <1>1, <2>1, <3>2, <3>3 DEF Idle, ListedOfSrv
  <2>5. CASE DropSrv(p)
    BY <1>1, <2>1, <2>5 DEF DropSrv, Becomes, Idle, ListedOfSrv
  <2> QED
    BY <1>5, <2>2, <2>3, <2>4, <2>5 DEF DelSrvRoutesStep
<1>6. ASSUME NEW w \in Workers, Beat(w) PROVE OneSrvInv'
  <2>1. PICK no : /\ no \subseteq proc[w].routes
                  /\ Becomes(w, IF no = {} THEN Idle
                                ELSE [pc |-> "take_srv", srv |-> proc[w].srv, routes |-> no])
    BY <1>6, BeatJudges
  <2>2. \A r \in no : r[1] = proc[w].srv
    BY <1>6, <2>1, BeatJudges DEF RoutesOfSrv, Procs
  <2>3. UNCHANGED round
    BY <1>6, BeatJudges
  <2>4. CASE no = {}
    <3>1. proc' = [proc EXCEPT ![w] = Idle]
      BY <2>1, <2>4 DEF Becomes
    <3>2. RoutesOfSrv'
      BY <1>1, <3>1 DEF Procs, Idle
    <3> QED
      BY <2>3, <3>1, <3>2 DEF ListedOfSrv
  <2>5. CASE no # {}
    <3>1. proc' = [proc EXCEPT ![w] = [pc |-> "take_srv", srv |-> proc[w].srv,
                                       routes |-> no]]
      BY <2>1, <2>5 DEF Becomes
    <3>2. RoutesOfSrv'
      BY <1>1, <2>2, <3>1 DEF Procs
    <3> QED
      BY <2>3, <3>1, <3>2 DEF ListedOfSrv
  <2> QED
    BY <2>4, <2>5
<1>7. ASSUME NEW n \in Nodes, RoundStep(n) PROVE OneSrvInv'
  <2>1. CASE ReadSrvs(n)
    BY <1>0, <2>1 DEF ReadSrvs, AfterPage, NewRound, RoutesOfSrv, ListedOfSrv
  <2>2. CASE ReadRoutes(n)
    <3> DEFINE list == {[srv |-> s, routes |-> {r \in LiveRoutes(s) : route[r].check}] :
                          s \in round[n].srvs}
               state == [pc |-> "send", offset |-> round[n].offset, list |-> list]
    <3>1. \A entry \in list : \A r \in entry.routes : r[1] = entry.srv
      BY DEF LiveRoutes
    <3>2. round' = [round EXCEPT ![n] = state] /\ state.list = list /\ UNCHANGED proc
      BY <2>2 DEF ReadRoutes
    <3> HIDE DEF list, state
    <3> QED
      BY <1>0, <3>1, <3>2 DEF RoutesOfSrv, ListedOfSrv
  <2>3. ASSUME NEW k \in Slots, SendSrv(n, k) PROVE OneSrvInv'
    <3>1. PICK entry \in round[n].list :
            /\ round' = [round EXCEPT ![n] =
                 IF round[n].list = {entry}
                   THEN [pc |-> "page", offset |-> round[n].offset]
                   ELSE [round[n] EXCEPT !.list = @ \ {entry}]]
            /\ Becomes(<<n, k>>, [pc |-> "beat", srv |-> entry.srv,
                                  routes |-> entry.routes])
      BY <2>3 DEF SendSrv
    <3>2. \A r \in entry.routes : r[1] = entry.srv
      BY <2>3, <3>1 DEF SendSrv, ListedOfSrv
    <3>3. RoutesOfSrv'
      BY <1>1, <3>1, <3>2 DEF Becomes, Procs, Workers
    <3>4. round[n] \in [pc : {"send"}, offset : Nat,
                        list : SUBSET [srv : Srvs, routes : SUBSET Routes]]
      BY <2>3 DEF SendSrv, TypeOK, RoundState
    <3>5. [round[n] EXCEPT !.list = @ \ {entry}].list = round[n].list \ {entry}
      BY <3>4
    <3>6. ListedOfSrv'
      BY <1>0, <2>3, <3>1, <3>5 DEF SendSrv, ListedOfSrv
    <3> QED
      BY <3>3, <3>6
  <2> QED
    BY <1>7, <2>1, <2>2, <2>3 DEF RoundStep
<1>8. ASSUME NEW n \in Nodes, AbortRound(n) \/ Elect(n) \/ Depose(n) PROVE OneSrvInv'
  BY <1>0, <1>8 DEF AbortRound, Elect, Depose, NewRound, RoutesOfSrv, ListedOfSrv
<1>9. ASSUME NEW p \in Procs, Abort(p) PROVE OneSrvInv'
  BY <1>1, <1>9 DEF Abort, Becomes, Idle, ListedOfSrv
<1>10. ASSUME NEW a \in Addrs, Die(a) \/ Restart(a) PROVE OneSrvInv'
  BY <1>10 DEF Die, Restart, RoutesOfSrv, ListedOfSrv
<1> QED
  BY <1>2, <1>3, <1>4, <1>5, <1>6, <1>7, <1>8, <1>9, <1>10
     DEF Next, CallStep, CheckStep, Beat, Procs

(* Nothing is empty in the beginning, for nothing is there.                  *)
LEMMA SettledInit == Init => EmptySrvSettled
  BY DEF Init, EmptySrvSettled, Settled, SrvLive

(* A step of p in which p does not give up a service s that was and stays    *)
(* live and empty leaves s in somebody's hands.                              *)
LEMMA SettledKept ==
  ASSUME TypeOK, NEW s \in Srvs, Settled(s), SrvLive(s), LiveRoutes(s) = {},
         NEW p \in Procs, NEW state, proc' = [proc EXCEPT ![p] = state],
         \A r \in Routes : r[1] = s /\ route[r].state = "none"
                              => route'[r].state = "none",
         Settles(p, s) => Settles(p, s)'
  PROVE  (\E q \in Procs : Settles(q, s))'
<1>1. PICK q \in Procs : Settles(q, s)
  BY DEF Settled
<1>2. CASE q = p
  BY <1>1, <1>2
<1>3. CASE q # p
  <2>1. proc'[q] = proc[q]
    BY <1>3 DEF TypeOK
  <2>2. CASE proc[q].pc = "insert_route"
    <3>1. proc[q] \in SeekingRoute
      BY <2>2, ProcCases DEF TypeOK
    <3>2. RouteOf(proc[q].req) \in Routes /\ RouteOf(proc[q].req)[1] = proc[q].req.srv
      BY <3>1, RegistryRequests DEF SeekingRoute, RouteOf, Routes
    <3>3. /\ proc[q].req.srv = s
          /\ route[RouteOf(proc[q].req)].state = "none"
      BY <1>1, <2>2 DEF Settles
    <3>4. route'[RouteOf(proc[q].req)].state = "none"
      BY <3>2, <3>3
    <3> QED
      BY <2>1, <2>2, <3>3, <3>4 DEF Settles, RouteOf
  <2>3. CASE proc[q].pc # "insert_route"
    <3>1. Settles(q, s)'
      BY <1>1, <2>1, <2>3 DEF Settles
    <3> QED
      BY <3>1
  <2> QED
    BY <2>2, <2>3
<1> QED
  BY <1>2, <1>3

(* A service that is empty after a step of p that leaves the rows of other   *)
(* services alone was so before.                                             *)
LEMMA StillEmpty ==
  ASSUME TypeOK, NEW s \in Srvs, SrvLive(s)', LiveRoutes(s)' = {},
         srv'[s].state = srv[s].state,
         \A r \in Routes : r[1] = s => route'[r] = route[r]
  PROVE  /\ SrvLive(s) /\ LiveRoutes(s) = {}
         /\ \A r \in Routes : r[1] = s /\ route[r].state = "none"
                                => route'[r].state = "none"
  BY DEF SrvLive, LiveRoutes, RouteLive

(* A call that registers a route.                                            *)
LEMMA SettledRegister ==
  ASSUME TypeOK, NEW s \in Srvs, Settled(s), NEW c \in Clients,
         (\E req \in Requests : Register(c, req)) \/ RegisterStep(c)
  PROVE  Settled(s)'
<1> SUFFICES ASSUME SrvLive(s)', LiveRoutes(s)' = {}
             PROVE  (\E q \in Procs : Settles(q, s))'
  BY DEF Settled
<1>0. c \in Procs /\ proc[c] \in ProcState
  BY DEF Procs, TypeOK
<1>1. ASSUME NEW req \in Requests, Register(c, req)
      PROVE  (\E q \in Procs : Settles(q, s))'
  <2>1. UNCHANGED <<srv, route>> /\ proc' = [proc EXCEPT ![c] = [pc |-> "find_srv", req |-> req]]
    BY <1>1 DEF Register, Becomes
  <2>2. ~Settles(c, s)
    BY <1>1 DEF Register, Idle, Settles
  <2> QED
    BY <1>0, <2>1, <2>2, StillEmpty, SettledKept
<1>2. CASE FindSrv(c)
  <2>1. UNCHANGED <<srv, route>> /\ \E state : proc' = [proc EXCEPT ![c] = state]
    BY <1>2 DEF FindSrv, Becomes
  <2>2. ~Settles(c, s)
    BY <1>2 DEF FindSrv, Settles
  <2> QED
    BY <1>0, <2>1, <2>2, StillEmpty, SettledKept
<1>3. CASE InsertSrv(c) \/ ReviveSrv(c)
  <2>1. /\ UNCHANGED route
        /\ \E state : proc' = [proc EXCEPT ![c] = state]
        /\ ~Settles(c, s)
    BY <1>3 DEF InsertSrv, ReviveSrv, Becomes, Settles
  <2>2. CASE srv'[s].state = srv[s].state
    BY <1>0, <2>1, <2>2, StillEmpty, SettledKept
  <2>3. CASE srv'[s].state # srv[s].state
    <3>1. CASE InsertSrv(c)
      <4>1. /\ proc[c].req.srv = s
            /\ proc' = [proc EXCEPT ![c] =
                 [pc |-> "find_route", req |-> proc[c].req, hasCheck |-> FALSE]]
        BY <2>3, <3>1 DEF InsertSrv, Becomes, TypeOK
      <4>2. proc'[c].pc = "find_route" /\ proc'[c].req.srv = s
        BY <1>0, <4>1 DEF TypeOK
      <4> QED
        BY <1>0, <4>2 DEF Settles
    <3>2. CASE ReviveSrv(c)
      <4>1. proc[c] \in SeekingRoute
        BY <1>0, <3>2, ProcCases DEF ReviveSrv
      <4>2. proc[c].req.srv = s
        BY <2>3, <3>2 DEF ReviveSrv, TypeOK
      <4>3. proc'[c].pc = "find_route" /\ proc'[c].req = proc[c].req
        BY <1>0, <3>2, <4>1 DEF ReviveSrv, SeekingRoute, TypeOK
      <4> QED
        BY <1>0, <4>2, <4>3 DEF Settles
    <3> QED
      BY <1>3, <3>1, <3>2
  <2> QED
    BY <2>2, <2>3
<1>4. CASE FindRoute(c)
  <2>1. UNCHANGED <<srv, route>>
        /\ \E state : proc' = [proc EXCEPT ![c] = state]
    BY <1>4 DEF FindRoute
  <2>2. proc[c] \in SeekingRoute
    BY <1>0, <1>4, ProcCases DEF FindRoute
  <2>3. /\ proc'[c].req = proc[c].req
        /\ proc'[c].pc = IF route[RouteOf(proc[c].req)].state = "none"
                           THEN "insert_route" ELSE "update_route"
    BY <1>0, <1>4, <2>2 DEF FindRoute, SeekingRoute, TypeOK
  <2>4. Settles(c, s) => Settles(c, s)'
    BY <1>4, <2>1, <2>3 DEF FindRoute, Settles, RouteOf
  <2> QED
    BY <1>0, <2>1, <2>4, StillEmpty, SettledKept
<1>5. CASE InsertRoute(c) \/ UpdateRoute(c)
  <2>1. proc[c] \in SeekingRoute
    BY <1>0, <1>5, ProcCases DEF InsertRoute, UpdateRoute
  <2> DEFINE mine == RouteOf(proc[c].req)
  <2>2. mine \in Routes /\ mine[1] = proc[c].req.srv
    BY <2>1, RegistryRequests DEF SeekingRoute, RouteOf, Routes
  <2>3. UNCHANGED srv /\ \E state : proc' = [proc EXCEPT ![c] = state]
    BY <1>5 DEF InsertRoute, UpdateRoute, Becomes
  <2>4. CASE UNCHANGED route
    <3>1. ~Settles(c, s) \/ route'[mine].state = "live"
      <4>1. CASE InsertRoute(c) /\ route[mine].state # "none"
        BY <4>1 DEF InsertRoute, Settles
      <4>2. CASE (InsertRoute(c) /\ route[mine].state = "none") \/ UpdateRoute(c)
        <5>1. route' = [route EXCEPT ![mine] = [state |-> "live", check |-> proc[c].req.check]]
          BY <4>2 DEF InsertRoute, UpdateRoute, WriteRoute
        <5> QED
          BY <2>2, <5>1 DEF TypeOK
      <4> QED
        BY <1>5, <4>1, <4>2
    <3>2. CASE ~Settles(c, s)
      BY <1>0, <2>3, <2>4, <3>2, StillEmpty, SettledKept
    <3>3. CASE Settles(c, s) /\ route'[mine].state = "live"
      <4>1. mine[1] = s
        BY <1>5, <2>2, <3>3 DEF InsertRoute, UpdateRoute, Settles
      <4> QED
        BY <2>2, <3>3, <4>1 DEF LiveRoutes, RouteLive
    <3> QED
      BY <3>1, <3>2, <3>3
  <2>5. CASE ~UNCHANGED route
    <3>1. route' = [route EXCEPT ![mine] = [state |-> "live", check |-> proc[c].req.check]]
      BY <1>5, <2>5 DEF InsertRoute, UpdateRoute, WriteRoute
    <3>2. route'[mine].state = "live" /\ \A r \in Routes : r # mine => route'[r] = route[r]
      BY <2>2, <3>1 DEF TypeOK
    <3>3. proc[c].req.srv # s
      BY <2>2, <3>2 DEF LiveRoutes, RouteLive
    <3>4. ~Settles(c, s)
      BY <1>5, <3>3 DEF InsertRoute, UpdateRoute, Settles
    <3>5. \A r \in Routes : r[1] = s => route'[r] = route[r]
      BY <2>2, <3>2, <3>3
    <3> QED
      BY <1>0, <2>3, <3>4, <3>5, StillEmpty, SettledKept
  <2> QED
    BY <2>4, <2>5
<1>6. CASE SetFlag(c)
  <2>1. UNCHANGED route /\ (\E state : proc' = [proc EXCEPT ![c] = state])
        /\ ~Settles(c, s)
    BY <1>6 DEF SetFlag, Becomes, Settles
  <2>2. srv'[s].state = srv[s].state
    BY <1>6 DEF SetFlag, TypeOK
  <2> QED
    BY <1>0, <2>1, <2>2, StillEmpty, SettledKept
<1> QED
  BY <1>1, <1>2, <1>3, <1>4, <1>5, <1>6 DEF RegisterStep

(* DelSrvRoutes: who deletes the routes of a service counts them next, and   *)
(* who finds none deletes the service.                                       *)
LEMMA SettledDelSrvRoutes ==
  ASSUME TypeOK, OneSrvInv, NEW s \in Srvs, Settled(s),
         NEW p \in Procs, DelSrvRoutesStep(p)
  PROVE  Settled(s)'
<1> SUFFICES ASSUME SrvLive(s)', LiveRoutes(s)' = {}
             PROVE  (\E q \in Procs : Settles(q, s))'
  BY DEF Settled
<1>0. proc[p] \in ProcState
  BY DEF TypeOK
<1>1. CASE TakeSrv(p)
  <2>1. UNCHANGED <<srv, route>> /\ (\E state : proc' = [proc EXCEPT ![p] = state])
        /\ ~Settles(p, s)
    BY <1>1 DEF TakeSrv, Settles
  <2> QED
    BY <2>1, StillEmpty, SettledKept
<1>2. CASE DelRoutes(p)
  <2>1. /\ UNCHANGED srv
        /\ proc' = [proc EXCEPT ![p] = [pc |-> "count", srv |-> proc[p].srv]]
        /\ ~Settles(p, s)
    BY <1>2 DEF DelRoutes, Becomes, Settles
  <2>2. CASE proc[p].srv = s
    <3>1. proc'[p].pc = "count" /\ proc'[p].srv = s
      BY <2>1, <2>2 DEF TypeOK
    <3> QED
      BY <3>1 DEF Settles
  <2>3. CASE proc[p].srv # s
    <3>1. \A r \in proc[p].routes : r[1] # s
      BY <1>2, <2>3 DEF DelRoutes, OneSrvInv, RoutesOfSrv
    <3>2. \A r \in Routes : r[1] = s => route'[r] = route[r]
      BY <1>2, <3>1 DEF DelRoutes
    <3> QED
      BY <2>1, <3>2, StillEmpty, SettledKept
  <2> QED
    BY <2>2, <2>3
<1>3. CASE CountRoutes(p)
  <2>1. UNCHANGED <<srv, route>> /\ \E state : proc' = [proc EXCEPT ![p] = state]
    BY <1>3 DEF CountRoutes
  <2>2. SrvLive(s) /\ LiveRoutes(s) = {}
    BY <2>1, StillEmpty
  <2>3. Settles(p, s) => Settles(p, s)'
    <3> SUFFICES ASSUME Settles(p, s) PROVE Settles(p, s)'
      OBVIOUS
    <3>1. proc[p].srv = s
      BY <1>3 DEF CountRoutes, Settles
    <3>2. proc[p] \in Settling
      BY <1>0, <1>3, ProcCases DEF CountRoutes
    <3>3. proc'[p].pc = "drop_srv" /\ proc'[p].srv = s
      BY <1>3, <2>2, <3>1, <3>2 DEF CountRoutes, Settling, TypeOK
    <3> QED
      BY <3>3 DEF Settles
  <2> QED
    BY <2>1, <2>2, <2>3, StillEmpty, SettledKept
<1>4. CASE DropSrv(p)
  <2>1. UNCHANGED route /\ \E state : proc' = [proc EXCEPT ![p] = state]
    BY <1>4 DEF DropSrv, Becomes
  <2>2. proc[p].srv # s
    BY <1>4 DEF DropSrv, SrvLive, TypeOK
  <2>3. ~Settles(p, s) /\ srv'[s].state = srv[s].state
    BY <1>4, <2>2 DEF DropSrv, Settles, TypeOK
  <2> QED
    BY <2>1, <2>3, StillEmpty, SettledKept
<1> QED
  BY <1>1, <1>2, <1>3, <1>4 DEF DelSrvRoutesStep

(* The other steps touch neither rows nor a process that settles a service,  *)
(* unless one that does fails.                                               *)
LEMMA SettledOthers ==
  ASSUME TypeOK, NEW s \in Srvs, Settled(s),
         \/ \E c \in Clients, r \in Routes : Unregister(c, r)
         \/ \E c \in Clients : Discover(c) \/ DiscoverRoutes(c)
         \/ \E w \in Workers : Beat(w)
         \/ \E n \in Nodes : RoundStep(n) \/ AbortRound(n) \/ Elect(n) \/ Depose(n)
         \/ \E p \in Procs : Abort(p) /\ ~Settles(p, s)
         \/ \E a \in Addrs : Die(a) \/ Restart(a)
  PROVE  Settled(s)'
<1> SUFFICES ASSUME SrvLive(s)', LiveRoutes(s)' = {}
             PROVE  (\E q \in Procs : Settles(q, s))'
  BY DEF Settled
<1>1. UNCHANGED <<srv, route>>
  BY BeatJudges
     DEF Unregister, Discover, DiscoverRoutes, RoundStep, ReadSrvs, ReadRoutes, SendSrv,
         AbortRound, Elect, Depose, Abort, Die, Restart
<1>2. SrvLive(s) /\ LiveRoutes(s) = {}
  BY <1>1, StillEmpty
<1>3. ASSUME NEW p \in Procs, NEW state, proc' = [proc EXCEPT ![p] = state],
             proc[p].pc \in {"idle", "discover", "discover_routes", "beat"}
      PROVE  (\E q \in Procs : Settles(q, s))'
  <2>1. ~Settles(p, s)
    BY <1>3 DEF Settles
  <2> QED
    BY <1>1, <1>2, <1>3, <2>1, SettledKept
<1>4. ASSUME NEW c \in Clients,
             (\E r \in Routes : Unregister(c, r)) \/ Discover(c) \/ DiscoverRoutes(c)
      PROVE  (\E q \in Procs : Settles(q, s))'
  <2>1. /\ \E state : proc' = [proc EXCEPT ![c] = state]
        /\ proc[c].pc \in {"idle", "discover", "discover_routes"}
    BY <1>4 DEF Unregister, Discover, DiscoverRoutes, Becomes, Idle
  <2> QED
    BY <1>3, <2>1 DEF Procs
<1>5. ASSUME NEW w \in Workers, Beat(w) PROVE (\E q \in Procs : Settles(q, s))'
  <2>1. (\E state : proc' = [proc EXCEPT ![w] = state]) /\ proc[w].pc = "beat"
    BY <1>5, BeatJudges DEF Becomes
  <2> QED
    BY <1>3, <2>1 DEF Procs
<1>6. ASSUME NEW n \in Nodes, NEW k \in Slots, SendSrv(n, k)
      PROVE  (\E q \in Procs : Settles(q, s))'
  <2>1. PICK entry : Becomes(<<n, k>>, [pc |-> "beat", srv |-> entry.srv,
                                        routes |-> entry.routes])
    BY <1>6 DEF SendSrv
  <2>2. proc[<<n, k>>].pc = "idle"
    BY <1>6 DEF SendSrv, Idle
  <2> QED
    BY <1>3, <2>1, <2>2 DEF Becomes, Procs, Workers
<1>7. CASE UNCHANGED proc
  <2>1. PICK q \in Procs : Settles(q, s)
    BY <1>2 DEF Settled
  <2>2. Settles(q, s)'
    BY <1>1, <1>7, <2>1 DEF Settles, RouteOf
  <2> QED
    BY <2>2
<1>8. ASSUME NEW n \in Nodes,
             ReadSrvs(n) \/ ReadRoutes(n) \/ AbortRound(n) \/ Elect(n) \/ Depose(n)
      PROVE  UNCHANGED proc
  BY <1>8 DEF ReadSrvs, ReadRoutes, AbortRound, Elect, Depose
<1>9. ASSUME NEW a \in Addrs, Die(a) \/ Restart(a) PROVE UNCHANGED proc
  BY <1>9 DEF Die, Restart
<1>10. ASSUME NEW p \in Procs, Abort(p), ~Settles(p, s)
       PROVE  (\E q \in Procs : Settles(q, s))'
  BY <1>1, <1>2, <1>10, SettledKept DEF Abort, Becomes
<1> QED
  BY <1>4, <1>5, <1>6, <1>7, <1>8, <1>9, <1>10 DEF RoundStep

(* Every step but the failure of who settles it keeps a service settled.     *)
LEMMA SettledStays ==
  ASSUME TypeOK, OneSrvInv, NEW s \in Srvs, Settled(s), [Next]_vars,
         \A p \in Procs : Abort(p) => ~Settles(p, s)
  PROVE  Settled(s)'
<1>1. CASE UNCHANGED vars
  BY <1>1 DEF vars, Settled, SrvLive, LiveRoutes, RouteLive, Settles, RouteOf
<1>2. CASE Next
  BY <1>2, SettledRegister, SettledDelSrvRoutes, SettledOthers
     DEF Next, CallStep, CheckStep, Beat, Procs
<1> QED
  BY <1>1, <1>2

LEMMA SettledStep ==
  ASSUME "fail" \notin Env \/ faults' = 0, TypeOK, OneSrvInv, EmptySrvSettled, [Next]_vars
  PROVE  EmptySrvSettled'
<1>1. ASSUME NEW p \in Procs, Abort(p) PROVE FALSE
  BY <1>1 DEF Abort, Fault, TypeOK
<1> QED
  BY <1>1, SettledStays DEF EmptySrvSettled

(* Where no statement fails and no process dies, every empty service is in   *)
(* the hands of a call or check that will fill or delete it, ...             *)
THEOREM EmptyServicesSettled ==
  ASSUME "fail" \notin Env PROVE Spec => []EmptySrvSettled
<1>1. TypeOK /\ OneSrvInv /\ EmptySrvSettled /\ [Next]_vars => EmptySrvSettled'
  BY SettledStep
<1> QED
  BY <1>1, InitType, OneSrvInit, SettledInit, TypeStep, OneSrvStep, PTL DEF Spec

(* ... and when all of them are over no service is empty, however many of    *)
(* them there were and however their statements were interleaved.            *)
THEOREM NoEmptyService ==
  ASSUME "fail" \notin Env PROVE Spec => []NoEmptySrv
<1>1. EmptySrvSettled => NoEmptySrv
  BY DEF EmptySrvSettled, Settled, NoEmptySrv, Quiet, Settles, Idle
<1> QED
  BY <1>1, EmptyServicesSettled, PTL

-----------------------------------------------------------------------------
(* Services left empty by a failure *)

(* A process settles one service at a time.                                  *)
LEMMA OneSettled ==
  ASSUME NEW p \in Procs, NEW s, NEW t, Settles(p, s), Settles(p, t)
  PROVE  s = t
  BY DEF Settles

(* At most one service is given up in a step, and only a failure does that.  *)
LEMMA NeglectStep ==
  ASSUME TypeOK, OneSrvInv, [Next]_vars
  PROVE  \/ Neglected' \subseteq Neglected
         \/ /\ faults' = faults + 1
            /\ \E s \in Srvs : Neglected' \subseteq Neglected \cup {s}
<1>1. CASE \E s \in Srvs, p \in Procs : Settled(s) /\ Abort(p) /\ Settles(p, s)
  <2>1. PICK s \in Srvs, p \in Procs : Abort(p) /\ Settles(p, s)
    BY <1>1
  <2>2. ASSUME NEW t \in Srvs \ {s}, Settled(t) PROVE Settled(t)'
    <3>1. ~Settles(p, t)
      BY <2>1, OneSettled
    <3> QED
      BY <2>1, <2>2, <3>1, SettledOthers
  <2>3. faults' = faults + 1
    BY <2>1 DEF Abort, Fault
  <2> QED
    BY <2>2, <2>3 DEF Neglected
<1>2. CASE ~\E s \in Srvs, p \in Procs : Settled(s) /\ Abort(p) /\ Settles(p, s)
  <2>1. \A s \in Srvs : Settled(s) => Settled(s)'
    BY <1>2, SettledStays
  <2> QED
    BY <2>1 DEF Neglected
<1> QED
  BY <1>1, <1>2

(* No step takes a failure back.                                             *)
LEMMA FaultsGrow ==
  ASSUME TypeOK, [Next]_vars PROVE faults' \in Nat /\ faults <= faults'
<1>1. faults' \in {faults, faults + 1}
  BY DEF Next, vars, Register, Unregister, CallStep, RegisterStep, FindSrv, InsertSrv,
         ReviveSrv, FindRoute, InsertRoute, UpdateRoute, SetFlag, Discover,
         DiscoverRoutes, DelSrvRoutesStep, TakeSrv, DelRoutes, CountRoutes, DropSrv,
         CheckStep, HeartBeat, HeartBeatLost, RoundStep, ReadSrvs, ReadRoutes, SendSrv,
         AbortRound, Elect, Depose, Abort, Die, Restart, Fault
<1> QED
  BY <1>1, RegistryBounds DEF TypeOK

(* That many are finitely many.                                              *)
NeglectInv == IsFiniteSet(Neglected) /\ NeglectBounded

LEMMA NeglectInit == Init => NeglectInv
<1> SUFFICES ASSUME Init PROVE NeglectInv
  OBVIOUS
<1>1. Neglected = {}
  BY SettledInit DEF EmptySrvSettled, Neglected
<1>2. IsFiniteSet({}) /\ Cardinality({}) = 0
  BY FS_EmptySet
<1> QED
  BY <1>1, <1>2 DEF NeglectInv, NeglectBounded, Init

LEMMA NeglectKept ==
  ASSUME TypeOK, OneSrvInv, NeglectInv, [Next]_vars PROVE NeglectInv'
<1> USE DEF NeglectInv, NeglectBounded
<1>1. Cardinality(Neglected) \in Nat /\ faults \in Nat
  BY FS_CardinalityType, RegistryBounds DEF TypeOK
<1>2. CASE Neglected' \subseteq Neglected
  <2>1. IsFiniteSet(Neglected') /\ Cardinality(Neglected') <= Cardinality(Neglected)
    BY <1>2, FS_Subset
  <2>2. Cardinality(Neglected') \in Nat
    BY <2>1, FS_CardinalityType
  <2> QED
    BY <1>1, <2>1, <2>2, FaultsGrow
<1>3. ASSUME faults' = faults + 1, NEW s \in Srvs, Neglected' \subseteq Neglected \cup {s}
      PROVE  NeglectInv'
  <2>1. /\ IsFiniteSet(Neglected \cup {s})
        /\ Cardinality(Neglected \cup {s}) \in
             {Cardinality(Neglected), Cardinality(Neglected) + 1}
    BY FS_AddElement
  <2>2. /\ IsFiniteSet(Neglected')
        /\ Cardinality(Neglected') <= Cardinality(Neglected \cup {s})
    BY <1>3, <2>1, FS_Subset
  <2>3. Cardinality(Neglected') \in Nat
    BY <2>2, FS_CardinalityType
  <2> QED
    BY <1>1, <1>3, <2>1, <2>2, <2>3
<1> QED
  BY <1>2, <1>3, NeglectStep

(* Where statements fail and processes die, each failure leaves at most one  *)
(* service empty that nobody will fill or delete, however many calls and     *)
(* checks overlap.                                                           *)
THEOREM NeglectedServicesBounded == Spec => []NeglectBounded
<1>1. NeglectInv => NeglectBounded
  BY DEF NeglectInv
<1> QED
  BY <1>1, InitType, OneSrvInit, NeglectInit, TypeStep, OneSrvStep, NeglectKept, PTL DEF Spec

-----------------------------------------------------------------------------
(* Routes under a deleted service *)

(* p has found or made the service s and will write a route under it.        *)
WritesRoute(p, s) ==
  proc[p].pc \in {"find_route", "insert_route", "update_route"} /\ proc[p].req.srv = s

(* No registration is between finding its service and writing its route      *)
(* while another call or check has found that service without routes and is  *)
(* about to delete it.                                                       *)
Apart ==
  \A p, q \in Procs, s \in Srvs :
    ~(WritesRoute(p, s) /\ proc[q].pc = "drop_srv" /\ proc[q].srv = s)

(* Why that is enough: who will write a route finds the service there, and   *)
(* who will delete a service has seen it without routes; neither changes     *)
(* before it is done.                                                        *)
OrphanInv ==
  /\ \A r \in Routes : RouteLive(r) => SrvLive(r[1])
  /\ \A p \in Procs, s \in Srvs : WritesRoute(p, s) => SrvLive(s)
  /\ \A p \in Procs : proc[p].pc = "drop_srv" => LiveRoutes(proc[p].srv) = {}

LEMMA OrphanInit == Init => OrphanInv
  BY DEF Init, OrphanInv, RouteLive, WritesRoute, Idle

(* A step of p that deletes no service and writes no route.                  *)
LEMMA OrphanKept ==
  ASSUME TypeOK, OrphanInv, NEW p \in Procs, NEW state, proc' = [proc EXCEPT ![p] = state],
         \A s \in Srvs : SrvLive(s) => SrvLive(s)',
         \A r \in Routes : RouteLive(r)' => RouteLive(r),
         \A s \in Srvs : WritesRoute(p, s)' => SrvLive(s)',
         state.pc = "drop_srv" => LiveRoutes(state.srv) = {}
  PROVE  OrphanInv'
<1>1. proc'[p] = state /\ \A q \in Procs : q # p => proc'[q] = proc[q]
  BY DEF TypeOK
<1>2. \A r \in Routes : RouteLive(r)' => SrvLive(r[1])'
  BY DEF OrphanInv, Routes
<1>3. ASSUME NEW q \in Procs, NEW s \in Srvs, WritesRoute(q, s)' PROVE SrvLive(s)'
  BY <1>1, <1>3 DEF OrphanInv, WritesRoute
<1>4. ASSUME NEW q \in Procs, proc'[q].pc = "drop_srv"
      PROVE  LiveRoutes(proc[q].srv)' = {}
  <2>1. \A s : LiveRoutes(s)' \subseteq LiveRoutes(s)
    BY DEF LiveRoutes
  <2>2. LiveRoutes(proc'[q].srv) = {}
    BY <1>1, <1>4 DEF OrphanInv
  <2> QED
    BY <2>1, <2>2 DEF LiveRoutes
<1> QED
  BY <1>2, <1>3, <1>4 DEF OrphanInv

LEMMA OrphanRegister ==
  ASSUME TypeOK, OrphanInv, Apart, NEW c \in Clients,
         (\E req \in Requests : Register(c, req)) \/ RegisterStep(c)
  PROVE  OrphanInv'
<1>0. c \in Procs /\ proc[c] \in ProcState
  BY DEF Procs, TypeOK
<1>1. ASSUME NEW req \in Requests, Register(c, req) PROVE OrphanInv'
  <2>1. UNCHANGED <<srv, route>> /\ proc' = [proc EXCEPT ![c] = [pc |-> "find_srv", req |-> req]]
    BY <1>1 DEF Register, Becomes
  <2>2. proc'[c].pc = "find_srv"
    BY <1>0, <2>1 DEF TypeOK
  <2> QED
    BY <1>0, <2>1, <2>2, OrphanKept DEF SrvLive, RouteLive, WritesRoute
<1>2. CASE FindSrv(c)
  <2> DEFINE req == proc[c].req
  <2>1. PICK state :
          /\ proc' = [proc EXCEPT ![c] = state]
          /\ state.pc \in {"insert_srv", "revive_srv", "find_route"}
          /\ state.req = req
          /\ state.pc = "find_route" => SrvLive(req.srv)
    BY <1>2 DEF FindSrv, Becomes, SrvLive
  <2>2. UNCHANGED <<srv, route>> /\ proc'[c] = state
    BY <1>0, <1>2, <2>1 DEF FindSrv, TypeOK
  <2>3. \A s \in Srvs : WritesRoute(c, s)' => SrvLive(s)'
    BY <2>1, <2>2 DEF WritesRoute, SrvLive
  <2>4. /\ \A s \in Srvs : SrvLive(s) => SrvLive(s)'
        /\ \A r \in Routes : RouteLive(r)' => RouteLive(r)
    BY <2>2 DEF SrvLive, RouteLive
  <2> QED
    BY <1>0, <2>1, <2>3, <2>4, OrphanKept
<1>3. CASE InsertSrv(c)
  <2> DEFINE req == proc[c].req
  <2>1. UNCHANGED route
    BY <1>3 DEF InsertSrv
  <2>2. CASE srv[req.srv].state = "none"
    <3>1. /\ srv' = [srv EXCEPT ![req.srv] = [state |-> "live", hasCheck |-> FALSE]]
          /\ proc' = [proc EXCEPT ![c] = [pc |-> "find_route", req |-> req, hasCheck |-> FALSE]]
      BY <1>3, <2>2 DEF InsertSrv, Becomes
    <3>2. proc'[c].req = req
      BY <1>0, <3>1 DEF TypeOK
    <3>3. \A s \in Srvs : SrvLive(s) \/ s = req.srv => SrvLive(s)'
      BY <3>1 DEF SrvLive, TypeOK
    <3> QED
      BY <1>0, <2>1, <3>1, <3>2, <3>3, OrphanKept DEF RouteLive, WritesRoute
  <2>3. CASE srv[req.srv].state # "none"
    <3>1. UNCHANGED srv /\ proc' = [proc EXCEPT ![c] = Idle]
      BY <1>3, <2>3 DEF InsertSrv, Becomes
    <3>2. proc'[c].pc = "idle"
      BY <1>0, <3>1 DEF Idle, TypeOK
    <3> QED
      BY <1>0, <2>1, <3>1, <3>2, OrphanKept DEF SrvLive, RouteLive, WritesRoute, Idle
  <2> QED
    BY <2>2, <2>3
<1>4. CASE ReviveSrv(c)
  <2>1. proc[c] \in SeekingRoute
    BY <1>0, <1>4, ProcCases DEF ReviveSrv
  <2> DEFINE state == [proc[c] EXCEPT !.pc = "find_route"]
  <2>2. state.pc = "find_route" /\ state.req = proc[c].req
    BY <2>1 DEF SeekingRoute
  <2>3. proc' = [proc EXCEPT ![c] = state] /\ proc'[c] = state /\ UNCHANGED route
    BY <1>0, <1>4 DEF ReviveSrv, TypeOK
  <2>4. \A s \in Srvs : SrvLive(s) \/ s = proc[c].req.srv => SrvLive(s)'
    BY <1>4 DEF ReviveSrv, SrvLive, TypeOK
  <2> HIDE DEF state
  <2>5. \A s \in Srvs : WritesRoute(c, s)' => SrvLive(s)'
    BY <2>2, <2>3, <2>4 DEF WritesRoute
  <2>6. \A r \in Routes : RouteLive(r)' => RouteLive(r)
    BY <2>3 DEF RouteLive
  <2> QED
    BY <1>0, <2>2, <2>3, <2>4, <2>5, <2>6, OrphanKept
<1>5. CASE FindRoute(c)
  <2>1. proc[c] \in SeekingRoute
    BY <1>0, <1>5, ProcCases DEF FindRoute
  <2> DEFINE next == IF route[RouteOf(proc[c].req)].state = "none"
                       THEN "insert_route" ELSE "update_route"
             state == [proc[c] EXCEPT !.pc = next]
  <2>2. next \in {"insert_route", "update_route"}
    OBVIOUS
  <2>3. proc' = [proc EXCEPT ![c] = state] /\ UNCHANGED <<srv, route>>
    BY <1>5 DEF FindRoute
  <2> HIDE DEF next
  <2>4. state.pc = next /\ state.req = proc[c].req
    BY <2>1 DEF SeekingRoute
  <2>5. proc'[c] = state
    BY <1>0, <2>3 DEF TypeOK
  <2>6. SrvLive(proc[c].req.srv)
    <3>1. proc[c].req.srv \in Srvs
      BY <2>1, RegistryRequests DEF SeekingRoute
    <3> QED
      BY <1>0, <1>5, <3>1 DEF FindRoute, OrphanInv, WritesRoute
  <2> HIDE DEF state
  <2>7. \A s \in Srvs : WritesRoute(c, s)' => SrvLive(s)'
    BY <2>3, <2>4, <2>5, <2>6 DEF WritesRoute, SrvLive
  <2>8. /\ \A s \in Srvs : SrvLive(s) => SrvLive(s)'
        /\ \A r \in Routes : RouteLive(r)' => RouteLive(r)
    BY <2>3 DEF SrvLive, RouteLive
  <2> QED
    BY <1>0, <2>2, <2>3, <2>4, <2>7, <2>8, OrphanKept
<1>6. CASE SetFlag(c)
  <2>1. proc' = [proc EXCEPT ![c] = Idle] /\ UNCHANGED route
    BY <1>6 DEF SetFlag, Becomes
  <2>2. proc'[c].pc = "idle"
    BY <1>0, <2>1 DEF Idle, TypeOK
  <2>3. \A s \in Srvs : SrvLive(s) => SrvLive(s)'
    BY <1>6 DEF SetFlag, SrvLive, TypeOK
  <2> QED
    BY <1>0, <2>1, <2>2, <2>3, OrphanKept DEF RouteLive, WritesRoute, Idle
<1>7. CASE InsertRoute(c) \/ UpdateRoute(c)
  <2> DEFINE mine == RouteOf(proc[c].req)
  <2>1. proc[c] \in SeekingRoute
    BY <1>0, <1>7, ProcCases DEF InsertRoute, UpdateRoute
  <2>2. mine \in Routes /\ mine[1] = proc[c].req.srv /\ mine[1] \in Srvs
    BY <2>1, RegistryRequests DEF SeekingRoute, RouteOf, Routes
  <2>3. WritesRoute(c, mine[1])
    BY <1>7, <2>2 DEF InsertRoute, UpdateRoute, WritesRoute
  <2>4. SrvLive(mine[1])
    BY <1>0, <2>2, <2>3 DEF OrphanInv
  <2>5. \A r \in Routes : RouteLive(r)' => RouteLive(r) \/ r = mine
    BY <1>7 DEF InsertRoute, UpdateRoute, WriteRoute, RouteLive, TypeOK
  <2>6. UNCHANGED srv
    BY <1>7 DEF InsertRoute, UpdateRoute
  <2>7. proc'[c].pc \in {"idle", "set_flag"} /\ \A q \in Procs : q # c => proc'[q] = proc[q]
    BY <1>0, <1>7 DEF InsertRoute, UpdateRoute, Becomes, RouteWritten, Idle, TypeOK
  <2>8. ASSUME NEW q \in Procs, proc'[q].pc = "drop_srv"
        PROVE  LiveRoutes(proc[q].srv)' = {}
    <3>1. proc'[q] = proc[q] /\ proc[q].pc = "drop_srv"
      BY <2>7, <2>8
    <3>2. proc[q].srv # mine[1]
      BY <1>0, <2>2, <2>3, <3>1 DEF Apart
    <3>3. LiveRoutes(proc[q].srv) = {}
      BY <3>1 DEF OrphanInv
    <3> QED
      BY <2>5, <3>1, <3>2, <3>3 DEF LiveRoutes
  <2>9. \A q \in Procs, s \in Srvs : WritesRoute(q, s)' => SrvLive(s)'
    BY <2>6, <2>7 DEF OrphanInv, WritesRoute, SrvLive
  <2> QED
    BY <2>2, <2>4, <2>5, <2>6, <2>8, <2>9 DEF OrphanInv, SrvLive
<1> QED
  BY <1>1, <1>2, <1>3, <1>4, <1>5, <1>6, <1>7 DEF RegisterStep

LEMMA OrphanDelSrvRoutes ==
  ASSUME TypeOK, OrphanInv, Apart, NEW p \in Procs, DelSrvRoutesStep(p)
  PROVE  OrphanInv'
<1>0. proc[p] \in ProcState
  BY DEF TypeOK
<1>1. CASE TakeSrv(p)
  <2>1. proc[p] \in Deleting
    BY <1>0, <1>1, ProcCases DEF TakeSrv
  <2>2. [proc[p] EXCEPT !.pc = "del_routes"].pc = "del_routes"
    BY <2>1 DEF Deleting
  <2>3. PICK state : proc' = [proc EXCEPT ![p] = state] /\ state.pc \in {"del_routes", "idle"}
    <3>1. \/ proc' = [proc EXCEPT ![p] = [proc[p] EXCEPT !.pc = "del_routes"]]
          \/ proc' = [proc EXCEPT ![p] = Idle]
      BY <1>1 DEF TakeSrv
    <3> QED
      BY <2>2, <3>1 DEF Idle
  <2>4. UNCHANGED <<srv, route>> /\ proc'[p] = state
    BY <1>1, <2>3 DEF TakeSrv, TypeOK
  <2> QED
    BY <2>3, <2>4, OrphanKept DEF SrvLive, RouteLive, WritesRoute
<1>2. CASE DelRoutes(p)
  <2>1. /\ UNCHANGED srv
        /\ proc' = [proc EXCEPT ![p] = [pc |-> "count", srv |-> proc[p].srv]]
    BY <1>2 DEF DelRoutes, Becomes
  <2>2. proc'[p].pc = "count"
    BY <2>1 DEF TypeOK
  <2>3. \A r \in Routes : RouteLive(r)' => RouteLive(r)
    BY <1>2 DEF DelRoutes, RouteLive
  <2> QED
    BY <2>1, <2>2, <2>3, OrphanKept DEF SrvLive, WritesRoute
<1>3. CASE CountRoutes(p)
  <2>1. proc[p] \in Settling
    BY <1>0, <1>3, ProcCases DEF CountRoutes
  <2>2. /\ [proc[p] EXCEPT !.pc = "drop_srv"].pc = "drop_srv"
        /\ [proc[p] EXCEPT !.pc = "drop_srv"].srv = proc[p].srv
    BY <2>1 DEF Settling
  <2>3. UNCHANGED <<srv, route>>
    BY <1>3 DEF CountRoutes
  <2>4. CASE LiveRoutes(proc[p].srv) = {}
    <3> DEFINE state == [proc[p] EXCEPT !.pc = "drop_srv"]
    <3>1. proc' = [proc EXCEPT ![p] = state] /\ proc'[p] = state
      BY <1>3, <2>4 DEF CountRoutes, TypeOK
    <3> HIDE DEF state
    <3> QED
      BY <2>2, <2>3, <2>4, <3>1, OrphanKept DEF SrvLive, RouteLive, WritesRoute, state
  <2>5. CASE LiveRoutes(proc[p].srv) # {}
    <3>1. proc' = [proc EXCEPT ![p] = Idle] /\ proc'[p].pc = "idle"
      BY <1>3, <2>5 DEF CountRoutes, Idle, TypeOK
    <3> QED
      BY <2>3, <3>1, OrphanKept DEF SrvLive, RouteLive, WritesRoute, Idle
  <2> QED
    BY <2>4, <2>5
<1>4. CASE DropSrv(p)
  <2> DEFINE gone == proc[p].srv
  <2>1. /\ LiveRoutes(gone) = {}
        /\ \A q \in Procs : ~WritesRoute(q, gone)
    <3>1. gone \in Srvs
      BY <1>0, <1>4, ProcCases DEF DropSrv, Settling
    <3> QED
      BY <1>4, <3>1 DEF DropSrv, OrphanInv, Apart
  <2>2. \A s \in Srvs : s # gone /\ SrvLive(s) => SrvLive(s)'
    BY <1>4 DEF DropSrv, SrvLive, TypeOK
  <2>3. UNCHANGED route /\ proc'[p] = Idle /\ \A q \in Procs : q # p => proc'[q] = proc[q]
    BY <1>4 DEF DropSrv, Becomes, TypeOK
  <2>4. \A r \in Routes : RouteLive(r)' => SrvLive(r[1])'
    <3> SUFFICES ASSUME NEW r \in Routes, RouteLive(r)' PROVE SrvLive(r[1])'
      OBVIOUS
    <3>1. RouteLive(r) /\ r[1] # gone
      BY <2>1, <2>3 DEF RouteLive, LiveRoutes
    <3> QED
      BY <2>2, <3>1 DEF OrphanInv, Routes
  <2>5. \A q \in Procs, s \in Srvs : WritesRoute(q, s)' => SrvLive(s)'
    <3> SUFFICES ASSUME NEW q \in Procs, NEW s \in Srvs, WritesRoute(q, s)' PROVE SrvLive(s)'
      OBVIOUS
    <3>1. WritesRoute(q, s)
      BY <2>3 DEF WritesRoute, Idle
    <3> QED
      BY <2>1, <2>2, <3>1 DEF OrphanInv
  <2>6. \A q \in Procs : proc'[q].pc = "drop_srv" => LiveRoutes(proc[q].srv)' = {}
    BY <2>3 DEF OrphanInv, LiveRoutes, RouteLive, Idle
  <2> QED
    BY <2>4, <2>5, <2>6 DEF OrphanInv
<1> QED
  BY <1>1, <1>2, <1>3, <1>4 DEF DelSrvRoutesStep

(* The other steps write no row and leave who they are about to write none.  *)
LEMMA OrphanOthers ==
  ASSUME TypeOK, OrphanInv,
         \/ \E c \in Clients, r \in Routes : Unregister(c, r)
         \/ \E c \in Clients : Discover(c) \/ DiscoverRoutes(c)
         \/ \E w \in Workers : Beat(w)
         \/ \E n \in Nodes : RoundStep(n) \/ AbortRound(n) \/ Elect(n) \/ Depose(n)
         \/ \E p \in Procs : Abort(p)
         \/ \E a \in Addrs : Die(a) \/ Restart(a)
  PROVE  OrphanInv'
<1> DEFINE Elsewhere == {"idle", "discover", "discover_routes", "beat", "take_srv"}
<1>1. UNCHANGED <<srv, route>>
  BY BeatJudges
     DEF Unregister, Discover, DiscoverRoutes, RoundStep, ReadSrvs, ReadRoutes, SendSrv,
         AbortRound, Elect, Depose, Abort, Die, Restart
<1>2. ASSUME NEW p \in Procs, NEW state, proc' = [proc EXCEPT ![p] = state],
             proc'[p].pc \in Elsewhere
      PROVE  OrphanInv'
  <2>1. proc'[p] = state
    BY <1>2 DEF TypeOK
  <2> QED
    BY <1>1, <1>2, <2>1, OrphanKept DEF SrvLive, RouteLive, WritesRoute
<1>3. ASSUME NEW c \in Clients, NEW r \in Routes, Unregister(c, r) PROVE OrphanInv'
  <2>1. \E state : proc' = [proc EXCEPT ![c] = state]
    BY <1>3 DEF Unregister, Becomes
  <2>2. proc'[c].pc \in Elsewhere
    BY <1>3 DEF Unregister, Becomes, TypeOK, Procs
  <2> QED
    BY <1>2, <2>1, <2>2 DEF Procs
<1>4. ASSUME NEW c \in Clients, Discover(c) PROVE OrphanInv'
  <2>1. proc[c] \in Discovering
    BY <1>4, ProcCases DEF Discover, TypeOK, Procs
  <2>2. [proc[c] EXCEPT !.pc = "discover_routes"].pc = "discover_routes"
    BY <2>1 DEF Discovering
  <2>3. \/ proc' = [proc EXCEPT ![c] = [proc[c] EXCEPT !.pc = "discover_routes"]]
        \/ proc' = [proc EXCEPT ![c] = Idle]
    BY <1>4 DEF Discover
  <2>4. proc'[c] \in {[proc[c] EXCEPT !.pc = "discover_routes"], Idle}
    BY <2>3 DEF TypeOK, Procs
  <2>5. proc'[c].pc \in Elsewhere
    <3> DEFINE on == [proc[c] EXCEPT !.pc = "discover_routes"]
    <3>1. on.pc = "discover_routes" /\ Idle.pc = "idle"
      BY <2>2 DEF Idle
    <3>2. proc'[c] = on \/ proc'[c] = Idle
      BY <2>4
    <3> HIDE DEF on
    <3> QED
      BY <3>1, <3>2
  <2> QED
    BY <1>2, <2>3, <2>5 DEF Procs
<1>5. ASSUME NEW c \in Clients, DiscoverRoutes(c) PROVE OrphanInv'
  <2>1. \E state : proc' = [proc EXCEPT ![c] = state]
    BY <1>5 DEF DiscoverRoutes, Becomes
  <2>2. proc'[c].pc \in Elsewhere
    <3> DEFINE state == [pc |-> "take_srv", srv |-> proc[c].route[1],
                         routes |-> {proc[c].route} \cap LiveRoutes(proc[c].route[1])]
    <3>1. proc' = [proc EXCEPT ![c] = state] /\ state.pc = "take_srv"
      BY <1>5 DEF DiscoverRoutes, Becomes
    <3> HIDE DEF state
    <3> QED
      BY <3>1 DEF TypeOK, Procs
  <2> QED
    BY <1>2, <2>1, <2>2 DEF Procs
<1>6. ASSUME NEW w \in Workers, Beat(w) PROVE OrphanInv'
  <2>1. \E state : proc' = [proc EXCEPT ![w] = state]
    BY <1>6, BeatJudges DEF Becomes
  <2>2. proc'[w].pc \in Elsewhere
    <3>1. PICK no : Becomes(w, IF no = {} THEN Idle
                               ELSE [pc |-> "take_srv", srv |-> proc[w].srv, routes |-> no])
      BY <1>6, BeatJudges
    <3> DEFINE state == IF no = {} THEN Idle
                        ELSE [pc |-> "take_srv", srv |-> proc[w].srv, routes |-> no]
    <3>2. proc' = [proc EXCEPT ![w] = state] /\ state.pc \in {"idle", "take_srv"}
      BY <3>1 DEF Becomes, Idle
    <3> HIDE DEF state
    <3> QED
      BY <3>2 DEF TypeOK, Procs
  <2> QED
    BY <1>2, <2>1, <2>2 DEF Procs
<1>7. ASSUME NEW n \in Nodes, NEW k \in Slots, SendSrv(n, k) PROVE OrphanInv'
  <2>1. \E state : proc' = [proc EXCEPT ![<<n, k>>] = state]
    BY <1>7 DEF SendSrv, Becomes
  <2>2. proc'[<<n, k>>].pc \in Elsewhere
    BY <1>7 DEF SendSrv, Becomes, TypeOK, Procs, Workers
  <2> QED
    BY <1>2, <2>1, <2>2 DEF Procs, Workers
<1>8. ASSUME NEW p \in Procs, Abort(p) PROVE OrphanInv'
  <2>1. \E state : proc' = [proc EXCEPT ![p] = state]
    BY <1>8 DEF Abort, Becomes
  <2>2. proc'[p].pc \in Elsewhere
    BY <1>8 DEF Abort, Becomes, Idle, TypeOK
  <2> QED
    BY <1>2, <2>1, <2>2
<1>9. CASE UNCHANGED proc
  BY <1>1, <1>9 DEF OrphanInv, SrvLive, RouteLive, LiveRoutes, WritesRoute
<1>10. ASSUME NEW n \in Nodes,
              ReadSrvs(n) \/ ReadRoutes(n) \/ AbortRound(n) \/ Elect(n) \/ Depose(n)
       PROVE  UNCHANGED proc
  BY <1>10 DEF ReadSrvs, ReadRoutes, AbortRound, Elect, Depose
<1>11. ASSUME NEW a \in Addrs, Die(a) \/ Restart(a) PROVE UNCHANGED proc
  BY <1>11 DEF Die, Restart
<1> QED
  BY <1>3, <1>4, <1>5, <1>6, <1>7, <1>8, <1>9, <1>10, <1>11 DEF RoundStep

LEMMA OrphanStep ==
  TypeOK /\ OrphanInv /\ Apart /\ [Next]_vars => OrphanInv'
<1> SUFFICES ASSUME TypeOK, OrphanInv, Apart, [Next]_vars PROVE OrphanInv'
  OBVIOUS
<1>1. CASE UNCHANGED vars
  BY <1>1 DEF vars, OrphanInv, SrvLive, RouteLive, LiveRoutes, WritesRoute
<1>2. CASE Next
  BY <1>2, OrphanRegister, OrphanDelSrvRoutes, OrphanOthers
     DEF Next, CallStep, CheckStep, Beat, Procs
<1> QED
  BY <1>1, <1>2

(* A route ends up under a deleted service in one way only: its registration *)
(* is between finding the service and writing the route when another call or *)
(* check has found the service empty and not deleted it yet.  Where that     *)
(* does not happen, as when the calls come one after the other, no route is  *)
(* orphaned, whatever else overlaps and fails.                               *)
THEOREM OrphansOnlyByOverlap == Spec /\ []Apart => []NoOrphanRoute
<1>1. OrphanInv => NoOrphanRoute
  BY DEF OrphanInv, NoOrphanRoute
<1> QED
  BY <1>1, InitType, OrphanInit, TypeStep, OrphanStep, PTL DEF Spec
==============================================================================
