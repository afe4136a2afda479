------------------------------ MODULE MCTaskRun ------------------------------
(***************************************************************************)
(* Instances of TaskRun for TLC: cron expressions, request sets, names.    *)
(***************************************************************************)
EXTENDS TaskRun, TLC

CONSTANTS ka, kb, sa, sb   \* model values: two keys, two services

(* Expression e fires at the multiples of e; expression 0 fires at time 2   *)
(* and never again, and then Next answers the zero time.                    *)
MCCronNextAt(e, t) ==
  IF e = 0 THEN (IF t < 2 THEN 2 ELSE -1) ELSE e * (t \div e + 1)

Req(key, srv, mode, param) ==
  [key |-> key, srv |-> srv, mode |-> mode, param |-> param]

(* A periodic task and a one-shot. *)
TwoTasks == {Req(ka, sa, "interval", 1), Req(kb, sa, "spec", 2)}

(* The same, with the one-shot asked for at two times. *)
MovedTasks == TwoTasks \cup {Req(kb, sa, "spec", 1)}

(* A cron task that fires every second, and one that is exhausted. *)
CronTasks == {Req(ka, sa, "cron", 1), Req(kb, sa, "cron", 0)}

(* One key, asked for twice as the same one-shot. *)
OneShot == {Req(ka, sa, "spec", 2)}

(* One key, asked for as a periodic task and as a one-shot. *)
Rescheduled == {Req(ka, sa, "interval", 1), Req(ka, sa, "spec", 3)}

(* One periodic task. *)
OneTask == {Req(ka, sa, "interval", 1)}

(* Two tasks on two services. *)
TwoServices == {Req(ka, sa, "spec", 1), Req(kb, sb, "spec", 1)}

(* Processes are interchangeable (for runs without liveness). *)
NodeSymmetry == Permutations(Nodes)
==============================================================================
