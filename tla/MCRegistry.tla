------------------------------ MODULE MCRegistry ------------------------------
(***************************************************************************)
(* Instances of Registry for TLC: names and sets of registrations.         *)
(***************************************************************************)
EXTENDS Registry, TLC

CONSTANTS sa, sb, x, y   \* model values: two services, two addresses

Reg(s, a, check) == [srv |-> s, addr |-> a, check |-> check]

(* One service on two machines; the operator may switch the check of one. *)
TwoMachines == {Reg(sa, x, TRUE), Reg(sa, y, FALSE), Reg(sa, y, TRUE)}

(* Two services with one checked machine each. *)
OneMachineEach == {Reg(sa, x, TRUE), Reg(sb, y, TRUE)}

(* One service with two checked machines. *)
BothChecked == {Reg(sa, x, TRUE), Reg(sa, y, TRUE)}

(* Callers of the API are interchangeable (for runs without liveness). *)
ClientSymmetry == Permutations(Clients)
==============================================================================
