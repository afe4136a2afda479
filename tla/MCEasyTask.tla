------------------------------ MODULE MCEasyTask ------------------------------
(***************************************************************************)
(* Instances of EasyTask for TLC: one service, one periodic task.           *)
(***************************************************************************)
EXTENDS EasyTask

CONSTANTS ka, sa, x   \* model values: a key, a service, an address

MCCronNextAt(e, t) == t + 1

OneTask == {[key |-> ka, srv |-> sa, mode |-> "interval", param |-> 1]}

OneMachine == {[srv |-> sa, addr |-> x, check |-> TRUE]}
==============================================================================
