------------------------------ MODULE RunLedger ------------------------------
(***************************************************************************)
(* What easytask promises about the runs of its tasks, whatever crashes,   *)
(* whoever believes to be master and whichever statement loses its answer: *)
(* the runs of a task are numbered without a gap, a number is written down *)
(* in the log at most once, and a callback service sees a number at most   *)
(* once and only after it was written down.  A run may be lost between two *)
(* of these steps; it is never repeated.                                   *)
(***************************************************************************)
EXTENDS Integers

CONSTANTS TaskIds, MaxRuns

VARIABLES
  claimed,   \* how many runs of each task some worker has claimed
  started,   \* the runs that have a row in the task log
  called     \* the runs a callback service was asked to do

ledger == <<claimed, started, called>>

Runs == TaskIds \X (1 .. MaxRuns)

LedgerTypeOK ==
  /\ claimed \in [TaskIds -> 0 .. MaxRuns]
  /\ started \subseteq Runs
  /\ called \subseteq started

LedgerInit ==
  /\ claimed = [id \in TaskIds |-> 0]
  /\ started = {}
  /\ called = {}

Claim(id) ==
  /\ claimed[id] < MaxRuns
  /\ claimed' = [claimed EXCEPT ![id] = @ + 1]
  /\ UNCHANGED <<started, called>>

Start(r) ==
  /\ r[2] <= claimed[r[1]]
  /\ r \notin started
  /\ started' = started \cup {r}
  /\ UNCHANGED <<claimed, called>>

Call(r) ==
  /\ r \in started \ called
  /\ called' = called \cup {r}
  /\ UNCHANGED <<claimed, started>>

LedgerNext ==
  \/ \E id \in TaskIds : Claim(id)
  \/ \E r \in Runs : Start(r) \/ Call(r)

LedgerSpec == LedgerInit /\ [][LedgerNext]_ledger
==============================================================================
