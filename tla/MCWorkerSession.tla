-------------------------- MODULE MCWorkerSession ---------------------------
(***************************************************************************)
(* A small instance of WorkerSession: an order of two phases, the second   *)
(* with a background step, and one that never gets to a container.         *)
(***************************************************************************)
EXTENDS WorkerSession

CONSTANTS o1, o2, t1, t2

PhasesOfOrders == [o \in Orders |-> IF o = o1 THEN <<"build", "match">> ELSE <<>>]
StepsOfPhases == [build |-> <<"build">>, match |-> <<"bot", "referee">>]

=============================================================================
