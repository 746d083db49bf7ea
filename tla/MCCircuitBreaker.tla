-------------------------- MODULE MCCircuitBreaker --------------------------
(* Finite instances of CircuitBreaker: who takes part in each run.         *)
EXTENDS CircuitBreaker, TLC

Symmetric == Permutations(Callers)

Requests == \E c \in Callers : CallerStep(c)

(* Traffic and failing probes, with the fairness of the code.              *)
ProbedSpec == Init /\ [][Requests \/ OwnerStep \/ Time \/ RecordFailure]_vars /\ Fairness

(* Client traffic alone, what fails is a request, or the owner: it dies at *)
(* any point of the life of a lease.                                       *)
RecoverySpec == Init /\ [][Requests \/ OwnerStep \/ Time \/ Fault]_vars /\ Fairness
=============================================================================
