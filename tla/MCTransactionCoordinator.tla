---------------------- MODULE MCTransactionCoordinator ----------------------
(* A workload for TransactionCoordinator.                                  *)
EXTENDS TransactionCoordinator, TLC

CONSTANTS p1, p2

Work(e, t, r) == [epochs |-> e, txns |-> t, restarts |-> r]

\* One producer through two epochs and two transactions.
OnlyAlone == {(p1 :> Work(2, 2, 1)) @@ (p2 :> Work(0, 0, 0))}
RequestSymmetry == Permutations(Requests)
=============================================================================
