------------------------------ MODULE MCPoolUse ------------------------------
(* Bounds for model-checking PoolUse: tasks and items are interchangeable.    *)
EXTENDS PoolUse, TLC

CONSTANTS t1, t2, e1, e2, views

Interchangeable == Permutations(Tasks) \cup Permutations(Executions)

Delays == {1, 2}

\* The chains of the workload, their two CPU steps as one; multiview is a prefix of full.
KitChains == {<<"cpu", "gpu", "gpu">>, <<"cpu", "cpu">>}

=============================================================================
