--------------------------- MODULE MCGpuScheduler ---------------------------
(* Bounds for model-checking GpuScheduler: jobs are interchangeable.          *)
EXTENDS GpuSchedulerRefinement, TLC

CONSTANTS j1, j2, j3

JobSymmetry == Permutations(Jobs)

\* Service times of one drain target (one worker per queued item) and of half
Long        == {2}
ShortOrLong == {1, 2}

=============================================================================
