---------------------------- MODULE MCBatchJobs -----------------------------
(* BatchJobs on small sets; the bounds are in the configurations.  Workers *)
(* are interchangeable, and so are ranges; runs of safety properties use   *)
(* that, the run of a liveness property does not.                          *)
EXTENDS BatchJobs, TLC

CONSTANTS r1, r2, w1, w2

Symmetry == Permutations({w1, w2}) \cup Permutations({r1, r2})

=============================================================================
