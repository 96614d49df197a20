-------------------------- MODULE MCDeployInstances --------------------------
(* The instances of a node are interchangeable: no definition tells them     *)
(* apart.  Only the run of two of them uses it, and that checks safety.      *)
EXTENDS DeployInstances, TLC

Symmetry == Permutations(Inst)

\* The state without what is kept for hindsight: for the calls of that run no
\* action reads it.
Present == <<records, host, loop, work, put, calls, faults>>
=============================================================================
