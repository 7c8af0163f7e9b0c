----------------------------- MODULE MCJobStore -----------------------------
(* JobStore on small sets of jobs, worker runs and servers.                *)
EXTENDS JobStore, TLC

RunSymmetry == Permutations(Workers)

RunServerSymmetry == Permutations(Workers) \cup Permutations(Executors)
=============================================================================
