---------------------------- MODULE MCAnalysisJobs ----------------------------
(***************************************************************************)
(* AnalysisJobs on a small instance: interchangeable rows, workers and     *)
(* callers.                                                                *)
(***************************************************************************)
EXTENDS JobsLifecycle, TLC

Symmetry == Permutations(Runs) \cup Permutations(Workers) \cup Permutations(Callers) \cup Permutations(Profiles)
===============================================================================
