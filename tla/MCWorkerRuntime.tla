---------------------------- MODULE MCWorkerRuntime ----------------------------
(***************************************************************************)
(* WorkerRuntime on a small instance.                                      *)
(***************************************************************************)
EXTENDS WorkerRuntime, TLC

RuntimeSymmetry == Permutations(Workers) \cup Permutations(Artifacts)
===============================================================================
