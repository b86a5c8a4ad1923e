---------------------------- MODULE MCSessionUpload ----------------------------
(***************************************************************************)
(* SessionUpload on a small instance.                                      *)
(***************************************************************************)
EXTENDS SessionUpload, TLC

UploadSymmetry == Permutations(Handlers) \cup Permutations(Videos) \cup Permutations(Metas) \cup Permutations(Sums) \cup Permutations(Sessions)
===============================================================================
