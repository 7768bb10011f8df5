---------------------------- MODULE MCApplyPipeline ----------------------------
(* Instance of ApplyPipeline for TLC: tasks and merge requests are
   interchangeable, which the safety run uses. *)
EXTENDS ApplyPipeline, TLC

Symmetry == Permutations(Tasks) \cup Permutations(Shas) \cup Permutations(Iids)
=============================================================================
