-------------------------- MODULE MCLearningPackages --------------------------
(* Instance of LearningPackages for TLC. *)
EXTENDS LearningPackages
=============================================================================
