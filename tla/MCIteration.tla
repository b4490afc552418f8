----------------------------- MODULE MCIteration -----------------------------
(* A small instance of Iteration for TLC. *)
EXTENDS Iteration, TLC

MCTracks == {"standard", "full"}
MCSkillGates == {"log_written"}
MCSymmetry == Permutations(Tasks)
=============================================================================
