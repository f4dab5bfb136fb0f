--------------------------- MODULE MCCommandQueue ---------------------------
(* CommandQueue for runs of safety properties with interchangeable tasks.  *)
EXTENDS CommandQueue, TLC

TaskSymmetry == Permutations(Tasks)

=============================================================================
