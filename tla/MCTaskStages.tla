---------------------------- MODULE MCTaskStages ----------------------------
(* TaskStages on a small Workspace: the Tasks and the calls are alike.        *)
EXTENDS TaskStages, TLC

TaskSymmetry == Permutations(Tasks) \cup Permutations(Calls)

=============================================================================
