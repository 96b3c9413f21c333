-------------------------- MODULE MCExperimentRuns --------------------------
(* Instances of ExperimentRuns for TLC: the limits of the round.            *)
EXTENDS ExperimentRuns, TLC

OneLaunch == {[launches |-> 1, concurrent |-> 1, failures |-> 1]}
TwoLaunches == {[launches |-> 2, concurrent |-> 1, failures |-> 2],
                [launches |-> 1, concurrent |-> 2, failures |-> 1]}
KeySymmetry == Permutations(Keys)
=============================================================================
