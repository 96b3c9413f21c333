----------------------------- MODULE MCWorkStore -----------------------------
(* Instances of WorkStore for TLC: the limits the researcher chooses from.  *)
EXTENDS WorkStore, TLC

Tight == [executors |-> 1, parallel |-> 1, attempts |-> 1, paused |-> FALSE]
Wide == [executors |-> 2, parallel |-> 2, attempts |-> 2, paused |-> FALSE]

OneLimit == {Wide}
RoundLimits == {Tight, Wide}

NoEdges == {}
AllEdges == Tasks \X Tasks
TaskSymmetry == Permutations(Tasks)
Symmetry == TaskSymmetry \cup Permutations(Sessions)
=============================================================================
