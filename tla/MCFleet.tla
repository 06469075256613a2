------------------------------- MODULE MCFleet -------------------------------
(* FleetController with one or two runs of one model. *)
EXTENDS FleetController, TLC

CONSTANTS r1, r2, m1

MCOneRun == {r1}
MCTwoRuns == {r1, r2}
MCModelOf == [r \in MCTwoRuns |-> m1]
MCOnePerModel == [m \in {m1} |-> 1]
MCTwoPerModel == [m \in {m1} |-> 2]

Symmetry == Permutations(MCTwoRuns)
=============================================================================
