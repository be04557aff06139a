--------------------------- MODULE MCTaskEvaluation ---------------------------
(* Two agents, two tasks, two calls at a time. *)
EXTENDS TaskEvaluation, TLC

MCTasks == 1..2
MCCosts == {1}
Symmetry == Permutations(Calls)
MCSlots == [p \in Providers |-> 1]
MCQueues == {<<"a", "b">>}
MCWeights == [score |-> 1, time |-> 1, cost |-> 1]
MCOutcomes == {[solved |-> TRUE, time |-> 1]}
===============================================================================
