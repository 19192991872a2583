------------------------- MODULE MCGenerationTasks -------------------------
(***************************************************************************)
(* Two tasks, so that one may be baked on the other's skeleton, two        *)
(* handlers, and three jobs: the longest chain.                            *)
(***************************************************************************)
EXTENDS GenerationTasks, TLC

CONSTANTS t1, t2, r1, r2

MCTasks == {t1, t2}
MCRequests == {r1, r2}

Symmetry == Permutations(MCTasks) \cup Permutations(MCRequests)

=============================================================================
