--------------------------- MODULE MCAssetSession ---------------------------
(* Two assets and two loads at once. *)
EXTENDS AssetSession, TLC

CONSTANTS a1, a2, l1, l2

MCAssets == {a1, a2}
MCLoads == {l1, l2}

\* Once two assets met in one handler no property says anything of the state.
Unmixed == ~ mixed

\* The saved versions are compared with a tip that no fork has replaced.
View == <<versions, listed, store, clock, scene, loads, ops, mixed, forked,
          IF forked THEN <<>> ELSE <<saved, stack>>,
          [d \in DOMAIN stack |-> <<stack[d].cid, stack[d].id>>]>>

Symmetry == Permutations(MCAssets) \cup Permutations(MCLoads)

=============================================================================
