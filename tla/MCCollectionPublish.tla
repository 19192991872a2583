------------------------ MODULE MCCollectionPublish ------------------------
(***************************************************************************)
(* The default collection and another, two assets, two writers.            *)
(***************************************************************************)
EXTENDS CollectionPublish, TLC

CONSTANTS default, other, a1, a2, w1, w2

MCTokens == {default, other}
MCAssets == {a1, a2}
MCWriters == {w1, w2}

Symmetry == Permutations(MCWriters) \cup Permutations(MCAssets)

=============================================================================
