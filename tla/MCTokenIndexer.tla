--------------------------- MODULE MCTokenIndexer ---------------------------
(* Instances of TokenIndexer: the .cfg files give one token, which moves     *)
(* between two wallets, and chunks of one to three blocks.  No symmetry: a   *)
(* run checks liveness.                                                      *)
EXTENDS TokenIndexer
=============================================================================
