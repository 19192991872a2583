----------------------------- MODULE MCIpfsGC -----------------------------
(* Instances of IpfsGC: two tokens of one chain, or of a chain each.         *)
EXTENDS IpfsGC, TLC

CONSTANTS t1, t2, k1, k2

MCOneChain == [t \in Token |-> k1]
MCTwoChains == t1 :> k1 @@ t2 :> k2

MCSymmetry == Permutations(Cid) \cup Permutations(Run) \cup Permutations(Token)
=============================================================================
