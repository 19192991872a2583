------------------------------ MODULE MCSignIn ------------------------------
(* Two accounts, two requests and two session creations at a time.          *)
EXTENDS SignIn, TLC

CONSTANTS w1, w2, r1, r2, c1, c2

MCWallets == {w1, w2}
MCRequests == {r1, r2}
MCCreations == {c1, c2}
Symmetry == Permutations(MCWallets) \cup Permutations(MCRequests) \cup Permutations(MCCreations)
=============================================================================
