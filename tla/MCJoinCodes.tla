---------------------------- MODULE MCJoinCodes -----------------------------
EXTENDS JoinCodes, TLC
Symmetry == Permutations(Admins) \cup Permutations(Codes \ {First})
=============================================================================
