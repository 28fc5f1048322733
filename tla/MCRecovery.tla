----------------------------- MODULE MCRecovery -----------------------------
EXTENDS Recovery, TLC
CONSTANTS u1, u2, i1, i2, i3, w1, w2
MCUsers == {u1, u2}
MCIds == {i1, i2, i3}
MCWorkers == {w1, w2}
MCSymmetry == Permutations(MCUsers) \cup Permutations(MCIds) \cup Permutations(MCWorkers)
=============================================================================
