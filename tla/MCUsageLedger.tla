--------------------------- MODULE MCUsageLedger ---------------------------
(* Instances of UsageLedger that TLC checks. *)
EXTENDS UsageLedger, TLC

Symmetry == Permutations(Entries) \cup Permutations(Instances) \cup Permutations(Workers)
=============================================================================
