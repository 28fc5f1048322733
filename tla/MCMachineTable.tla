--------------------------- MODULE MCMachineTable ---------------------------
(* Instances of MachineTable that TLC checks. *)
EXTENDS MachineTable, TLC

CONSTANTS e1, e2, i1, i2

\* i2 was never measured; i1 fits every entry.
OneMeasured == Entries \X {i1}

Symmetry == Permutations(Entries) \cup Permutations(Numbers) \cup Permutations(Sets)
=============================================================================
