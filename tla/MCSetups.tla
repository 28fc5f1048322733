------------------------------ MODULE MCSetups ------------------------------
(* Instances of Setups that TLC checks. *)
EXTENDS Setups, TLC

Symmetry == Permutations(Maps) \cup Permutations(Machines)
              \cup Permutations(ToolSets) \cup Permutations(Workers)
=============================================================================
