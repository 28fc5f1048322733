----------------------------- MODULE MCBinding -----------------------------
(* Instances of Binding that TLC checks. *)
EXTENDS Binding, TLC

CONSTANTS e1, e2, i1, i2

\* i1 fits both entries, i2 only the first: proposals compete for i1, and a
\* rejected i1 leaves the first entry a second candidate.
AllButOneMatch == {<<e1, i1>>, <<e1, i2>>, <<e2, i1>>}

\* Every instance fits every entry, so that all four are interchangeable.
EveryPairMatches == Entries \X Instances

FullSymmetry == Permutations(Entries) \cup Permutations(Instances)
                  \cup Permutations(Proposals) \cup Permutations(Workers)
Symmetry == Permutations(Proposals) \cup Permutations(Workers)
=============================================================================
