------------------------------ MODULE MCLibrary -----------------------------
(* Instances of Library that TLC checks: two spellings of one key, a file that *)
(* names one record twice, and a batch that does the same.                    *)
EXTENDS Library, TLC

CONSTANTS a, a2, b, keyA, keyB, vendor, d1, d2,
          t1, t2, i1, i2, l1, l2, w1, w2

KeyOfSpelling == (a :> keyA) @@ (a2 :> keyA) @@ (b :> keyB)

SomeFiles == {[name |-> vendor, drafts |-> <<a, a2, b>>], [name |-> vendor, drafts |-> <<None, b>>]}
SomeBatches ==
  {[items |-> <<[ident |-> a2, data |-> d1], [ident |-> None, data |-> d1],
                [ident |-> a, data |-> d2]>>]}

\* Rows and workers have no names of their own.
Symmetry ==
  Permutations({t1, t2}) \cup Permutations({i1, i2}) \cup Permutations({l1, l2})
    \cup Permutations({w1, w2})
=============================================================================
