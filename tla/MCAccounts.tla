----------------------------- MODULE MCAccounts -----------------------------
(* A small server: an old key without doors, which is read-only, and one   *)
(* that holds the admin door.                                              *)
EXTENDS Accounts, TLC
CONSTANTS u1, u2, u3, k1, k2, s1, s2, w1, w2, e1, e2, p1, p2

MCUsers == {u1, u2, u3}
MCKeys == {k1, k2}
MCSessions == {s1, s2}
MCWorkers == {w1, w2}
MCScopes == {{"write:items"}, {"read", "admin"}}
MCSymmetry == Permutations(MCUsers) \cup Permutations(MCKeys) \cup Permutations(MCSessions)
                \cup Permutations(MCWorkers) \cup Permutations({p1, p2})
                \cup Permutations({e1, e2})
=============================================================================
