--------------------------- MODULE MCLegacyDoors ---------------------------
(* Instances of LegacyDoors that TLC checks: one session, one key that is     *)
(* confined to a tag, and bodies of one and two entries.                      *)
EXTENDS LegacyDoors, TLC

CONSTANTS u1, k1, t1, t2, i1, i2, n1, a1

OneAccount == [k \in Keys |-> u1]
OneTag == [k \in Keys |-> {t1}]

SomeDrafts ==
  {<<[tags |-> {t1, t2}, parent |-> None]>>, <<[tags |-> {}, parent |-> i1]>>}

Change(r, v, tags) == [id |-> r, version |-> v, tags |-> tags]

SomeChanges ==
  {<<Change(i1, None, {t2})>>, <<Change(i1, 1, None), Change(i1, 2, None)>>,
   <<Change(n1, 1, None)>>, <<Change(n1, 2, None), Change(n1, 1, {t1})>>,
   <<Change(a1, 1, {t2}), Change(a1, 1, None)>>}

SomeDoomed == {<<i1>>, <<n1, n1>>, <<a1>>}
=============================================================================
