---------------------------- MODULE MCBatchSync ----------------------------
(* Instances of BatchSync that TLC checks.  The bodies: a create with a link   *)
(* and a preset, one whose second assert is malformed, one that mixes a refused, *)
(* a repeated and an existing item, and an empty one.                          *)
EXTENDS BatchSync, TLC

CONSTANTS r1, r2, i1, d1, d2, link, name, usage, colour, v1, v2, k1, m1

It(id, item, data, asserts, entries) ==
  [id |-> id, item |-> item, data |-> data, asserts |-> asserts, presets |-> entries]
Set(p, v) == [path |-> p, value |-> v]

SomeBatches ==
  {<<>>,
   <<It(None, i1, d1, <<Set(link, v1)>>, <<[key |-> k1, mark |-> m1], [key |-> k1, mark |-> None]>>)>>,
   <<It(None, i1, d2, <<Set(link, v1), Set(colour, v1)>>, <<>>)>>,
   <<It(r1, None, d1, <<Set(usage, v1)>>, <<>>), It(None, i1, d2, <<>>, <<>>),
     It(None, i1, d2, <<Set(name, v2)>>, <<>>)>>}
=============================================================================
