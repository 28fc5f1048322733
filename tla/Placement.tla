----------------------------- MODULE Placement -----------------------------
(***************************************************************************)
(* What the binding doors promise about the place of a physical tool: a    *)
(* tool enters a tool-table entry only while it is in no other entry, and  *)
(* nothing but an install or a removal changes what an entry holds.        *)
(* The requests, proposals and transactions that lead to these steps are   *)
(* in Binding, which implements this specification.                        *)
(***************************************************************************)
CONSTANTS
  Entries,    \* identities of tool-table entries
  Instances,  \* identities of physical tool instances
  None        \* the SQL NULL

VARIABLE holds  \* holds[e]: the instance installed in entry e, or None

Init == holds = [e \in Entries |-> None]

Install(e, i) ==
  /\ \A o \in Entries \ {e} : holds[o] # i
  /\ holds' = [holds EXCEPT ![e] = i]

Remove(e) == holds' = [holds EXCEPT ![e] = None]

Next == \E e \in Entries : Remove(e) \/ \E i \in Instances : Install(e, i)

Spec == Init /\ [][Next]_holds
=============================================================================
