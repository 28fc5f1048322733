-------------------------- MODULE MachineTableProofs --------------------------
(***************************************************************************)
(* For any machine with finitely many entry rows, and any instances,       *)
(* numbers, sets and measurements: the types, and what the run checks of   *)
(* the setup view, of snapshots and of the bridge.                         *)
(***************************************************************************)
EXTENDS MachineTable, Setups, FiniteSetTheorems, TLAPS

-----------------------------------------------------------------------------
(* Tables on their own. *)

Null(t) == \A e \in Entries \ t.rows : t.number[e] = None /\ t.holds[e] = None
Scoped(t) == t.open \subseteq t.rows \X Instances /\ t.rejected \subseteq t.rows \X Instances

\* A proposal is open for an unbound entry, one at a time, and for no rejected pair.
OneOpen(t) ==
  \A e \in Entries, i, j \in Instances : <<e, i>> \in t.open /\ <<e, j>> \in t.open => i = j
OpenUnbound(t) ==
  \A e \in Entries, i \in Instances : <<e, i>> \in t.open => t.holds[e] = None
Apart(t) == \A e \in Entries, i \in Instances : <<e, i>> \in t.open => <<e, i>> \notin t.rejected

Whole(t) == t \in Table /\ Null(t) /\ Scoped(t) /\ OneOpen(t) /\ OpenUnbound(t) /\ Apart(t)

\* A controller's table: no number twice.
OnePerNumber(t) ==
  \A d, e \in t.rows : t.number[d] = t.number[e] /\ t.number[d] # None => d = e

\* What a bridge over the rows S of t may add.
Proposals(t, S, N) ==
  /\ N \subseteq S \X Instances
  /\ \A e \in S, i \in Instances : <<e, i>> \in N =>
       t.holds[e] = None /\ OpenFor(t, e) = {} /\ <<e, i>> \notin t.rejected
  /\ \A e \in S, i, j \in Instances : <<e, i>> \in N /\ <<e, j>> \in N => i = j

Opened(t, N) == [t EXCEPT !.open = @ \cup N]

LEMMA OpenedFields ==
  ASSUME NEW t \in Table, NEW N
  PROVE  /\ Opened(t, N).rows = t.rows /\ Opened(t, N).number = t.number
         /\ Opened(t, N).holds = t.holds /\ Opened(t, N).rejected = t.rejected
         /\ Opened(t, N).open = t.open \cup N
BY DEF Opened, Table

LEMMA OpenedWhole ==
  ASSUME NEW t, Whole(t), NEW S \in SUBSET t.rows, NEW N, Proposals(t, S, N)
  PROVE  Whole(Opened(t, N))
<1> DEFINE u == Opened(t, N)
<1>0. t \in Table
  BY DEF Whole
<1>1. /\ u.rows = t.rows /\ u.number = t.number /\ u.holds = t.holds
      /\ u.rejected = t.rejected /\ u.open = t.open \cup N
  BY <1>0, OpenedFields
<1>2. S \subseteq Entries
  BY <1>0 DEF Table
<1>3. u \in Table
  <2>1. t.open \cup N \subseteq Entries \X Instances
    BY <1>0, <1>2 DEF Table, Proposals
  <2> QED
    BY <1>0, <2>1 DEF Opened, Table
<1>4. Scoped(u)
  BY <1>1 DEF Whole, Scoped, Proposals
<1>5. ASSUME NEW e \in Entries, NEW i \in Instances, <<e, i>> \in N
      PROVE  /\ t.holds[e] = None /\ <<e, i>> \notin t.rejected
             /\ \A j \in Instances : <<e, j>> \notin t.open
             /\ \A j \in Instances : <<e, j>> \in N => i = j
  <2>1. e \in S
    BY <1>5 DEF Proposals
  <2> QED
    BY <1>5, <2>1 DEF Proposals, OpenFor
<1> HIDE DEF u
<1>6. OneOpen(u) /\ OpenUnbound(u) /\ Apart(u) /\ Null(u)
  BY <1>1, <1>5 DEF Whole, OneOpen, OpenUnbound, Apart, Null
<1> QED
  BY <1>3, <1>4, <1>6 DEF Whole, u

LEMMA WithoutWhole ==
  ASSUME NEW t, Whole(t), NEW S
  PROVE  /\ Whole(Without(t, S))
         /\ OnePerNumber(t) => OnePerNumber(Without(t, S))
<1> DEFINE u == Without(t, S)
<1>0. t \in Table
  BY DEF Whole
<1>1. /\ u.rows = t.rows \ S
      /\ u.open = {p \in t.open : p[1] \notin S} /\ u.rejected = {p \in t.rejected : p[1] \notin S}
      /\ \A e \in Entries : /\ u.number[e] = IF e \in S THEN None ELSE t.number[e]
                            /\ u.holds[e] = IF e \in S THEN None ELSE t.holds[e]
  BY DEF Without
<1>2. u \in Table
  BY <1>0 DEF Without, Table
<1>3. Scoped(u)
  BY <1>1 DEF Whole, Scoped
<1>4. OneOpen(u) /\ OpenUnbound(u) /\ Apart(u) /\ Null(u)
  BY <1>1 DEF Whole, OneOpen, OpenUnbound, Apart, Null
<1>5. OnePerNumber(t) => OnePerNumber(u)
  BY <1>0, <1>1 DEF OnePerNumber, Table
<1> QED
  BY <1>2, <1>3, <1>4, <1>5 DEF Whole

\* The pairs of a request that binds.
LEMMA InstalledWhole ==
  ASSUME NEW t, Whole(t), NEW e \in t.rows, NEW i \in Instances
  PROVE  /\ Whole(Installed(t, e, i))
         /\ Installed(t, e, i).rows = t.rows /\ Installed(t, e, i).number = t.number
<1> DEFINE u == Installed(t, e, i)
           others == {<<e, j>> : j \in OpenFor(t, e)} \ {<<e, i>>}
           closed == t.open \ {<<e, j>> : j \in Instances}
<1>0. t \in Table /\ e \in Entries
  BY DEF Whole, Table
<1>1. /\ u.rows = t.rows /\ u.number = t.number /\ u.open = closed
      /\ u.rejected = t.rejected \cup others /\ u.holds = [t.holds EXCEPT ![e] = i]
      /\ others \subseteq {e} \X Instances /\ closed \subseteq t.open
      /\ \A j \in Instances : <<e, j>> \notin closed
  <2>1. /\ others \subseteq {e} \X Instances /\ closed \subseteq t.open
        /\ \A j \in Instances : <<e, j>> \notin closed
    <3>1. others \subseteq {e} \X Instances
      <4> SUFFICES ASSUME NEW p \in others PROVE p \in {e} \X Instances
        OBVIOUS
      <4>1. PICK j \in OpenFor(t, e) : p = <<e, j>>
        BY Zenon
      <4> QED
        BY <4>1 DEF OpenFor
    <3>2. closed \subseteq t.open
      OBVIOUS
    <3>3. \A j \in Instances : <<e, j>> \notin closed
      BY Zenon
    <3> QED
      BY <3>1, <3>2, <3>3
  <2>2. u = [t EXCEPT !.holds[e] = i, !.open = closed, !.rejected = t.rejected \cup others]
    BY DEF Installed
  <2> HIDE DEF u, others, closed
  <2> QED
    BY <1>0, <2>1, <2>2 DEF Table
<1>2. u \in Table
  <2>1. closed \subseteq Entries \X Instances /\ others \subseteq Entries \X Instances
    BY <1>0, <1>1 DEF Table
  <2>2. u = [t EXCEPT !.holds = [t.holds EXCEPT ![e] = i], !.open = closed,
                      !.rejected = t.rejected \cup others]
    BY <1>0 DEF Installed, Table
  <2>3. [t.holds EXCEPT ![e] = i] \in [Entries -> Instances \cup {None}]
    BY <1>0 DEF Table
  <2> HIDE DEF u, others, closed
  <2> QED
    BY <1>0, <2>1, <2>2, <2>3 DEF Table
<1>3. Scoped(u)
  BY <1>1 DEF Whole, Scoped
<1> HIDE DEF u, others, closed
<1>4. OneOpen(u) /\ Null(u)
  BY <1>0, <1>1 DEF Whole, OneOpen, Null, Table
<1>5. OpenUnbound(u)
  BY <1>0, <1>1 DEF Whole, OpenUnbound, Table
<1>6. Apart(u)
  BY <1>0, <1>1 DEF Whole, Apart
<1> QED
  BY <1>1, <1>2, <1>3, <1>4, <1>5, <1>6 DEF Whole, u

-----------------------------------------------------------------------------
(* What a bridge does. *)

LEMMA ProposableFacts ==
  ASSUME NEW t, NEW seen, NEW c, NEW e, NEW i \in Proposable(t, seen, c, e)
  PROVE  i \in Instances /\ t.holds[e] = None /\ OpenFor(t, e) = {} /\ <<e, i>> \notin t.rejected
<1>1. \A j \in Geometry(t, e) : j \in Instances /\ <<e, j>> \notin t.rejected
  BY DEF Geometry
<1>2. \A j \in Instances : \A k \in Tied(t, e, j) : k \in Instances /\ <<e, k>> \notin t.rejected
  BY <1>1 DEF Tied
<1>3. Claimants(seen, c, t.number[e]) \subseteq Instances
  BY DEF Claimants, Members
<1>4. t.holds[e] = None /\ OpenFor(t, e) = {}
  BY DEF Proposable
<1>5. \/ i \in Geometry(t, e)
      \/ \E j \in Claimants(seen, c, t.number[e]) : i \in Tied(t, e, j)
  BY DEF Proposable
<1> QED
  BY <1>1, <1>2, <1>3, <1>4, <1>5

\* A bridge opens proposals and nothing else; one that runs to its end leaves
\* no row unserved for which there is something to propose.
LEMMA BridgeEffect ==
  ASSUME NEW t, NEW S \in SUBSET t.rows, NEW seen, NEW c, NEW durable, NEW done, done # Cut,
         Bridge(t, seen, c, S, durable, done)
  PROVE  \E N :
           /\ table' = Opened(t, N) /\ Proposals(t, S, N) /\ last' \in {done, Cut}
           /\ last' = done => \A e \in S : Proposable(t, seen, c, e) # {} =>
                \E i \in Proposable(t, seen, c, e) : <<e, i>> \in N
<1> DEFINE wanting == {e \in S : Proposable(t, seen, c, e) # {}}
<1>1. PICK D \in SUBSET wanting :
        /\ \E f \in [D -> Instances] :
             /\ \A e \in D : f[e] \in Proposable(t, seen, c, e)
             /\ table' = [t EXCEPT !.open = @ \cup {<<e, f[e]>> : e \in D}]
        /\ last' = IF D = wanting THEN done ELSE Cut
  BY DEF Bridge
<1>2. PICK f \in [D -> Instances] :
        /\ \A e \in D : f[e] \in Proposable(t, seen, c, e)
        /\ table' = [t EXCEPT !.open = @ \cup {<<e, f[e]>> : e \in D}]
  BY <1>1
<1> DEFINE N == {<<e, f[e]>> : e \in D}
<1>3. table' = Opened(t, N)
  BY <1>2 DEF Opened
<1>4. \A e, i : <<e, i>> \in N <=> e \in D /\ i = f[e]
  OBVIOUS
<1>5. D \subseteq S
  OBVIOUS
<1>6. Proposals(t, S, N)
  <2>1. N \subseteq S \X Instances
    BY <1>5
  <2>2. \A e \in D : t.holds[e] = None /\ OpenFor(t, e) = {} /\ <<e, f[e]>> \notin t.rejected
    BY <1>2, ProposableFacts
  <2> HIDE DEF N
  <2> QED
    BY <1>4, <2>1, <2>2 DEF Proposals
<1>7. last' = done => \A e \in S : Proposable(t, seen, c, e) # {} => <<e, f[e]>> \in N
  BY <1>1, <1>4
<1>8. \A e : <<e, f[e]>> \in N => f[e] \in Proposable(t, seen, c, e)
  BY <1>2, <1>4
<1> HIDE DEF N
<1> QED
  BY <1>1, <1>3, <1>6, <1>7, <1>8

\* The one member that claims the number of an unbound row is one the bridge
\* may take the row for, if its tool is nowhere on the machine.
LEMMA CallerIsClaimant ==
  ASSUME NEW t, NEW c, NEW e \in t.rows, NEW i \in Instances, t.holds[e] = None,
         t.number[e] # None, {j \in Members(c) : c[j] = t.number[e]} = {i}, Holding(t, i) = {}
  PROVE  Claimants(t, c, t.number[e]) = {i}
<1> DEFINE n == t.number[e]
<1>1. \A j \in Members(c) : c[j] = n <=> j = i
  OBVIOUS
<1>2. i \in Members(c) /\ c[i] = n
  OBVIOUS
<1>3. \E l \in Lines(t, i, n) : l.state \in {"requested", "pending bind"}
  <2>1. CASE Named(t, i) # {}
    <3>1. PICK d \in Named(t, i) : TRUE
      BY <2>1
    <3>2. [state |-> "pending bind", entry |-> d] \in Lines(t, i, n)
      BY <2>1, <3>1 DEF Lines
    <3> QED
      BY <3>2
  <2>2. CASE Named(t, i) = {}
    <3>1. e \in AtNumber(t, n)
      BY DEF AtNumber
    <3>2. Lines(t, i, n) = {[state |-> IF t.holds[d] = None THEN "pending bind" ELSE "blocked",
                             entry |-> d] : d \in AtNumber(t, n)}
      BY <2>2, <3>1 DEF Lines
    <3>3. [state |-> "pending bind", entry |-> e] \in Lines(t, i, n)
      BY <3>1, <3>2
    <3> QED
      BY <3>3
  <2> QED
    BY <2>1, <2>2
<1>4. \A j : j \in Claimants(t, c, n) <=>
        /\ j \in Members(c) /\ c[j] = n
        /\ \E l \in Lines(t, j, n) : l.state \in {"requested", "pending bind"}
  BY DEF Claimants
<1> HIDE DEF n
<1>5. i \in Claimants(t, c, n) /\ \A j \in Claimants(t, c, n) : j = i
  BY <1>1, <1>2, <1>3, <1>4
<1> QED
  BY <1>5 DEF n

LEMMA CalledIsProposable ==
  ASSUME NEW t, NEW seen, NEW c, NEW e, NEW i, Claimants(seen, c, t.number[e]) = {i},
         t.holds[e] = None, OpenFor(t, e) = {}, <<e, i>> \notin t.rejected
  PROVE  Proposable(t, seen, c, e) = {i}
<1>1. Tied(t, e, i) = {i}
  BY DEF Tied
<1>2. UNION {Tied(t, e, j) : j \in {i}} = {i}
  BY <1>1
<1> QED
  BY <1>2 DEF Proposable

-----------------------------------------------------------------------------
(* What a push does. *)

Sides ==
  /\ claim \in [Sets -> [Instances -> Numbers \cup {None, NotMember}]]
  /\ sets \in SUBSET Sets
  /\ active \in Sets \cup {None}
  /\ last \in Request

Inv == Whole(table) /\ Sides

Known == {n \in Numbers : AtNumber(table, n) # {}}
Sent(payload) == {n \in Numbers : payload[n] > 0}
Doomed(payload, door) == IF door = "merge" THEN {} ELSE Known \ Sent(payload)
Wide(created, number) ==
  [table EXCEPT !.rows = @ \cup created,
                !.number = [e \in Entries |-> IF e \in created THEN number[e] ELSE @[e]]]
Pushed(payload, door, created) ==
  [door |-> door, sent |-> Sent(payload), served |-> created]

\* What the push adds to the rows: one row for each unknown number it was sent,
\* or as many as it was sent.
Fresh(payload, created, number) ==
  /\ created \subseteq Entries \ table.rows
  /\ number \in [created -> Sent(payload) \ Known]
  /\ \A n \in Sent(payload) \ Known :
       Cardinality({e \in created : number[e] = n}) = payload[n]

LEMMA WideFields ==
  ASSUME Whole(table), NEW payload, NEW created, NEW number, Fresh(payload, created, number)
  PROVE  /\ Wide(created, number).rows = table.rows \cup created
         /\ Wide(created, number).holds = table.holds
         /\ Wide(created, number).open = table.open
         /\ Wide(created, number).rejected = table.rejected
         /\ \A e \in Entries : Wide(created, number).number[e] =
              IF e \in created THEN number[e] ELSE table.number[e]
BY DEF Wide, Whole, Table, Fresh

LEMMA WideWhole ==
  ASSUME Whole(table), NEW payload, NEW created, NEW number, Fresh(payload, created, number)
  PROVE  Whole(Wide(created, number))
<1> DEFINE u == Wide(created, number)
           numbers == [e \in Entries |-> IF e \in created THEN number[e] ELSE table.number[e]]
<1>0. /\ u.rows = table.rows \cup created /\ u.holds = table.holds /\ u.open = table.open
      /\ u.rejected = table.rejected
      /\ \A e \in Entries : u.number[e] = IF e \in created THEN number[e] ELSE table.number[e]
  BY WideFields
<1>1. table \in Table /\ created \subseteq Entries
  BY DEF Whole, Fresh
<1>2. numbers \in [Entries -> Numbers \cup {None}]
  BY <1>1 DEF Fresh, Table, Sent
<1>3. u = [table EXCEPT !.rows = table.rows \cup created, !.number = numbers]
  BY <1>1 DEF Wide, Table
<1> HIDE DEF numbers
<1>4. u \in Table
  BY <1>1, <1>2, <1>3 DEF Table
<1> HIDE DEF u
<1>5. Scoped(u) /\ OneOpen(u) /\ OpenUnbound(u) /\ Apart(u)
  BY <1>0 DEF Whole, Scoped, OneOpen, OpenUnbound, Apart
<1>6. Null(u)
  BY <1>0 DEF Whole, Null
<1> QED
  BY <1>4, <1>5, <1>6 DEF Whole, u

\* A push adds rows, removes rows and proposes for the rows it added.
PushAdds(payload, door, existing, created, number, N) ==
  LET removed == Removed(table, existing, Doomed(payload, door))
      after == Without(Wide(created, number), removed)
      seen == [Wide(created, number) EXCEPT !.open = after.open]
  IN /\ existing \in [Known -> table.rows]
     /\ \A n \in Known : existing[n] \in AtNumber(table, n)
     /\ Fresh(payload, created, number)
     /\ removed \subseteq table.rows
     /\ Whole(after) /\ created \subseteq after.rows
     /\ table' = Opened(after, N)
     /\ Proposals(after, created, N)
     /\ last' \in {Pushed(payload, door, created), Cut}
     /\ last' = Pushed(payload, door, created) =>
          \A e \in created : Proposable(after, seen, ClaimsOf(active), e) # {} =>
            \E i \in Proposable(after, seen, ClaimsOf(active), e) : <<e, i>> \in N

LEMMA PushEffect ==
  ASSUME Whole(table), NEW payload \in Payloads, NEW door \in {"merge", "snapshot", "forced"},
         Push(payload, door)
  PROVE  /\ UNCHANGED <<claim, sets, active>>
         /\ door = "snapshot" => ~LikelyPartial(Doomed(payload, door), Known, Sent(payload))
         /\ \E existing, created, number, N :
              PushAdds(payload, door, existing, created, number, N)
<1> DEFINE missing == Sent(payload) \ Known
           doomed == Doomed(payload, door)
           after(existing, created, number) ==
             Without(Wide(created, number), Removed(table, existing, doomed))
           seen(existing, created, number) ==
             [Wide(created, number) EXCEPT !.open = after(existing, created, number).open]
<1>1. /\ UNCHANGED <<claim, sets, active>>
      /\ door = "snapshot" => ~LikelyPartial(doomed, Known, Sent(payload))
      /\ \E existing \in [Known -> table.rows], created \in SUBSET (Entries \ table.rows) :
           /\ \A n \in Known : existing[n] \in AtNumber(table, n)
           /\ \E number \in [created -> missing] :
                /\ \A n \in missing : Cardinality({e \in created : number[e] = n}) = payload[n]
                /\ Bridge(after(existing, created, number), seen(existing, created, number),
                          ClaimsOf(active), created, FALSE, Pushed(payload, door, created))
  BY DEF Push, Known, Sent, Doomed, Wide, Pushed
<1>2. PICK existing \in [Known -> table.rows], created \in SUBSET (Entries \ table.rows) :
        /\ \A n \in Known : existing[n] \in AtNumber(table, n)
        /\ \E number \in [created -> missing] :
             /\ \A n \in missing : Cardinality({e \in created : number[e] = n}) = payload[n]
             /\ Bridge(after(existing, created, number), seen(existing, created, number),
                       ClaimsOf(active), created, FALSE, Pushed(payload, door, created))
  BY <1>1
<1>3. PICK number \in [created -> missing] :
        /\ \A n \in missing : Cardinality({e \in created : number[e] = n}) = payload[n]
        /\ Bridge(after(existing, created, number), seen(existing, created, number),
                  ClaimsOf(active), created, FALSE, Pushed(payload, door, created))
  BY <1>2
<1> DEFINE removed == Removed(table, existing, doomed)
           u == Without(Wide(created, number), removed)
           s == [Wide(created, number) EXCEPT !.open = u.open]
<1>4. Fresh(payload, created, number)
  BY <1>3 DEF Fresh
<1>5. doomed \subseteq Known
  BY DEF Doomed
<1>6. removed \subseteq table.rows
  BY <1>5 DEF Removed
<1>7. Whole(u)
  BY <1>4, WideWhole, WithoutWhole
<1>8. created \subseteq u.rows
  <2>1. u.rows = (table.rows \cup created) \ removed
    BY <1>4, WideFields DEF Without
  <2> QED
    BY <1>6, <2>1
<1>9. Bridge(u, s, ClaimsOf(active), created, FALSE, Pushed(payload, door, created))
  BY <1>3
<1> DEFINE done == Pushed(payload, door, created)
<1>10. done # Cut
  BY DEF Pushed, Cut, Other
<1> HIDE DEF u, s, done, removed
<1>11. PICK N :
         /\ table' = Opened(u, N) /\ Proposals(u, created, N) /\ last' \in {done, Cut}
         /\ last' = done => \A e \in created : Proposable(u, s, ClaimsOf(active), e) # {} =>
              \E i \in Proposable(u, s, ClaimsOf(active), e) : <<e, i>> \in N
  BY <1>8, <1>9, <1>10, BridgeEffect DEF done
<1>12. PushAdds(payload, door, existing, created, number, N)
  BY <1>2, <1>4, <1>6, <1>7, <1>8, <1>11 DEF PushAdds, u, s, done, removed
<1> QED
  BY <1>1, <1>12

-----------------------------------------------------------------------------
(* What the entry doors do. *)

\* What every step keeps: the table as a whole, and with a client that sends
\* each number once, one row for each number.
Keeps(u) == Whole(u) /\ (Distinct /\ OnePerNumber(table) => OnePerNumber(u))

LEMMA SameNumbers ==
  ASSUME NEW t, NEW u, u.rows = t.rows, u.number = t.number, OnePerNumber(t)
  PROVE  OnePerNumber(u)
BY DEF OnePerNumber

LEMMA OpenedKeeps ==
  ASSUME NEW t, Keeps(t), NEW S \in SUBSET t.rows, NEW N, Proposals(t, S, N)
  PROVE  Keeps(Opened(t, N))
<1>1. Whole(t) /\ t \in Table
  BY DEF Keeps, Whole
<1>2. Whole(Opened(t, N))
  BY <1>1, OpenedWhole
<1>3. Opened(t, N).rows = t.rows /\ Opened(t, N).number = t.number
  BY <1>1, OpenedFields
<1> QED
  BY <1>2, <1>3, SameNumbers DEF Keeps

LEMMA CreatedKeeps ==
  ASSUME Whole(table), NEW e \in Entries \ table.rows
  PROVE  Keeps([table EXCEPT !.rows = @ \cup {e}])
<1> DEFINE u == [table EXCEPT !.rows = @ \cup {e}]
<1>0. table \in Table
  BY DEF Whole
<1>1. /\ u.rows = table.rows \cup {e} /\ u.number = table.number /\ u.holds = table.holds
      /\ u.open = table.open /\ u.rejected = table.rejected /\ u \in Table
  BY <1>0 DEF Table
<1> HIDE DEF u
<1>2. Whole(u)
  BY <1>1 DEF Whole, Null, Scoped, OneOpen, OpenUnbound, Apart
<1>3. OnePerNumber(table) => OnePerNumber(u)
  BY <1>1 DEF OnePerNumber, Whole, Null
<1> QED
  BY <1>2, <1>3 DEF Keeps, u

LEMMA ReleasedWhole ==
  ASSUME NEW t, Whole(t), NEW e
  PROVE  /\ Whole([t EXCEPT !.holds[e] = None])
         /\ [t EXCEPT !.holds[e] = None].rows = t.rows
         /\ [t EXCEPT !.holds[e] = None].number = t.number
<1> DEFINE u == [t EXCEPT !.holds[e] = None]
<1>0. t \in Table
  BY DEF Whole
<1>1. /\ u.rows = t.rows /\ u.number = t.number /\ u.holds = [t.holds EXCEPT ![e] = None]
      /\ u.open = t.open /\ u.rejected = t.rejected /\ u \in Table
  BY <1>0 DEF Table
<1>2. \A d \in Entries : u.holds[d] \in {t.holds[d], None}
  BY <1>0, <1>1 DEF Table
<1> HIDE DEF u
<1>3. Whole(u)
  BY <1>1, <1>2 DEF Whole, Null, Scoped, OneOpen, OpenUnbound, Apart
<1> QED
  BY <1>1, <1>3 DEF u

LEMMA ObservedKeeps ==
  ASSUME Whole(table), NEW e \in table.rows, NEW n \in Numbers,
         Distinct => AtNumber(table, n) \subseteq {e}
  PROVE  Keeps([table EXCEPT !.number[e] = n])
<1> DEFINE u == [table EXCEPT !.number[e] = n]
<1>0. table \in Table /\ e \in Entries
  BY DEF Whole, Table
<1>1. /\ u.rows = table.rows /\ u.number = [table.number EXCEPT ![e] = n]
      /\ u.holds = table.holds /\ u.open = table.open /\ u.rejected = table.rejected
      /\ u \in Table
  BY <1>0 DEF Table
<1>2. \A d \in Entries : u.number[d] = IF d = e THEN n ELSE table.number[d]
  BY <1>0, <1>1 DEF Table
<1> HIDE DEF u
<1>3. Whole(u)
  BY <1>1, <1>2 DEF Whole, Null, Scoped, OneOpen, OpenUnbound, Apart
<1>4. Distinct /\ OnePerNumber(table) => OnePerNumber(u)
  BY <1>0, <1>1, <1>2 DEF OnePerNumber, AtNumber, Table
<1> QED
  BY <1>3, <1>4 DEF Keeps, u

LEMMA ConfirmedWhole ==
  ASSUME NEW t, Whole(t), NEW e \in Entries, NEW i \in Instances, <<e, i>> \in t.open
  PROVE  /\ Whole([t EXCEPT !.holds[e] = i, !.open = @ \ {<<e, i>>}])
         /\ [t EXCEPT !.holds[e] = i, !.open = @ \ {<<e, i>>}].rows = t.rows
         /\ [t EXCEPT !.holds[e] = i, !.open = @ \ {<<e, i>>}].number = t.number
<1> DEFINE u == [t EXCEPT !.holds[e] = i, !.open = @ \ {<<e, i>>}]
<1>0. t \in Table /\ e \in t.rows
  BY DEF Whole, Scoped
<1>1. /\ u.rows = t.rows /\ u.number = t.number /\ u.holds = [t.holds EXCEPT ![e] = i]
      /\ u.open = t.open \ {<<e, i>>} /\ u.rejected = t.rejected
  BY <1>0 DEF Table
<1>2. \A d \in Entries : u.holds[d] = IF d = e THEN i ELSE t.holds[d]
  BY <1>0, <1>1 DEF Table
<1>3. u \in Table
  <2> DEFINE open == t.open \ {<<e, i>>}
             holds == [t.holds EXCEPT ![e] = i]
  <2>1. open \subseteq Entries \X Instances /\ holds \in [Entries -> Instances \cup {None}]
    BY <1>0 DEF Table
  <2>2. u = [t EXCEPT !.holds = holds, !.open = open]
    BY <1>0 DEF Table
  <2> HIDE DEF u, open, holds
  <2> QED
    BY <1>0, <2>1, <2>2 DEF Table
<1> HIDE DEF u
<1>4. OneOpen(u) /\ OpenUnbound(u)
  BY <1>1, <1>2 DEF Whole, OneOpen, OpenUnbound
<1>5. Apart(u) /\ Null(u) /\ Scoped(u)
  BY <1>0, <1>1, <1>2 DEF Whole, Apart, Null, Scoped
<1> QED
  BY <1>1, <1>3, <1>4, <1>5 DEF Whole, u

LEMMA RejectedWhole ==
  ASSUME NEW t, Whole(t), NEW e \in Entries, NEW i \in Instances, <<e, i>> \in t.open
  PROVE  /\ Whole([t EXCEPT !.open = @ \ {<<e, i>>}, !.rejected = @ \cup {<<e, i>>}])
         /\ [t EXCEPT !.open = @ \ {<<e, i>>}, !.rejected = @ \cup {<<e, i>>}].rows = t.rows
         /\ [t EXCEPT !.open = @ \ {<<e, i>>}, !.rejected = @ \cup {<<e, i>>}].number = t.number
<1> DEFINE open == t.open \ {<<e, i>>}
           rejected == t.rejected \cup {<<e, i>>}
           u == [t EXCEPT !.open = open, !.rejected = rejected]
<1>0. t \in Table /\ <<e, i>> \in t.rows \X Instances
  BY DEF Whole, Scoped
<1>1. open \subseteq Entries \X Instances /\ rejected \subseteq Entries \X Instances
  BY <1>0 DEF Table
<1>2. \A p : /\ p \in open <=> p \in t.open /\ p # <<e, i>>
             /\ p \in rejected <=> p \in t.rejected \/ p = <<e, i>>
  OBVIOUS
<1> HIDE DEF open, rejected
<1>3. /\ u.rows = t.rows /\ u.number = t.number /\ u.holds = t.holds /\ u.open = open
      /\ u.rejected = rejected /\ u \in Table
  BY <1>0, <1>1 DEF Table
<1> HIDE DEF u
<1>4. Scoped(u)
  BY <1>0, <1>2, <1>3 DEF Whole, Scoped
<1>5. OneOpen(u) /\ OpenUnbound(u) /\ Null(u)
  BY <1>2, <1>3 DEF Whole, OneOpen, OpenUnbound, Null
<1>6. Apart(u)
  BY <1>2, <1>3 DEF Whole, Apart, OneOpen
<1> QED
  BY <1>3, <1>4, <1>5, <1>6 DEF Whole, u, open, rejected

\* A client that sends each number once gets one row for each new number.
LEMMA WideKeeps ==
  ASSUME Whole(table), NEW payload \in Payloads, NEW created, NEW number,
         Fresh(payload, created, number)
  PROVE  Keeps(Wide(created, number))
<1> DEFINE u == Wide(created, number)
<1>0. /\ u.rows = table.rows \cup created
      /\ \A e \in Entries : u.number[e] = IF e \in created THEN number[e] ELSE table.number[e]
  BY WideFields
<1>1. table \in Table /\ created \subseteq Entries
  BY DEF Whole, Fresh
<1>2. ASSUME Distinct, NEW d \in created, NEW e \in created, number[d] = number[e]
      PROVE  d = e
  <2> DEFINE n == number[d]
             group == {x \in created : number[x] = n}
  <2>1. n \in Sent(payload) \ Known
    BY DEF Fresh
  <2>2. Cardinality(group) = payload[n]
    BY <2>1 DEF Fresh
  <2>3. payload[n] \in 0 .. 1 /\ payload[n] > 0
    BY <1>2, <2>1 DEF Payloads, Sent
  <2>4. IsFiniteSet(group)
    BY <1>1, EntriesAssumption, FS_Subset
  <2>5. Cardinality(group) = 1
    BY <2>2, <2>3
  <2>6. PICK x : group = {x}
    BY <2>4, <2>5, FS_Singleton
  <2>7. d \in group /\ e \in group
    BY <1>2
  <2> QED
    BY <2>6, <2>7
<1>3. ASSUME NEW d \in created, NEW e \in table.rows
      PROVE  number[d] # table.number[e]
  BY DEF Fresh, Known, Sent, AtNumber
<1>4. created \cap table.rows = {}
  BY DEF Fresh
<1>5. table.rows \subseteq Entries
  BY <1>1 DEF Table
<1> HIDE DEF u
<1>6. Distinct /\ OnePerNumber(table) => OnePerNumber(u)
  BY <1>0, <1>1, <1>2, <1>3, <1>4, <1>5 DEF OnePerNumber
<1> QED
  BY <1>6, WideWhole DEF Keeps, u

LEMMA PushKeeps ==
  ASSUME Whole(table), NEW payload \in Payloads, NEW door \in {"merge", "snapshot", "forced"},
         Push(payload, door)
  PROVE  /\ Keeps(table') /\ last' \in Request
         /\ UNCHANGED <<claim, sets, active>>
<1>1. PICK existing, created, number, N :
        PushAdds(payload, door, existing, created, number, N)
  BY PushEffect
<1> DEFINE removed == Removed(table, existing, Doomed(payload, door))
           after == Without(Wide(created, number), removed)
<1>2. /\ Fresh(payload, created, number) /\ created \subseteq after.rows
      /\ table' = Opened(after, N) /\ Proposals(after, created, N)
      /\ last' \in {Pushed(payload, door, created), Cut}
  BY <1>1 DEF PushAdds
<1>3. Keeps(after)
  BY <1>2, WideKeeps, WithoutWhole DEF Keeps
<1> HIDE DEF after
<1>4. Keeps(table')
  BY <1>2, <1>3, OpenedKeeps
<1>5. Pushed(payload, door, created) \in Request /\ Cut \in Request
  <2>1. created \subseteq Entries /\ Sent(payload) \subseteq Numbers
    BY <1>2 DEF Fresh, Sent
  <2> QED
    BY <2>1 DEF Pushed, Request, Cut, Other
<1> QED
  BY <1>2, <1>4, <1>5, PushEffect

\* A bridge over rows of the machine, whatever claims it serves.
LEMMA BridgeKeeps ==
  ASSUME Whole(table), NEW S \in SUBSET table.rows, NEW c, NEW done \in Request, done # Cut,
         Bridge(table, table, c, S, TRUE, done)
  PROVE  Keeps(table') /\ last' \in {done, Cut} /\ last' \in Request
<1>1. PICK N : table' = Opened(table, N) /\ Proposals(table, S, N) /\ last' \in {done, Cut}
  BY BridgeEffect
<1>2. Cut \in Request
  BY DEF Cut, Other, Request
<1> QED
  BY <1>1, <1>2, OpenedKeeps DEF Keeps

Claims == [Other EXCEPT !.door = "claims"]

LEMMA BridgeClaimsKeeps ==
  ASSUME Whole(table), NEW c, BridgeClaims(c)
  PROVE  Keeps(table') /\ last' \in {Claims, Cut} /\ last' \in Request
<1>1. Claims \in Request /\ Claims # Cut
  BY DEF Claims, Cut, Other, Request
<1> DEFINE S == {e \in table.rows :
                   table.holds[e] = None /\ Claimants(table, c, table.number[e]) # {}}
<1>2. Bridge(table, table, c, S, TRUE, Claims)
  BY DEF BridgeClaims, Claims
<1> QED
  BY <1>1, <1>2, BridgeKeeps

EntryDoors ==
  \E e \in Entries :
    \/ CreateEntry(e) \/ DeleteEntry(e) \/ Unbind(e)
    \/ \E n \in Numbers : ObserveNumber(e, n)
    \/ \E i \in Instances : Bind(e, i) \/ Move(e, i) \/ Confirm(e, i) \/ Reject(e, i)

LEMMA EntryDoorsKeep ==
  ASSUME Whole(table), EntryDoors
  PROVE  Keeps(table') /\ last' = Other /\ UNCHANGED <<claim, sets, active>>
<1>0. PICK e \in Entries :
        \/ CreateEntry(e) \/ DeleteEntry(e) \/ Unbind(e)
        \/ \E n \in Numbers : ObserveNumber(e, n)
        \/ \E i \in Instances : Bind(e, i) \/ Move(e, i) \/ Confirm(e, i) \/ Reject(e, i)
  BY DEF EntryDoors
<1>1. CASE CreateEntry(e)
  BY <1>1, CreatedKeeps DEF CreateEntry, ToTable
<1>2. CASE DeleteEntry(e)
  BY <1>2, WithoutWhole DEF DeleteEntry, ToTable, Keeps
<1>3. CASE Unbind(e)
  BY <1>3, ReleasedWhole, SameNumbers DEF Unbind, ToTable, Keeps
<1>4. ASSUME NEW n \in Numbers, ObserveNumber(e, n)
      PROVE  Keeps(table') /\ last' = Other /\ UNCHANGED <<claim, sets, active>>
  BY <1>4, ObservedKeeps DEF ObserveNumber, ToTable
<1>5. ASSUME NEW i \in Instances, Bind(e, i)
      PROVE  Keeps(table') /\ last' = Other /\ UNCHANGED <<claim, sets, active>>
  BY <1>5, InstalledWhole, SameNumbers DEF Bind, ToTable, Keeps
<1>6. ASSUME NEW i \in Instances, Move(e, i)
      PROVE  Keeps(table') /\ last' = Other /\ UNCHANGED <<claim, sets, active>>
  <2>1. PICK o \in Holding(table, i) \ {e} :
          ToTable(Installed([table EXCEPT !.holds[o] = None], e, i))
    BY <1>6 DEF Move
  <2> DEFINE t == [table EXCEPT !.holds[o] = None]
  <2>2. Whole(t) /\ t.rows = table.rows /\ t.number = table.number /\ e \in t.rows
    BY <1>6, ReleasedWhole DEF Move
  <2> HIDE DEF t
  <2>3. /\ Whole(Installed(t, e, i)) /\ Installed(t, e, i).rows = table.rows
        /\ Installed(t, e, i).number = table.number
    BY <2>2, InstalledWhole
  <2>4. Keeps(Installed(t, e, i))
    BY <2>3, SameNumbers DEF Keeps
  <2> QED
    BY <2>1, <2>4 DEF ToTable, t
<1>7. ASSUME NEW i \in Instances, Confirm(e, i)
      PROVE  Keeps(table') /\ last' = Other /\ UNCHANGED <<claim, sets, active>>
  <2> DEFINE u == [table EXCEPT !.holds[e] = i, !.open = @ \ {<<e, i>>}]
  <2>1. Whole(u) /\ u.rows = table.rows /\ u.number = table.number
    BY <1>7, ConfirmedWhole DEF Confirm
  <2>2. table' = u /\ last' = Other /\ UNCHANGED <<claim, sets, active>>
    BY <1>7 DEF Confirm, ToTable
  <2> HIDE DEF u
  <2> QED
    BY <2>1, <2>2, SameNumbers DEF Keeps
<1>8. ASSUME NEW i \in Instances, Reject(e, i)
      PROVE  Keeps(table') /\ last' = Other /\ UNCHANGED <<claim, sets, active>>
  <2> DEFINE u == [table EXCEPT !.open = @ \ {<<e, i>>}, !.rejected = @ \cup {<<e, i>>}]
  <2>1. Whole(u) /\ u.rows = table.rows /\ u.number = table.number
    BY <1>8, RejectedWhole DEF Reject
  <2>2. table' = u /\ last' = Other /\ UNCHANGED <<claim, sets, active>>
    BY <1>8 DEF Reject, ToTable
  <2> HIDE DEF u
  <2> QED
    BY <2>1, <2>2, SameNumbers DEF Keeps
<1> QED
  BY <1>0, <1>1, <1>2, <1>3, <1>4, <1>5, <1>6, <1>7, <1>8

-----------------------------------------------------------------------------
(* Every step. *)

LEMMA NothingKeeps == Whole(table) => Keeps(table)
BY DEF Keeps

\* A set's new claims.
NewClaims(s, M, number) ==
  [i \in Instances |-> IF i \in M THEN Claimed(claim[s][i], number[i]) ELSE NotMember]

LEMMA ReplaceEffect ==
  ASSUME Inv, NEW s \in Sets, NEW M \in SUBSET Instances, ReplaceMembers(s, M)
  PROVE  \E number \in [M -> Numbers \cup {None}] :
           LET c == NewClaims(s, M, number) IN
           /\ s \in sets /\ UNCHANGED <<sets, active>>
           /\ claim' = [claim EXCEPT ![s] = c]
           /\ c \in [Instances -> Numbers \cup {None, NotMember}]
           /\ \/ active = s /\ BridgeClaims(c)
              \/ last' = Other /\ table' = table
<1>1. PICK number \in [M -> Numbers \cup {None}] :
        LET c == NewClaims(s, M, number) IN
        /\ claim' = [claim EXCEPT ![s] = c]
        /\ IF active = s THEN BridgeClaims(c) ELSE last' = Other /\ UNCHANGED table
  BY DEF ReplaceMembers, NewClaims
<1> DEFINE c == NewClaims(s, M, number)
<1>2. claim[s] \in [Instances -> Numbers \cup {None, NotMember}]
  BY DEF Inv, Sides
<1>3. \A i \in M : Claimed(claim[s][i], number[i]) \in Numbers \cup {None, NotMember}
  BY <1>2 DEF Claimed
<1>4. c \in [Instances -> Numbers \cup {None, NotMember}]
  BY <1>3 DEF NewClaims
<1>5. s \in sets /\ UNCHANGED <<sets, active>>
  BY DEF ReplaceMembers
<1> HIDE DEF c
<1>6. /\ claim' = [claim EXCEPT ![s] = c]
      /\ \/ active = s /\ BridgeClaims(c)
         \/ last' = Other /\ table' = table
  BY <1>1 DEF c
<1> QED
  BY <1>4, <1>5, <1>6 DEF c

LEMMA NextCases ==
  ASSUME Next
  PROVE  \/ \E payload \in Payloads, door \in {"merge", "snapshot", "forced"} : Push(payload, door)
         \/ \E s \in Sets : CreateSet(s) \/ DeleteSet(s) \/ Activate(s)
         \/ \E s \in Sets, M \in SUBSET Instances : ReplaceMembers(s, M)
         \/ EndSetup \/ Inbox \/ EntryDoors
BY DEF Next, EntryDoors

LEMMA InboxKeeps ==
  ASSUME Whole(table), Inbox
  PROVE  Keeps(table') /\ last' \in {Other, Cut} /\ UNCHANGED <<claim, sets, active>>
<1> DEFINE S == {e \in table.rows : table.holds[e] = None}
<1>1. Bridge(table, table, NoClaims, S, TRUE, Other) /\ UNCHANGED <<claim, sets, active>>
  BY DEF Inbox
<1>2. Other \in Request /\ Other # Cut
  BY DEF Other, Cut, Request
<1> QED
  BY <1>1, <1>2, BridgeKeeps

LEMMA StepKeeps ==
  ASSUME Inv, [Next]_vars
  PROVE  Keeps(table') /\ Sides'
<1>0. /\ Whole(table) /\ Keeps(table) /\ Sides
      /\ Other \in Request /\ Cut \in Request
      /\ NoClaims \in [Instances -> Numbers \cup {None, NotMember}]
  BY NothingKeeps DEF Inv, Other, Cut, Request, NoClaims
<1>1. ASSUME NEW payload \in Payloads, NEW door \in {"merge", "snapshot", "forced"},
             Push(payload, door)
      PROVE  Keeps(table') /\ Sides'
  BY <1>0, <1>1, PushKeeps DEF Sides
<1>2. ASSUME NEW s \in Sets, CreateSet(s) \/ DeleteSet(s)
      PROVE  Keeps(table') /\ Sides'
  BY <1>0, <1>2 DEF CreateSet, DeleteSet, Sides
<1>3. ASSUME NEW s \in Sets, Activate(s)
      PROVE  Keeps(table') /\ Sides'
  BY <1>0, <1>3, BridgeClaimsKeeps DEF Activate, Sides
<1>4. ASSUME NEW s \in Sets, NEW M \in SUBSET Instances, ReplaceMembers(s, M)
      PROVE  Keeps(table') /\ Sides'
  <2>1. PICK c :
          /\ UNCHANGED <<sets, active>> /\ claim' = [claim EXCEPT ![s] = c]
          /\ c \in [Instances -> Numbers \cup {None, NotMember}]
          /\ \/ active = s /\ BridgeClaims(c)
             \/ last' = Other /\ table' = table
    BY <1>4, ReplaceEffect
  <2> QED
    BY <1>0, <2>1, BridgeClaimsKeeps DEF Sides
<1>5. CASE EndSetup
  BY <1>0, <1>5 DEF EndSetup, Sides
<1>6. CASE Inbox
  BY <1>0, <1>6, InboxKeeps DEF Sides
<1>7. CASE EntryDoors
  BY <1>0, <1>7, EntryDoorsKeep DEF Sides
<1>8. CASE UNCHANGED vars
  BY <1>0, <1>8 DEF vars, Sides
<1> QED
  BY <1>1, <1>2, <1>3, <1>4, <1>5, <1>6, <1>7, <1>8, NextCases

LEMMA InitWhole == Init => Inv /\ OnePerNumber(table)
<1> SUFFICES ASSUME Init PROVE Inv /\ OnePerNumber(table)
  OBVIOUS
<1>1. /\ table.rows = {} /\ table.open = {} /\ table.rejected = {} /\ table \in Table
      /\ \A e \in Entries : table.number[e] = None /\ table.holds[e] = None
  BY DEF Init, Table
<1>2. Whole(table) /\ OnePerNumber(table)
  BY <1>1 DEF Whole, Null, Scoped, OneOpen, OpenUnbound, Apart, OnePerNumber
<1>3. Sides
  BY DEF Init, Sides, Other, Request
<1> QED
  BY <1>2, <1>3 DEF Inv

Tabled == Inv /\ (Distinct => OnePerNumber(table))

\* A bound entry has no open proposal, an entry has at most one, and while a
\* client sends each number once no two rows have the same number.
THEOREM TableStaysWhole == Spec => []Tabled
<1>1. Init => Tabled
  BY InitWhole DEF Tabled
<1>2. Tabled /\ [Next]_vars => Tabled'
  <2> SUFFICES ASSUME Tabled, [Next]_vars PROVE Tabled'
    OBVIOUS
  <2>1. Keeps(table') /\ Sides'
    BY StepKeeps DEF Tabled
  <2> QED
    BY <2>1 DEF Tabled, Inv, Keeps
<1> QED
  BY <1>1, <1>2, PTL DEF Spec

LEMMA InvTypes == Inv => TypeOK
BY DEF Inv, Sides, Whole, Null, Scoped, TypeOK

\* Every variable keeps its type, the proposals of a table name its rows only,
\* and a row that is gone leaves neither number nor tool behind.
THEOREM TypeCorrect == Spec => []TypeOK
BY TableStaysWhole, InvTypes, PTL DEF Tabled

\* No proposal is open for a pair that was rejected: not by the inbox, nor by
\* a claim, nor by a push (binding_v2.py:360).
THEOREM RejectedPairsStayRejected == Spec => []RejectedStaysRejected
<1>1. Tabled => RejectedStaysRejected
  BY DEF Tabled, Inv, Whole, Apart, Table, RejectedStaysRejected
<1> QED
  BY <1>1, TableStaysWhole, PTL

\* When the setup view says Ready, the claimed tools are the ones at their numbers.
THEOREM ReadyRunsTheRightTools == Distinct => (Spec => []ReadyMeansRightTools)
<1> SUFFICES ASSUME Distinct PROVE Spec => []ReadyMeansRightTools
  OBVIOUS
<1>1. Tabled => ReadyMeansRightTools
  <2> SUFFICES ASSUME Tabled, Ready, NEW i \in Members(ClaimsOf(active)),
                      ClaimsOf(active)[i] # None
               PROVE  /\ AtNumber(table, ClaimsOf(active)[i]) # {}
                      /\ \A e \in AtNumber(table, ClaimsOf(active)[i]) : table.holds[e] = i
    BY DEF ReadyMeansRightTools
  <2> DEFINE n == ClaimsOf(active)[i]
  <2>1. \A l \in Lines(table, i, n) : l.state = "satisfied"
    <3>1. \A l \in Lines(table, i, n) : <<i, l>> \in Shown
      BY DEF Shown
    <3> HIDE DEF n
    <3> QED
      BY <3>1 DEF Ready
  <2>2. OnePerNumber(table) /\ table.rows \subseteq Entries
    BY DEF Tabled, Inv, Whole, Table
  <2>n. n # None
    OBVIOUS
  <2> HIDE DEF n
  <2>3. Holding(table, i) # {}
    <3> SUFFICES ASSUME Holding(table, i) = {} PROVE FALSE
      OBVIOUS
    <3>1. CASE Named(table, i) # {}
      <4>1. PICK e \in Named(table, i) : TRUE
        BY <3>1
      <4>2. [state |-> "pending bind", entry |-> e] \in Lines(table, i, n)
        BY <3>1 DEF Lines
      <4> QED
        BY <4>2, <2>1
    <3>2. CASE Named(table, i) = {} /\ AtNumber(table, n) # {}
      <4>1. PICK e \in AtNumber(table, n) : TRUE
        BY <3>2
      <4>2. [state |-> IF table.holds[e] = None THEN "pending bind" ELSE "blocked",
             entry |-> e] \in Lines(table, i, n)
        BY <3>2, <2>n DEF Lines
      <4> QED
        BY <4>2, <2>1
    <3>3. CASE Named(table, i) = {} /\ AtNumber(table, n) = {}
      <4>1. [state |-> "requested", entry |-> None] \in Lines(table, i, n)
        BY <3>3 DEF Lines
      <4> QED
        BY <4>1, <2>1
    <3> QED
      BY <3>1, <3>2, <3>3
  <2>4. PICK e \in Holding(table, i) : TRUE
    BY <2>3
  <2>5. [state |-> BoundState(n, table.number[e]), entry |-> e] \in Lines(table, i, n)
    BY <2>3 DEF Lines
  <2>6. BoundState(n, table.number[e]) = "satisfied"
    BY <2>1, <2>5
  <2>7. table.number[e] = n
    BY <2>6, <2>n DEF BoundState
  <2>8. e \in table.rows /\ table.holds[e] = i
    BY DEF Holding
  <2>9. e \in AtNumber(table, n) /\ \A d \in AtNumber(table, n) : d = e
    BY <2>n, <2>2, <2>7, <2>8 DEF AtNumber, OnePerNumber
  <2> QED
    BY <2>8, <2>9 DEF n
<1> QED
  BY <1>1, TableStaysWhole, PTL

-----------------------------------------------------------------------------
(* Snapshots. *)

\* After a snapshot of distinct numbers, a table with one row for each number
\* has the numbers that were sent.
LEMMA SnapshotNumbers ==
  ASSUME Inv, Distinct, OnePerNumber(table),
         NEW payload \in Payloads, NEW door \in {"snapshot", "forced"},
         NEW existing, NEW created, NEW number, NEW N,
         PushAdds(payload, door, existing, created, number, N)
  PROVE  {table'.number[e] : e \in table'.rows} \ {None} = Sent(payload)
<1> DEFINE doomed == Known \ Sent(payload)
           removed == Removed(table, existing, doomed)
           wide == Wide(created, number)
           after == Without(wide, removed)
<1>1. /\ existing \in [Known -> table.rows]
      /\ \A n \in Known : existing[n] \in AtNumber(table, n)
      /\ Fresh(payload, created, number) /\ removed \subseteq table.rows
      /\ Whole(after) /\ table' = Opened(after, N)
  BY DEF PushAdds, Doomed
<1>2. table \in Table /\ table.rows \subseteq Entries
  BY DEF Inv, Whole, Table
<1>3. /\ table'.rows = (table.rows \cup created) \ removed
      /\ \A e \in Entries \ removed :
           table'.number[e] = IF e \in created THEN number[e] ELSE table.number[e]
  <2>1. after \in Table
    BY <1>1 DEF Whole
  <2>2. table'.rows = after.rows /\ table'.number = after.number
    BY <1>1, <2>1, OpenedFields
  <2>3. /\ wide.rows = table.rows \cup created
        /\ \A e \in Entries : wide.number[e] = IF e \in created THEN number[e] ELSE table.number[e]
    BY <1>1, WideFields DEF Inv
  <2>4. /\ after.rows = wide.rows \ removed
        /\ \A e \in Entries \ removed : after.number[e] = wide.number[e]
    BY DEF Without
  <2> QED
    BY <2>2, <2>3, <2>4
<1>4. \A e : e \in removed <=> \E n \in doomed : e = existing[n]
  BY DEF Removed
<1> HIDE DEF removed, after, wide
<1>5. \A n \in Known : /\ existing[n] \in table.rows /\ table.number[existing[n]] = n
                       /\ n \in Numbers /\ n # None
  BY <1>1, NoneAssumption DEF AtNumber, Known
<1>6. created \subseteq Entries \ table.rows /\ \A e \in created : number[e] \in Sent(payload) \ Known
  BY <1>1 DEF Fresh
<1>7. ASSUME NEW e \in table'.rows, table'.number[e] # None
      PROVE  table'.number[e] \in Sent(payload)
  <2>1. CASE e \in created
    BY <2>1, <1>2, <1>3, <1>6, <1>7
  <2>2. CASE e \notin created
    <3> DEFINE n == table.number[e]
    <3>1. e \in table.rows \ removed /\ table'.number[e] = n /\ n \in Numbers
      BY <1>2, <1>3, <1>7, <2>2 DEF Table
    <3>2. e \in AtNumber(table, n) /\ n \in Known
      BY <3>1 DEF AtNumber, Known
    <3>3. existing[n] = e
      BY <1>5, <3>1, <3>2 DEF OnePerNumber
    <3> HIDE DEF n
    <3>4. n \notin doomed
      BY <1>4, <3>1, <3>3
    <3> QED
      BY <3>1, <3>2, <3>4
  <2> QED
    BY <2>1, <2>2
<1>8. ASSUME NEW n \in Sent(payload)
      PROVE  n # None /\ \E e \in table'.rows : table'.number[e] = n
  <2>1. n \in Numbers /\ n # None
    BY NoneAssumption DEF Sent
  <2>2. CASE n \in Known
    <3>1. existing[n] \notin removed
      BY <1>4, <1>5, <2>2
    <3>2. existing[n] \in table.rows /\ existing[n] \notin created
      BY <1>5, <1>6, <2>2
    <3> QED
      BY <1>2, <1>3, <1>5, <2>1, <2>2, <3>1, <3>2
  <2>3. CASE n \notin Known
    <3> DEFINE group == {e \in created : number[e] = n}
    <3>1. Cardinality(group) = payload[n] /\ payload[n] > 0
      BY <1>1, <2>3 DEF Fresh, Sent
    <3>2. group # {}
      <4>1. Cardinality({}) = 0
        BY FS_EmptySet
      <4>2. payload[n] # 0
        BY <3>1, <2>1 DEF Payloads
      <4> QED
        BY <3>1, <4>1, <4>2
    <3>3. PICK e \in created : number[e] = n
      BY <3>2
    <3>4. e \in Entries /\ e \notin removed
      BY <1>1, <1>6
    <3> QED
      BY <1>3, <2>1, <3>3, <3>4
  <2> QED
    BY <2>1, <2>2, <2>3
<1> QED
  BY <1>7, <1>8

\* Where the last step is said to have been a push or a new claim, it was one.
LEMMA DoorTells ==
  ASSUME Inv, Next
  PROVE  /\ last'.door \in {"merge", "snapshot", "forced"} =>
              \E payload \in Payloads :
                /\ Push(payload, last'.door)
                /\ \E existing, created, number, N :
                     /\ PushAdds(payload, last'.door, existing, created, number, N)
                     /\ last' = Pushed(payload, last'.door, created)
         /\ last'.door = "claims" => \E c : BridgeClaims(c) /\ ClaimsOf(active)' = c
<1>0. /\ Whole(table) /\ Other.door = "other" /\ Cut.door = "cut" /\ Claims.door = "claims"
      /\ claim \in [Sets -> [Instances -> Numbers \cup {None, NotMember}]]
  BY DEF Inv, Sides, Other, Cut, Claims
<1> DEFINE Told == last'.door = "claims" => \E c : BridgeClaims(c) /\ ClaimsOf(active)' = c
<1>1. ASSUME NEW payload \in Payloads, NEW door \in {"merge", "snapshot", "forced"},
             Push(payload, door)
      PROVE  /\ last'.door # "claims"
             /\ last'.door \in {"merge", "snapshot", "forced"} =>
                  /\ door = last'.door
                  /\ \E existing, created, number, N :
                       /\ PushAdds(payload, door, existing, created, number, N)
                       /\ last' = Pushed(payload, door, created)
  <2>1. PICK existing, created, number, N :
          PushAdds(payload, door, existing, created, number, N)
    BY <1>0, <1>1, PushEffect
  <2>2. last' \in {Pushed(payload, door, created), Cut}
    BY <2>1 DEF PushAdds
  <2>3. Pushed(payload, door, created).door = door
    BY DEF Pushed
  <2> QED
    BY <1>0, <2>1, <2>2, <2>3
<1>2. ASSUME NEW s \in Sets, CreateSet(s) \/ DeleteSet(s)
      PROVE  last' = Other
  BY <1>2 DEF CreateSet, DeleteSet
<1>3. ASSUME NEW s \in Sets, Activate(s)
      PROVE  last' \in {Claims, Cut} /\ Told
  <2>1. BridgeClaims(claim[s])
    BY <1>3 DEF Activate
  <2>2. ClaimsOf(active)' = claim[s]
    BY <1>3 DEF Activate, ClaimsOf
  <2> QED
    BY <1>0, <2>1, <2>2, BridgeClaimsKeeps
<1>4. ASSUME NEW s \in Sets, NEW M \in SUBSET Instances, ReplaceMembers(s, M)
      PROVE  last' \in {Other, Claims, Cut} /\ Told
  <2>1. PICK c :
          /\ s \in sets /\ UNCHANGED <<sets, active>> /\ claim' = [claim EXCEPT ![s] = c]
          /\ \/ active = s /\ BridgeClaims(c)
             \/ last' = Other /\ table' = table
    BY <1>4, ReplaceEffect
  <2>2. CASE active = s /\ BridgeClaims(c)
    <3>1. ClaimsOf(active)' = c
      BY <1>0, <2>1, <2>2 DEF ClaimsOf
    <3> QED
      BY <1>0, <2>2, <3>1, BridgeClaimsKeeps
  <2>3. CASE last' = Other
    BY <1>0, <2>3
  <2> QED
    BY <2>1, <2>2, <2>3
<1>5. ASSUME EndSetup \/ Inbox \/ EntryDoors
      PROVE  last' \in {Other, Cut}
  BY <1>0, <1>5, InboxKeeps, EntryDoorsKeep DEF EndSetup
<1> QED
  BY <1>0, <1>1, <1>2, <1>3, <1>4, <1>5, NextCases

\* After a complete snapshot the numbered rows are the controller's.
THEOREM SnapshotsAreAuthoritative == Distinct => (Spec => []SnapshotIsAuthoritative)
<1> SUFFICES ASSUME Distinct PROVE Spec => []SnapshotIsAuthoritative
  OBVIOUS
<1>1. Init => SnapshotIsAuthoritative
  BY DEF Init, Other, SnapshotIsAuthoritative
<1>2. SnapshotIsAuthoritative /\ Tabled /\ [Next]_vars => SnapshotIsAuthoritative'
  <2> SUFFICES ASSUME SnapshotIsAuthoritative, Tabled, [Next]_vars
               PROVE  SnapshotIsAuthoritative'
    OBVIOUS
  <2>1. CASE Next
    <3> SUFFICES ASSUME last'.door \in {"snapshot", "forced"}
                 PROVE  {table'.number[e] : e \in table'.rows} \ {None} = last'.sent
      BY DEF SnapshotIsAuthoritative
    <3>1. PICK payload, existing, created, number, N :
            /\ payload \in Payloads
            /\ PushAdds(payload, last'.door, existing, created, number, N)
            /\ last' = Pushed(payload, last'.door, created)
      BY <2>1, DoorTells DEF Tabled
    <3>2. last'.sent = Sent(payload)
      BY <3>1 DEF Pushed
    <3> QED
      BY <3>1, <3>2, SnapshotNumbers DEF Tabled
  <2>2. CASE UNCHANGED vars
    BY <2>2 DEF vars, SnapshotIsAuthoritative
  <2> QED
    BY <2>1, <2>2
<1> QED
  BY <1>1, <1>2, TableStaysWhole, PTL DEF Spec

-----------------------------------------------------------------------------
(* Claims reach the entries. *)

\* Calls, of any table and claims.
CallsIn(t, c, e, i) ==
  /\ e \in t.rows /\ t.holds[e] = None /\ t.number[e] # None
  /\ {j \in Members(c) : c[j] = t.number[e]} = {i}
  /\ Holding(t, i) = {}
  /\ <<e, i>> \notin t.rejected

\* A merge removes no row, so the bridge reads the table it leaves.
LEMMA MergeProposes ==
  ASSUME Whole(table), NEW payload, NEW existing, NEW created, NEW number, NEW N,
         PushAdds(payload, "merge", existing, created, number, N),
         last' = Pushed(payload, "merge", created),
         NEW e \in created, NEW i \in Instances, CallsIn(table', ClaimsOf(active), e, i)
  PROVE  <<e, i>> \in table'.open
<1> DEFINE c == ClaimsOf(active)
           removed == Removed(table, existing, Doomed(payload, "merge"))
           wide == Wide(created, number)
           after == Without(wide, removed)
           seen == [wide EXCEPT !.open = after.open]
<1>1. /\ Fresh(payload, created, number) /\ Whole(after) /\ table' = Opened(after, N)
      /\ Proposable(after, seen, c, e) # {} =>
            \E j \in Proposable(after, seen, c, e) : <<e, j>> \in N
  BY DEF PushAdds
<1>2. removed = {}
  BY DEF Removed, Doomed
<1>3. /\ wide.rows = table.rows \cup created /\ wide.holds = table.holds
      /\ wide.open = table.open /\ wide.rejected = table.rejected /\ wide \in Table
  BY <1>1, WideFields, WideWhole DEF Whole
<1>4. /\ after.rows = wide.rows /\ after.open = wide.open /\ after.rejected = wide.rejected
      /\ \A d \in Entries : after.number[d] = wide.number[d] /\ after.holds[d] = wide.holds[d]
  BY <1>2, <1>3 DEF Without, Table
<1>5. /\ seen.rows = wide.rows /\ seen.number = wide.number /\ seen.holds = wide.holds
      /\ seen.open = wide.open /\ seen.rejected = wide.rejected
  BY <1>3, <1>4 DEF Table
<1>6. /\ table'.rows = after.rows /\ table'.number = after.number /\ table'.holds = after.holds
      /\ table'.rejected = after.rejected /\ table'.open = after.open \cup N
  BY <1>1, OpenedFields DEF Whole
<1>7. e \in Entries /\ e \notin table.rows /\ seen.rows \subseteq Entries
  BY <1>1, <1>3, <1>5 DEF Fresh, Whole, Table
<1> HIDE DEF c, removed, wide, after, seen
<1>8. /\ e \in seen.rows /\ seen.holds[e] = None /\ seen.number[e] # None
      /\ seen.number[e] = after.number[e] /\ after.holds[e] = None
      /\ {j \in Members(c) : c[j] = seen.number[e]} = {i}
      /\ <<e, i>> \notin after.rejected
  BY <1>4, <1>5, <1>6, <1>7 DEF CallsIn, c
<1>9. Holding(seen, i) = {}
  <2>1. Holding(table', i) = {}
    BY DEF CallsIn
  <2> QED
    BY <1>4, <1>5, <1>6, <1>7, <2>1 DEF Holding
<1>10. Claimants(seen, c, after.number[e]) = {i}
  BY <1>8, <1>9, CallerIsClaimant
<1>11. OpenFor(after, e) = {}
  BY <1>3, <1>4, <1>7 DEF OpenFor, Whole, Scoped
<1>12. Proposable(after, seen, c, e) = {i}
  BY <1>8, <1>10, <1>11, CalledIsProposable
<1> QED
  BY <1>1, <1>6, <1>12

\* The bridge of a claim serves every row that is called, or finds it served.
LEMMA ClaimProposes ==
  ASSUME Whole(table), NEW c, BridgeClaims(c), last' = Claims,
         NEW e \in Entries, NEW i \in Instances, CallsIn(table', c, e, i)
  PROVE  OpenFor(table', e) # {}
<1> DEFINE S == {d \in table.rows :
                   table.holds[d] = None /\ Claimants(table, c, table.number[d]) # {}}
<1>1. Bridge(table, table, c, S, TRUE, Claims) /\ Claims # Cut
  BY DEF BridgeClaims, Claims, Cut, Other
<1>2. PICK N :
        /\ table' = Opened(table, N) /\ Proposals(table, S, N)
        /\ \A d \in S : Proposable(table, table, c, d) # {} =>
             \E j \in Proposable(table, table, c, d) : <<d, j>> \in N
  <2> HIDE DEF S
  <2>1. S \in SUBSET table.rows
    BY DEF S
  <2> QED
    BY <1>1, <2>1, BridgeEffect
<1>3. /\ table'.rows = table.rows /\ table'.number = table.number /\ table'.holds = table.holds
      /\ table'.rejected = table.rejected /\ table'.open = table.open \cup N
  BY <1>2, OpenedFields DEF Whole
<1>4. /\ e \in table.rows /\ table.holds[e] = None /\ table.number[e] # None
      /\ {j \in Members(c) : c[j] = table.number[e]} = {i}
      /\ Holding(table, i) = {} /\ <<e, i>> \notin table.rejected
  BY <1>3 DEF CallsIn, Holding
<1>5. Claimants(table, c, table.number[e]) = {i}
  <2> HIDE DEF S
  <2> QED
    BY ONLY <1>4, CallerIsClaimant, i \in Instances
<1>6. CASE OpenFor(table, e) # {}
  BY <1>3, <1>6 DEF OpenFor
<1>7. CASE OpenFor(table, e) = {}
  <2>1. Proposable(table, table, c, e) = {i}
    BY <1>4, <1>5, <1>7, CalledIsProposable
  <2>2. e \in S
    BY <1>4, <1>5
  <2>3. <<e, i>> \in table'.open
    BY <1>2, <1>3, <2>1, <2>2
  <2> QED
    BY <2>3 DEF OpenFor
<1> QED
  BY <1>6, <1>7

\* A claimed tool is proposed in both orders of claim and entry: by a merge
\* that brings its row, and by the claim of a number that has one.
THEOREM ClaimsReachTheirEntries == Spec => []ClaimsAreProposed
<1>1. Init => ClaimsAreProposed
  BY DEF Init, Other, ClaimsAreProposed
<1>2. ClaimsAreProposed /\ Tabled /\ [Next]_vars => ClaimsAreProposed'
  <2> SUFFICES ASSUME ClaimsAreProposed, Tabled, [Next]_vars PROVE ClaimsAreProposed'
    OBVIOUS
  <2>1. CASE Next
    <3>1. ASSUME last'.door = "merge", NEW e \in last'.served, NEW i \in Instances,
                 CallsIn(table', ClaimsOf(active)', e, i)
          PROVE  <<e, i>> \in table'.open
      <4>1. PICK payload, existing, created, number, N :
              /\ payload \in Payloads
              /\ PushAdds(payload, "merge", existing, created, number, N)
              /\ last' = Pushed(payload, "merge", created)
              /\ Push(payload, "merge")
        BY <2>1, <3>1, DoorTells DEF Tabled
      <4>2. ClaimsOf(active)' = ClaimsOf(active)
        BY <4>1 DEF Push, ClaimsOf
      <4>3. last'.served = created
        BY <4>1 DEF Pushed
      <4> QED
        BY <3>1, <4>1, <4>2, <4>3, MergeProposes DEF Tabled, Inv
    <3>2. ASSUME last'.door = "claims", NEW e \in Entries, NEW i \in Instances,
                 CallsIn(table', ClaimsOf(active)', e, i)
          PROVE  OpenFor(table', e) # {}
      <4>1. PICK c : BridgeClaims(c) /\ ClaimsOf(active)' = c
        BY <2>1, <3>2, DoorTells DEF Tabled
      <4>2. last' = Claims
        BY <3>2, <4>1, BridgeClaimsKeeps DEF Tabled, Inv, Cut, Other
      <4> QED
        BY <3>2, <4>1, <4>2, ClaimProposes DEF Tabled, Inv
    <3>3. \A e, i : Calls(e, i)' <=> CallsIn(table', ClaimsOf(active)', e, i)
      BY DEF Calls, CallsIn
    <3> QED
      BY <3>1, <3>2, <3>3 DEF ClaimsAreProposed
  <2>2. CASE UNCHANGED vars
    BY <2>2 DEF vars, ClaimsAreProposed, Calls, OpenFor, Holding, ClaimsOf
  <2> QED
    BY <2>1, <2>2
<1> QED
  BY <1>1, <1>2, TableStaysWhole, PTL DEF Spec

-----------------------------------------------------------------------------
(* What the runs leave aside. *)

\* No claim hides a mounted tool that the active set does not list: its row
\* always gets its note, as no bound entry has an open proposal.
THEOREM UnlistedToolsAreNoted == Spec => []UnlistedAlwaysNoted
<1>1. Tabled => UnlistedAlwaysNoted
  <2> SUFFICES ASSUME Tabled, NEW e \in Consumed
               PROVE  table.holds[e] \in Members(ClaimsOf(active)) \cup {None}
    BY DEF UnlistedAlwaysNoted
  <2>1. PICK x \in Shown : /\ x[2].state \in {"satisfied", "mismounted", "pending bind"}
                           /\ x[2].entry = e
    BY DEF Consumed
  <2>2. PICK i \in Members(ClaimsOf(active)) : \E l \in Lines(table, i, ClaimsOf(active)[i]) :
          x = <<i, l>>
    BY DEF Shown
  <2>3. PICK l \in Lines(table, i, ClaimsOf(active)[i]) : x = <<i, l>>
    BY <2>2
  <2>4. l.state \in {"satisfied", "mismounted", "pending bind"} /\ l.entry = e
    BY <2>1, <2>3
  <2> DEFINE n == ClaimsOf(active)[i]
  <2> HIDE DEF n
  <2>5. l \in Lines(table, i, n)
    BY DEF n
  <2>6. CASE Holding(table, i) # {}
    <3>1. PICK d \in Holding(table, i) : l.entry = d
      BY <2>5, <2>6 DEF Lines
    <3> QED
      BY <2>4, <3>1 DEF Holding
  <2>7. CASE Holding(table, i) = {} /\ Named(table, i) # {}
    <3>1. PICK d \in Named(table, i) : l = [state |-> "pending bind", entry |-> d]
      BY <2>5, <2>7 DEF Lines
    <3>2. l.entry = d
      BY <3>1
    <3>3. <<e, i>> \in table.open /\ e \in Entries /\ i \in Instances
      BY <2>4, <3>2 DEF Named, Tabled, Inv, Whole, Table, Members
    <3> QED
      BY <3>3 DEF Tabled, Inv, Whole, OpenUnbound
  <2>8. CASE Holding(table, i) = {} /\ Named(table, i) = {}
    <3>1. CASE n # None /\ AtNumber(table, n) # {}
      <4>1. PICK d \in AtNumber(table, n) :
              l = [state |-> IF table.holds[d] = None THEN "pending bind" ELSE "blocked",
                   entry |-> d]
        BY <2>5, <2>8, <3>1 DEF Lines
      <4> QED
        BY <2>4, <4>1
    <3>2. CASE ~(n # None /\ AtNumber(table, n) # {})
      <4>1. l = [state |-> "requested", entry |-> None]
        BY <2>5, <2>8, <3>2 DEF Lines
      <4> QED
        BY <2>4, <4>1
    <3> QED
      BY <3>1, <3>2
  <2> QED
    BY <2>6, <2>7, <2>8
<1> QED
  BY <1>1, TableStaysWhole, PTL

\* An unforced snapshot leaves one of the rows that have a number, if there
\* were any: only force removes them all.
THEOREM OnlyForceWipesTables == Spec => OnlyForceWipes
<1>1. ASSUME Tabled, Next, last'.door = "snapshot"
      PROVE  LET numbered == {e \in table.rows : table.number[e] # None} IN
             numbered = {} \/ numbered \cap table'.rows # {}
  <2>1. PICK payload, existing, created, number, N :
          /\ payload \in Payloads
          /\ PushAdds(payload, "snapshot", existing, created, number, N)
          /\ Push(payload, "snapshot")
    BY <1>1, DoorTells DEF Tabled
  <2> DEFINE doomed == Known \ Sent(payload)
             removed == Removed(table, existing, doomed)
             after == Without(Wide(created, number), removed)
  <2>2. ~LikelyPartial(doomed, Known, Sent(payload))
    BY <1>1, <2>1, PushEffect DEF Tabled, Inv, Doomed
  <2>3. /\ existing \in [Known -> table.rows]
        /\ \A n \in Known : existing[n] \in AtNumber(table, n)
        /\ Fresh(payload, created, number) /\ Whole(after) /\ table' = Opened(after, N)
    BY <2>1 DEF PushAdds, Doomed
  <2>4. \A n \in Known : /\ existing[n] \in table.rows /\ table.number[existing[n]] = n
                         /\ n # None
    BY <2>3, NoneAssumption DEF AtNumber, Known
  <2>5. table'.rows = (table.rows \cup created) \ removed
    <3>1. table'.rows = after.rows
      BY <2>3, OpenedFields DEF Whole
    <3>2. Wide(created, number).rows = table.rows \cup created
      BY <1>1, <2>3, WideFields DEF Tabled, Inv
    <3> QED
      BY <3>1, <3>2 DEF Without
  <2>6. \A n \in Known \ doomed : existing[n] \in table'.rows
    BY <2>4, <2>5 DEF Removed
  <2>7. doomed # Known \/ Known = {}
    <3> SUFFICES ASSUME doomed = Known PROVE Known = {}
      OBVIOUS
    <3>1. existing \in Injection(Known, table.rows)
      BY <2>3, <2>4 DEF Injection, IsInjective
    <3>2. IsFiniteSet(table.rows)
      BY <1>1, EntriesAssumption, FS_Subset DEF Tabled, Inv, Whole, Table
    <3>3. IsFiniteSet(Known)
      BY <3>1, <3>2, FS_Injection
    <3>4. Cardinality(Known) \in Nat
      BY <3>3, FS_CardinalityType
    <3>5. Known = {} \/ ~(Cardinality(Known) * 2 > Cardinality(Known))
      BY <2>2 DEF LikelyPartial
    <3>6. Known = {} \/ Cardinality(Known) = 0
      BY <3>4, <3>5
    <3> QED
      BY <3>3, <3>6, FS_EmptySet
  <2>8. CASE Known = {}
    BY <1>1, <2>8 DEF Known, AtNumber, Tabled, Inv, Whole, Table
  <2>9. CASE doomed # Known
    <3>1. PICK n \in Known \ doomed : TRUE
      BY <2>9
    <3> QED
      BY <2>4, <2>6, <3>1
  <2> QED
    BY <2>7, <2>8, <2>9
<1>2. Tabled /\ [Next]_vars =>
        [last'.door = "snapshot" =>
           LET numbered == {e \in table.rows : table.number[e] # None} IN
           numbered = {} \/ numbered \cap table'.rows # {}]_vars
  BY <1>1
<1> QED
  BY <1>2, TableStaysWhole, PTL DEF Spec, OnlyForceWipes

\* While its member stays in a set, no push of either side forgets a claimed number.
THEOREM ClaimsAreNotForgotten == Spec => ClaimsAreDurable
<1>1. ASSUME Inv, Next, NEW s \in Sets, NEW i \in Instances, claim[s][i] \in Numbers
      PROVE  claim'[s][i] # None
  <2>1. claim[s][i] # None /\ NoClaims[i] # None /\ None \notin Numbers
    BY <1>1, NoneAssumption, NotMemberAssumption DEF NoClaims
  <2>2. ASSUME NEW r \in Sets, CreateSet(r) \/ DeleteSet(r) PROVE claim'[s][i] # None
    BY <1>1, <2>1, <2>2 DEF CreateSet, DeleteSet, Inv, Sides
  <2>3. ASSUME NEW r \in Sets, NEW M \in SUBSET Instances, ReplaceMembers(r, M)
        PROVE  claim'[s][i] # None
    <3>1. PICK number \in [M -> Numbers \cup {None}] :
            claim' = [claim EXCEPT ![r] = NewClaims(r, M, number)]
      BY <1>1, <2>3, ReplaceEffect
    <3>2. claim'[s] = IF s = r THEN NewClaims(r, M, number) ELSE claim[s]
      BY <1>1, <3>1 DEF Inv, Sides
    <3>3. CASE s = r /\ i \in M
      <4>1. claim'[s][i] = Claimed(claim[s][i], number[i])
        BY <3>2, <3>3 DEF NewClaims
      <4>2. claim[s][i] # NotMember
        BY <1>1, NotMemberAssumption
      <4> QED
        BY <2>1, <4>1, <4>2 DEF Claimed
    <3>4. CASE s = r /\ i \notin M
      BY <2>1, <3>2, <3>4, NotMemberAssumption DEF NewClaims
    <3>5. CASE s # r
      BY <2>1, <3>2, <3>5
    <3> QED
      BY <3>3, <3>4, <3>5
  <2>4. ASSUME claim' = claim PROVE claim'[s][i] # None
    BY <2>1, <2>4
  <2> QED
    BY <1>1, <2>2, <2>3, <2>4, NextCases, PushEffect, InboxKeeps, EntryDoorsKeep
    DEF Activate, EndSetup, Inv
<1>2. Tabled /\ [Next]_vars =>
        [\A s \in Sets, i \in Instances : claim[s][i] \in Numbers => claim'[s][i] # None]_vars
  BY <1>1 DEF Tabled
<1> QED
  BY <1>2, TableStaysWhole, PTL DEF Spec, ClaimsAreDurable

-----------------------------------------------------------------------------
(* The setups. *)

\* Inductive as it stands: what a request remembers of a setup only matters
\* to which row it ends, and ending any row at all keeps each conjunct.
SetupsInv == SetupsTypeOK /\ OneActive

Setup == [machine : Machines \cup {Nil}, set : ToolSets \cup {Nil},
          status : {"unborn", "active", "ended"}]

\* The three ways a step treats the table of setups.
Ends(m) == setup' = [setup EXCEPT ![m] = Ended(@)]
Inserts(m, r) ==
  /\ setup[m] = Unborn
  /\ IndexAllows(r.machine)
  /\ setup' = [setup EXCEPT ![m] = [machine |-> r.machine, set |-> r.set,
                                    status |-> "active"]]
SetupStep ==
  \/ UNCHANGED setup
  \/ \E m \in Maps \cup {Nil} : Ends(m)
  \/ \E m \in Maps, r \in SetupRequest : Inserts(m, r)

\* Every step of every handler ends one row, inserts one the index accepts, or
\* leaves the table alone.
LEMMA StepsOfTheTable == SetupsTypeOK /\ [SetupsNext]_setupVars => SetupStep
<1> SUFFICES ASSUME SetupsTypeOK, [SetupsNext]_setupVars PROVE SetupStep
  OBVIOUS
<1>1. CASE UNCHANGED setupVars
  BY <1>1 DEF setupVars, SetupStep
<1>2. ASSUME NEW w \in Workers, Serve(w) PROVE SetupStep
  <2> DEFINE r == request[w]
  <2>0. r \in SetupRequest /\ r.map \in Maps \cup {Nil}
    BY DEF SetupsTypeOK, SetupRequest
  <2>1. CASE EndPrior(w)
    BY <2>0, <2>1 DEF EndPrior, SetupStep, Ends
  <2>2. CASE FinishEnd(w)
    BY <2>0, <2>2 DEF FinishEnd, SetupStep, Ends
  <2>3. CASE InsertActive(w)
    <3>1. PICK m \in Maps : Inserts(m, r)
      BY <2>3 DEF InsertActive, Inserts
    <3> QED
      BY <2>0, <3>1 DEF SetupStep
  <2>4. CASE Abandon(w)
    BY <2>4 DEF Abandon, SetupStep
  <2>5. ASSUME NEW s \in ToolSets, CreateToolSet(w, s) \/ DeleteToolSet(w, s) PROVE SetupStep
    BY <2>5 DEF CreateToolSet, DeleteToolSet, SetupStep
  <2>6. ASSUME NEW c \in Machines, NEW s \in ToolSets, StartActivate(w, c, s) PROVE SetupStep
    BY <2>6 DEF StartActivate, SetupStep
  <2>7. ASSUME NEW m \in Maps, StartEnd(w, m) \/ EndAgain(w, m) PROVE SetupStep
    BY <2>7 DEF StartEnd, EndAgain, SetupStep, setupVars
  <2> QED
    BY <1>2, <2>1, <2>2, <2>3, <2>4, <2>5, <2>6, <2>7 DEF Serve
<1> QED
  BY <1>1, <1>2 DEF SetupsNext

LEMMA EndedTyped ==
  ASSUME NEW r \in Setup
  PROVE  /\ Ended(r) \in Setup
         /\ Ended(r).machine = r.machine /\ Ended(r).set = r.set
         /\ Ended(r).status = "ended"
BY DEF Ended, Setup

\* The table keeps its type and the invariant, whichever way it changes.
LEMMA TableStep ==
  ASSUME setup \in [Maps -> Setup], OneActive, SetupStep
  PROVE  setup' \in [Maps -> Setup] /\ OneActive'
<1>1. CASE UNCHANGED setup
  BY <1>1 DEF OneActive
<1>2. ASSUME NEW m \in Maps \cup {Nil}, Ends(m)
      PROVE  setup' \in [Maps -> Setup] /\ OneActive'
  <2>1. CASE m \notin Maps
    <3>1. setup' = setup
      BY <1>2, <2>1 DEF Ends
    <3> QED
      BY <3>1 DEF OneActive
  <2>2. CASE m \in Maps
    <3>1. setup[m] \in Setup
      BY <2>2
    <3>2. setup' = [setup EXCEPT ![m] = Ended(setup[m])]
      BY <1>2 DEF Ends
    <3>3. setup' \in [Maps -> Setup]
      BY <3>1, <3>2, EndedTyped
    <3>4. setup'[m].status = "ended"
      BY <2>2, <3>1, <3>2, EndedTyped DEF Setup
    <3>5. \A n \in Maps \ {m} : setup'[n] = setup[n]
      BY <3>2
    <3>6. OneActive'
      BY <3>4, <3>5 DEF OneActive
    <3> QED
      BY <3>3, <3>6
  <2> QED
    BY <2>1, <2>2
<1>3. ASSUME NEW m \in Maps, NEW r \in SetupRequest, Inserts(m, r)
      PROVE  setup' \in [Maps -> Setup] /\ OneActive'
  <2> DEFINE new == [machine |-> r.machine, set |-> r.set,
                     status |-> "active"]
  <2>1. new \in Setup
    BY DEF SetupRequest, Setup
  <2>2. setup' = [setup EXCEPT ![m] = new]
    BY <1>3 DEF Inserts
  <2>3. setup' \in [Maps -> Setup]
    BY <2>1, <2>2
  <2>4. setup'[m] = new /\ \A n \in Maps \ {m} : setup'[n] = setup[n]
    BY <2>2
  <2>5. \A n \in Maps : setup[n].status = "active" => setup[n].machine # r.machine
    BY <1>3 DEF Inserts, IndexAllows, ActiveOn
  <2>6. OneActive'
    BY <2>4, <2>5 DEF OneActive
  <2> QED
    BY <2>3, <2>6
<1> QED
  BY <1>1, <1>2, <1>3 DEF SetupStep

\* The other variables keep their types.
LEMMA SessionStep ==
  ASSUME SetupsTypeOK, [SetupsNext]_setupVars
  PROVE  toolsets' \in SUBSET ToolSets /\ request' \in [Workers -> SetupRequest]
<1>0. Idle \in SetupRequest
  BY DEF Idle, SetupRequest
<1>1. CASE UNCHANGED setupVars
  BY <1>1 DEF setupVars, SetupsTypeOK
<1>2. ASSUME NEW w \in Workers, Serve(w)
      PROVE  toolsets' \in SUBSET ToolSets /\ request' \in [Workers -> SetupRequest]
  <2>0. request[w] \in SetupRequest
    BY DEF SetupsTypeOK
  <2>1. CASE EndPrior(w)
    <3>1. [request[w] EXCEPT !.stage = "insert", !.map = Nil] \in SetupRequest
      BY <2>0 DEF SetupRequest
    <3> QED
      BY <2>1, <3>1 DEF EndPrior, Continue, SetupsTypeOK
  <2>2. CASE FinishEnd(w) \/ Abandon(w) \/ InsertActive(w)
    BY <1>0, <2>2 DEF FinishEnd, Abandon, InsertActive, Continue, SetupsTypeOK
  <2>3. ASSUME NEW s \in ToolSets, CreateToolSet(w, s) \/ DeleteToolSet(w, s)
        PROVE  toolsets' \in SUBSET ToolSets /\ request' \in [Workers -> SetupRequest]
    BY <2>3 DEF CreateToolSet, DeleteToolSet, SetupsTypeOK
  <2>4. ASSUME NEW c \in Machines, NEW s \in ToolSets, StartActivate(w, c, s)
        PROVE  toolsets' \in SUBSET ToolSets /\ request' \in [Workers -> SetupRequest]
    <3>1. [Idle EXCEPT !.stage = "insert", !.machine = c, !.set = s] \in SetupRequest
      BY DEF Idle, SetupRequest
    <3>2. \A m \in Maps :
            [stage |-> "switch", machine |-> c, set |-> s, map |-> m] \in SetupRequest
      BY DEF SetupRequest
    <3> QED
      BY <2>4, <3>1, <3>2 DEF StartActivate, Continue, ActiveOn, SetupsTypeOK
  <2>5. ASSUME NEW m \in Maps, StartEnd(w, m) \/ EndAgain(w, m)
        PROVE  toolsets' \in SUBSET ToolSets /\ request' \in [Workers -> SetupRequest]
    <3>1. [Idle EXCEPT !.stage = "end", !.map = m] \in SetupRequest
      BY DEF Idle, SetupRequest
    <3> QED
      BY <2>5, <3>1 DEF StartEnd, EndAgain, Continue, setupVars, SetupsTypeOK
  <2> QED
    BY <1>2, <2>1, <2>2, <2>3, <2>4, <2>5 DEF Serve
<1> QED
  BY <1>1, <1>2 DEF SetupsNext

LEMMA SetupsInvariance == SetupsSpec => []SetupsInv
<1>1. SetupsInit => SetupsInv
  BY NilAssumption DEF SetupsInit, SetupsInv, SetupsTypeOK, OneActive, Unborn, Idle, SetupRequest
<1>2. SetupsInv /\ [SetupsNext]_setupVars => SetupsInv'
  <2> SUFFICES ASSUME SetupsInv, [SetupsNext]_setupVars PROVE SetupsInv'
    OBVIOUS
  <2>1. SetupsTypeOK /\ setup \in [Maps -> Setup] /\ OneActive
    BY DEF SetupsInv, SetupsTypeOK, Setup
  <2>2. setup' \in [Maps -> Setup] /\ OneActive'
    BY <2>1, StepsOfTheTable, TableStep
  <2>3. toolsets' \in SUBSET ToolSets /\ request' \in [Workers -> SetupRequest]
    BY <2>1, SessionStep
  <2> QED
    BY <2>2, <2>3 DEF SetupsInv, SetupsTypeOK, Setup
<1> QED
  BY <1>1, <1>2, PTL DEF SetupsSpec

\* Every table and every session of a behaviour is well typed.
THEOREM SetupsTypeCorrect == SetupsSpec => []SetupsTypeOK
<1>1. SetupsInv => SetupsTypeOK
  BY DEF SetupsInv
<1> QED
  BY <1>1, SetupsInvariance, PTL

\* A machine never has two active setups, for any number of racing requests,
\* machines and sets (the index uq_active_map_per_machine).
THEOREM OneActiveAlways == SetupsSpec => []OneActive
<1>1. SetupsInv => OneActive
  BY DEF SetupsInv
<1> QED
  BY <1>1, SetupsInvariance, PTL

\* No step of any handler rewrites or revives a setup of the history.
THEOREM HistoryNeverRewritten == SetupsSpec => HistoryIsAppendOnly
<1> DEFINE Kept(m) == setup[m].status # "unborn" =>
                        /\ setup'[m].machine = setup[m].machine
                        /\ setup'[m].set = setup[m].set
                        /\ setup'[m].status \in {setup[m].status, "ended"}
<1>1. SetupsInv /\ [SetupsNext]_setupVars => [\A m \in Maps : Kept(m)]_setupVars
  <2> SUFFICES ASSUME SetupsInv, [SetupsNext]_setupVars, NEW m \in Maps PROVE Kept(m)
    OBVIOUS
  <2>1. setup \in [Maps -> Setup] /\ SetupStep
    BY StepsOfTheTable DEF SetupsInv, SetupsTypeOK, Setup
  <2>2. CASE UNCHANGED setup
    BY <2>2
  <2>3. ASSUME NEW n \in Maps \cup {Nil}, Ends(n) PROVE Kept(m)
    <3>1. setup'[m] \in {setup[m], Ended(setup[m])}
      BY <2>1, <2>3 DEF Ends
    <3> QED
      BY <2>1, <3>1, EndedTyped
  <2>4. ASSUME NEW n \in Maps, NEW r \in SetupRequest, Inserts(n, r) PROVE Kept(m)
    <3>1. setup[n].status = "unborn"
      BY <2>4 DEF Inserts, Unborn
    <3>2. m # n => setup'[m] = setup[m]
      BY <2>1, <2>4 DEF Inserts
    <3> QED
      BY <3>1, <3>2
  <2> QED
    BY <2>1, <2>2, <2>3, <2>4 DEF SetupStep
<1> QED
  BY <1>1, SetupsInvariance, PTL DEF SetupsSpec, HistoryIsAppendOnly
=============================================================================
