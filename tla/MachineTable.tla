---------------------------- MODULE MachineTable ----------------------------
(***************************************************************************)
(* One machine's tool table, the set that is active on it, and the view    *)
(* that compares the two: sync_entries, the bridge from claimed numbers to *)
(* proposals, and reconcile_machine (api/tool_table_entry_records.py,      *)
(* binding_v2.py, set_members of api/tool_set_records.py, activate of      *)
(* api/machine_set_maps.py).                                               *)
(*                                                                         *)
(* Requests are served one at a time here; Binding and Setups interleave   *)
(* them.  Every proposal commits on its own, so a request may be cut off   *)
(* after any of them.  Rows of an unordered query may come in any order.   *)
(***************************************************************************)
EXTENDS Naturals, FiniteSets

CONSTANTS
  Entries,   \* ids of the machine's entry rows
  Instances, \* tool instances, all of which exist
  Numbers,   \* tool numbers
  Sets,      \* ids of tool sets
  Matches,   \* <<entry, instance>> whose measured diameters score >= threshold
  Distinct,  \* TRUE: a client sends each number at most once, as a table has it
  None       \* the JSON null

NotMember == <<>>   \* the claim of an instance that is not in the set

ASSUME MatchesAssumption == Matches \subseteq Entries \X Instances
ASSUME DistinctAssumption == Distinct \in BOOLEAN
ASSUME NoneAssumption == None \notin Entries \cup Instances \cup Numbers \cup Sets
ASSUME NotMemberAssumption == NotMember \notin Numbers \cup {None}
ASSUME EntriesAssumption == IsFiniteSet(Entries)

VARIABLES
  table,   \* the machine's entry rows and the proposals that name them
  claim,   \* claim[s][i]: the number set s claims for instance i
  sets,    \* the tool sets that exist
  active,  \* the set of the machine's active setup
  last     \* history: the request the last step served

vars == <<table, claim, sets, active, last>>

Table == [rows     : SUBSET Entries,
          number   : [Entries -> Numbers \cup {None}],
          holds    : [Entries -> Instances \cup {None}],
          open     : SUBSET (Entries \X Instances),
          rejected : SUBSET (Entries \X Instances)]

\* door "cut": the request did not run to its end.  sent: the numbers of a
\* snapshot.  served: the rows for which the request ran the bridge.
Request == [door : {"other", "merge", "snapshot", "forced", "claims", "cut"},
            sent : SUBSET Numbers, served : SUBSET Entries]
Other == [door |-> "other", sent |-> {}, served |-> {}]
Cut == [Other EXCEPT !.door = "cut"]

\* Beyond its type, a table says nothing of rows that do not exist: DELETE and
\* snapshots drop the proposals of the rows they remove.
TypeOK ==
  /\ table \in Table
  /\ table.open \cup table.rejected \subseteq table.rows \X Instances
  /\ \A e \in Entries \ table.rows : table.number[e] = None /\ table.holds[e] = None
  /\ claim \in [Sets -> [Instances -> Numbers \cup {None, NotMember}]]
  /\ sets \in SUBSET Sets
  /\ active \in Sets \cup {None}
  /\ last \in Request

Init ==
  /\ table = [rows |-> {}, number |-> [e \in Entries |-> None],
              holds |-> [e \in Entries |-> None], open |-> {}, rejected |-> {}]
  /\ claim = [s \in Sets |-> [i \in Instances |-> NotMember]]
  /\ sets = {}
  /\ active = None
  /\ last = Other

-----------------------------------------------------------------------------
(* The view: what a table t says about the claims c of a set. *)

AtNumber(t, n) == {e \in t.rows : t.number[e] = n}
Holding(t, i) == {e \in t.rows : t.holds[e] = i}
Named(t, i) == {e \in t.rows : <<e, i>> \in t.open}
OpenFor(t, e) == {i \in Instances : <<e, i>> \in t.open}

\* The claims of set s, none if it was deleted.
NoClaims == [i \in Instances |-> NotMember]
ClaimsOf(s) == IF s \in sets THEN claim[s] ELSE NoClaims
Members(c) == {i \in Instances : c[i] # NotMember}

\* Mutant of BoundState: mounted somewhere is good enough.
BoundStateAnywhere(claimed, observed) == "satisfied"

BoundState(claimed, observed) ==
  IF claimed \in {None, observed} THEN "satisfied" ELSE "mismounted"

\* reconcile_set_membership for an instance i that claims number n: its state
\* and the entry involved, one result for each order the queries may return.
Lines(t, i, n) ==
  IF Holding(t, i) # {} THEN
    {[state |-> BoundState(n, t.number[e]), entry |-> e] : e \in Holding(t, i)}
  ELSE IF Named(t, i) # {} THEN
    {[state |-> "pending bind", entry |-> e] : e \in Named(t, i)}
  ELSE IF n # None /\ AtNumber(t, n) # {} THEN
    {[state |-> IF t.holds[e] = None THEN "pending bind" ELSE "blocked",
      entry |-> e] : e \in AtNumber(t, n)}
  ELSE {[state |-> "requested", entry |-> None]}

\* reconcile_machine: the lines of the active set, the rows they consume (all
\* others become notes) and the headline.
Shown == UNION {{<<i, l>> : l \in Lines(table, i, ClaimsOf(active)[i])} :
                  i \in Members(ClaimsOf(active))}
Consumed == {x[2].entry : x \in {y \in Shown :
               y[2].state \in {"satisfied", "mismounted", "pending bind"}}}
Ready == active # None /\ \A x \in Shown : x[2].state = "satisfied"

-----------------------------------------------------------------------------
(* The bridge from claims to proposals. *)

\* propose_for_entry: a match nobody rejected.
Geometry(t, e) == {i \in Instances : <<e, i>> \in Matches \ t.rejected}

\* Mutant of Claimants: pending members are left to the geometry path.
ClaimantsRequestedOnly(seen, c, n) ==
  {i \in Members(c) : n # None /\ c[i] = n /\
     \E l \in Lines(seen, i, n) : l.state = "requested"}

\* requested_members_by_number: the members an entry at n may be taken for,
\* judged on the table the session sees.
Claimants(seen, c, n) ==
  {i \in Members(c) : n # None /\ c[i] = n /\
     \E l \in Lines(seen, i, n) : l.state \in {"requested", "pending bind"}}

\* Mutant of Tied: a rejected pair is proposed again when a set claims it.
TiedRegardless(t, e, i) == {i}

Tied(t, e, i) == IF <<e, i>> \in t.rejected THEN Geometry(t, e) ELSE {i}

\* propose_for_requested_entry: the instances it may open a proposal for.
Proposable(t, seen, c, e) ==
  LET C == Claimants(seen, c, t.number[e]) IN
  IF t.holds[e] # None \/ OpenFor(t, e) # {} THEN {}
  ELSE IF C = {} THEN Geometry(t, e)
  ELSE UNION {Tied(t, e, i) : i \in C}

\* The bridge over the rows S of t.  Each PROPOSE audit row commits what is
\* pending; durable: the request had committed before it came to the bridge.
Bridge(t, seen, c, S, durable, done) ==
  LET wanting == {e \in S : Proposable(t, seen, c, e) # {}} IN
  \E D \in SUBSET wanting :
    /\ durable \/ D # {} \/ wanting = {}
    /\ \E f \in [D -> Instances] :
         /\ \A e \in D : f[e] \in Proposable(t, seen, c, e)
         /\ table' = [t EXCEPT !.open = @ \cup {<<e, f[e]>> : e \in D}]
    /\ last' = IF D = wanting THEN done ELSE Cut

\* bridge_requested_claims: the unbound rows whose number the set claims.
BridgeClaims(c) ==
  LET S == {e \in table.rows :
              table.holds[e] = None /\ Claimants(table, c, table.number[e]) # {}}
  IN Bridge(table, table, c, S, TRUE, [Other EXCEPT !.door = "claims"])

-----------------------------------------------------------------------------
(* POST /sync: the controller's table. *)

\* Mutant of Without: a snapshot drops the rows and not their proposals.
WithoutRowsOnly(t, S) == [t EXCEPT !.rows = @ \ S]

\* The deletion of the rows S, with the proposals that name them.
Without(t, S) ==
  [rows     |-> t.rows \ S,
   number   |-> [e \in Entries |-> IF e \in S THEN None ELSE t.number[e]],
   holds    |-> [e \in Entries |-> IF e \in S THEN None ELSE t.holds[e]],
   open     |-> {p \in t.open : p[1] \notin S},
   rejected |-> {p \in t.rejected : p[1] \notin S}]

\* An unforced snapshot that would remove most of the table is refused.
LikelyPartial(doomed, known, sent) ==
  doomed # {} /\ (sent = {} \/ Cardinality(doomed) * 2 > Cardinality(known))

\* Mutant of Removed: a snapshot spares the rows that hold a tool.
RemovedUnbound(t, existing, doomed) ==
  {existing[n] : n \in doomed} \cap {e \in t.rows : t.holds[e] = None}

Removed(t, existing, doomed) == {existing[n] : n \in doomed}

\* payload[n]: how often the client sends number n.  existing keeps one row of
\* each number.  The session does not flush its deletes before the bridge has
\* read the table, so the bridge still sees the rows that a snapshot removes.
Push(payload, door) ==
  LET sent    == {n \in Numbers : payload[n] > 0}
      known   == {n \in Numbers : AtNumber(table, n) # {}}
      doomed  == IF door = "merge" THEN {} ELSE known \ sent
      missing == sent \ known
  IN /\ door = "snapshot" => ~LikelyPartial(doomed, known, sent)
     /\ \E existing \in [known -> table.rows], created \in SUBSET (Entries \ table.rows) :
          /\ \A n \in known : existing[n] \in AtNumber(table, n)
          /\ \E number \in [created -> missing] :
               /\ \A n \in missing :
                    Cardinality({e \in created : number[e] = n}) = payload[n]
               /\ LET removed == Removed(table, existing, doomed)
                      wide == [table EXCEPT !.rows = @ \cup created,
                                            !.number = [e \in Entries |->
                                               IF e \in created THEN number[e] ELSE @[e]]]
                      after == Without(wide, removed)
                      seen == [wide EXCEPT !.open = after.open]
                  IN Bridge(after, seen, ClaimsOf(active), created, FALSE,
                            [door |-> door, sent |-> sent, served |-> created])
     /\ UNCHANGED <<claim, sets, active>>

Payloads == [Numbers -> 0 .. (IF Distinct THEN 1 ELSE 2)]

-----------------------------------------------------------------------------
(* The set's side: sets, their members, and the setup. *)

CreateSet(s) ==
  /\ s \notin sets
  /\ active # s
  /\ sets' = sets \cup {s}
  /\ claim' = [claim EXCEPT ![s] = NoClaims]
  /\ last' = Other
  /\ UNCHANGED <<table, active>>

DeleteSet(s) ==
  /\ s \in sets
  /\ sets' = sets \ {s}
  /\ claim' = [claim EXCEPT ![s] = NoClaims]
  /\ last' = Other
  /\ UNCHANGED <<table, active>>

\* A number that is not sent keeps the stored claim of a member.
Claimed(stored, number) ==
  IF number # None THEN number ELSE IF stored = NotMember THEN None ELSE stored

\* set_members for the instances M, and the bridge if the set is active.
ReplaceMembers(s, M) ==
  /\ s \in sets
  /\ \E number \in [M -> Numbers \cup {None}] :
       LET c == [i \in Instances |-> IF i \in M THEN Claimed(claim[s][i], number[i])
                                     ELSE NotMember]
       IN /\ claim' = [claim EXCEPT ![s] = c]
          /\ IF active = s THEN BridgeClaims(c) ELSE last' = Other /\ UNCHANGED table
  /\ UNCHANGED <<sets, active>>

Activate(s) ==
  /\ s \in sets
  /\ active # s
  /\ active' = s
  /\ BridgeClaims(claim[s])
  /\ UNCHANGED <<claim, sets>>

EndSetup ==
  /\ active # None
  /\ active' = None
  /\ last' = Other
  /\ UNCHANGED <<table, claim, sets>>

-----------------------------------------------------------------------------
(* The other doors of an entry, each as one step. *)

ToTable(t) == table' = t /\ last' = Other /\ UNCHANGED <<claim, sets, active>>

\* POST of a single entry: a row without a number.
CreateEntry(e) ==
  /\ e \notin table.rows
  /\ ToTable([table EXCEPT !.rows = @ \cup {e}])

DeleteEntry(e) == e \in table.rows /\ ToTable(Without(table, {e}))

\* An observed tool number.
ObserveNumber(e, n) ==
  /\ e \in table.rows
  /\ Distinct => AtNumber(table, n) \subseteq {e}
  /\ ToTable([table EXCEPT !.number[e] = n])

\* bind: the open proposal of e is resolved, as rejected if it names another.
Installed(t, e, i) ==
  LET others == {<<e, j>> : j \in OpenFor(t, e)} \ {<<e, i>>} IN
  [t EXCEPT !.holds[e] = i, !.open = @ \ {<<e, j>> : j \in Instances},
            !.rejected = @ \cup others]

Bind(e, i) ==
  /\ e \in table.rows
  /\ Holding(table, i) \subseteq {e}
  /\ ToTable(Installed(table, e, i))

\* bind with move=true.
Move(e, i) ==
  /\ e \in table.rows
  /\ \E o \in Holding(table, i) \ {e} :
       ToTable(Installed([table EXCEPT !.holds[o] = None], e, i))

Unbind(e) ==
  /\ e \in table.rows
  /\ ToTable([table EXCEPT !.holds[e] = None])

Confirm(e, i) ==
  /\ <<e, i>> \in table.open
  /\ Holding(table, i) \subseteq {e}
  /\ ToTable([table EXCEPT !.holds[e] = i, !.open = @ \ {<<e, i>>}])

Reject(e, i) ==
  /\ <<e, i>> \in table.open
  /\ ToTable([table EXCEPT !.open = @ \ {<<e, i>>}, !.rejected = @ \cup {<<e, i>>}])

\* The inbox proposes for every unbound entry, by geometry alone.
Inbox ==
  /\ Bridge(table, table, NoClaims, {e \in table.rows : table.holds[e] = None}, TRUE, Other)
  /\ UNCHANGED <<claim, sets, active>>

Next ==
  \/ \E payload \in Payloads, door \in {"merge", "snapshot", "forced"} : Push(payload, door)
  \/ \E s \in Sets : CreateSet(s) \/ DeleteSet(s) \/ Activate(s)
                       \/ \E M \in SUBSET Instances : ReplaceMembers(s, M)
  \/ EndSetup \/ Inbox
  \/ \E e \in Entries :
       \/ CreateEntry(e) \/ DeleteEntry(e) \/ Unbind(e)
       \/ \E n \in Numbers : ObserveNumber(e, n)
       \/ \E i \in Instances : Bind(e, i) \/ Move(e, i) \/ Confirm(e, i) \/ Reject(e, i)

Spec == Init /\ [][Next]_vars

-----------------------------------------------------------------------------
(* What holds while a controller sends each number once. *)

\* Ready means that posted code runs the right tools: at every number the
\* active set claims there is a row, and whatever is there is the claimed tool
\* (docs/UBIQUITOUS_LANGUAGE.md:47).  Two members may then not claim one number.
ReadyMeansRightTools ==
  Ready => \A i \in Members(ClaimsOf(active)) :
    LET n == ClaimsOf(active)[i] IN
    n # None => AtNumber(table, n) # {}
                /\ \A e \in AtNumber(table, n) : table.holds[e] = i

\* A mounted tool that the active set does not list always gets its note: no
\* claim ever consumes its row, which takes that a bound entry has no open
\* proposal, by whatever door it was bound (docs/ROUNDTRIP.md:50).
UnlistedAlwaysNoted ==
  \A e \in Consumed : table.holds[e] \in Members(ClaimsOf(active)) \cup {None}

\* A rejected pair is not proposed again by the inbox, nor when a set claims
\* the entry's number later, nor on the next push (binding_v2.py:360).
RejectedStaysRejected == table.open \cap table.rejected = {}

\* After a complete snapshot the numbered rows are those of the controller, no
\* more and no less (api/tool_table_entry_records.py:176-177).
SnapshotIsAuthoritative ==
  last.door \in {"snapshot", "forced"} =>
    {table.number[e] : e \in table.rows} \ {None} = last.sent

\* Claim c's number is unbound e's, no other member claims it, its tool is
\* nowhere on the machine, and no human has ruled it out for e.
Calls(e, i) ==
  LET c == ClaimsOf(active) IN
  /\ e \in table.rows /\ table.holds[e] = None /\ table.number[e] # None
  /\ {j \in Members(c) : c[j] = table.number[e]} = {i}
  /\ Holding(table, i) = {}
  /\ <<e, i>> \notin table.rejected

\* A claimed tool is proposed in both orders of claim and entry: a merged row
\* is proposed for the tool claimed there, and a new claim leaves no row at its
\* number without an open proposal (docs/ROUNDTRIP.md:119-124).
ClaimsAreProposed ==
  /\ last.door = "merge" =>
       \A e \in last.served, i \in Instances : Calls(e, i) => <<e, i>> \in table.open
  /\ last.door = "claims" =>
       \A e \in Entries, i \in Instances : Calls(e, i) => OpenFor(table, e) # {}

\* Only force removes a whole table: of the rows a controller has numbered, an
\* unforced snapshot always leaves one (api/tool_table_entry_records.py:177-178).
OnlyForceWipes ==
  [][last'.door = "snapshot" =>
       LET numbered == {e \in table.rows : table.number[e] # None} IN
       numbered = {} \/ numbered \cap table'.rows # {}]_vars

\* A claimed number is durable: while its member stays in the set no push from
\* either side makes it unknown again (api/tool_set_records.py:247-249).
ClaimsAreDurable ==
  [][\A s \in Sets, i \in Instances :
       claim[s][i] \in Numbers => claim'[s][i] # None]_vars

-----------------------------------------------------------------------------
(* What the repository says and the code does not do. *)

\* "For each entry CREATED + still UNBOUND in this push, open a request-aware
\* proposal" (api/tool_table_entry_records.py:263-265): also in a snapshot.
SnapshotClaimsAreProposed ==
  last.door \in {"snapshot", "forced"} =>
    \A e \in last.served, i \in Instances : Calls(e, i) => <<e, i>> \in table.open
=============================================================================
