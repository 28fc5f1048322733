------------------------------ MODULE Binding ------------------------------
(***************************************************************************)
(* The binding doors: which physical tool instance sits in which           *)
(* tool-table entry, and the proposals a human confirms or rejects         *)
(* (api/tool_table_entry_records.py, api/instance_inbox.py, binding_v2.py, *)
(* delete_instance of api/tool_instance_records.py).                       *)
(*                                                                         *)
(* Every request runs on a thread of the server's pool with a database     *)
(* session of its own, so a handler is cut where another thread can see    *)
(* or change the tables: between the SELECTs that load its rows and the    *)
(* UPDATE that a commit flushes, and at every commit, of which             *)
(* create_audit_log makes one per audit row.  The SELECTs of one           *)
(* transaction are taken at one instant.  A write stores only what the     *)
(* handler changed relative to what it had loaded, as SQLAlchemy does.     *)
(***************************************************************************)
EXTENDS Naturals, FiniteSets

CONSTANTS
  Entries,    \* ids of tool-table entry rows; uuid4, never reused
  Instances,  \* ids of tool instance rows
  Proposals,  \* ids of entry_proposals rows
  Workers,    \* threads that serve requests
  Matches,    \* <<entry, instance>> whose measured diameters score >= threshold
  None        \* the SQL NULL

ASSUME NoneAssumption == None \notin Entries \cup Instances \cup Proposals
ASSUME MatchesAssumption == Matches \subseteq Entries \X Instances

VARIABLES
  entry,     \* tool_table_entry_records: life, unique column, canonical leaf
  instance,  \* tool_instance_records: life of each row
  proposal,  \* entry_proposals
  request    \* what each worker's session holds between two steps

vars == <<entry, instance, proposal, request>>

Life == {"unborn", "live", "gone"}
Status == {"unborn", "open", "confirmed", "rejected", "gone"}
Stage == {"idle", "mint", "vacate", "reload", "bind", "confirm", "reject",
          "unbind", "observe", "delete", "evict", "remove", "scan", "propose"}

\* An entry names its instance twice: in the column under the unique index
\* and in the canonical document (database/schema.py:277-288).
Row == [column : Instances \cup {None}, canonical : Instances \cup {None}]
Unbound == [column |-> None, canonical |-> None]

Request == [stage    : Stage,
            entry    : Entries \cup {None},    \* the entry the door names
            instance : Instances \cup {None},  \* the instance it installs
            proposal : Proposals \cup {None},  \* the proposal it resolves
            other    : Entries \cup {None},    \* the entry it vacates
            row      : Row,                    \* the row as it was loaded
            todo     : SUBSET Entries]         \* entries an inbox still visits

Idle == [stage |-> "idle", entry |-> None, instance |-> None,
         proposal |-> None, other |-> None, row |-> Unbound, todo |-> {}]

TypeOK ==
  /\ entry \in [Entries -> [life : Life, row : Row]]
  /\ instance \in [Instances -> Life]
  /\ proposal \in [Proposals -> [entry : Entries \cup {None},
                                 instance : Instances \cup {None},
                                 status : Status]]
  /\ request \in [Workers -> Request]

Init ==
  /\ entry = [e \in Entries |-> [life |-> "unborn", row |-> Unbound]]
  /\ instance = [i \in Instances |-> "unborn"]
  /\ proposal = [p \in Proposals |->
                   [entry |-> None, instance |-> None, status |-> "unborn"]]
  /\ request = [w \in Workers |-> Idle]

-----------------------------------------------------------------------------
(* Queries *)

Live(e) == e \in Entries /\ entry[e].life = "live"
Holders(i) == {e \in Entries : Live(e) /\ entry[e].row.column = i}
OpenFor(e) == {p \in Proposals : proposal[p].status = "open" /\ proposal[p].entry = e}

Rejected(e) == {proposal[p].instance : p \in
                  {q \in Proposals : proposal[q].status = "rejected"
                                     /\ proposal[q].entry = e}}

\* Every instance that propose_for_entry may pick for e: which of the equal
\* scores comes first is the order of an unordered query.
Candidates(e) ==
  {i \in Instances : instance[i] = "live" /\ <<e, i>> \in Matches} \ Rejected(e)

\* Mutant of IndexAllows: no unique index behind the handlers' own check.
IndexMissing(e, i) == TRUE

\* The unique index on bound_instance_id (NULLs exempt).
IndexAllows(e, i) ==
  i # None => \A o \in Entries \ {e} : entry[o].row.column # i

-----------------------------------------------------------------------------
(* Writes *)

\* Columns a flush writes: those whose value differs from the loaded one.
Flushed(now, loaded, new) ==
  [column    |-> IF new.column # loaded.column THEN new.column ELSE now.column,
   canonical |-> IF new.canonical # loaded.canonical
                 THEN new.canonical ELSE now.canonical]

\* The commit of one changed entry row.  An UPDATE of a deleted row, or one
\* the index refuses, raises: then only Abandon is left to the request.
Save(e, loaded, new) ==
  LET stored == Flushed(entry[e].row, loaded, new) IN
  /\ Live(e)
  /\ IndexAllows(e, stored.column)
  /\ entry' = [entry EXCEPT ![e].row = stored]

\* Mutant of Bound: confirm or bind writes the column and not the document.
BoundColumnOnly(i) == [column |-> i, canonical |-> None]

\* What _set_binding and confirm make of an entry row.
Bound(i) == [column |-> i, canonical |-> i]

\* Mutant of Resolution: an explicit bind leaves the open proposal open.
ResolutionSkipped(p, i) == "open"
\* close_open_proposal_on_bind: confirmed when it named the bound instance.
Resolution(p, i) == IF proposal[p].instance = i THEN "confirmed" ELSE "rejected"

Begin(w, r) == request[w] = Idle /\ request' = [request EXCEPT ![w] = r]
At(w, stage) == request[w].stage = stage
Continue(w, r) == request' = [request EXCEPT ![w] = r]
Finish(w) == Continue(w, Idle)

-----------------------------------------------------------------------------
(* Rows that come into being in one step: create_entry, create_instance. *)

CreateEntry(w, e) ==
  /\ request[w] = Idle
  /\ entry[e].life = "unborn"
  /\ entry' = [entry EXCEPT ![e].life = "live"]
  /\ UNCHANGED <<instance, proposal, request>>

CreateInstance(w, i) ==
  /\ request[w] = Idle
  /\ instance[i] = "unborn"
  /\ instance' = [instance EXCEPT ![i] = "live"]
  /\ UNCHANGED <<entry, proposal, request>>

-----------------------------------------------------------------------------
(* POST /{entry}/bind.  The instance id is the caller's: the handler does  *)
(* not look it up, so one that was deleted since it was listed binds too.  *)

AnOpenProposal(e, p) == IF OpenFor(e) = {} THEN p = None ELSE p \in OpenFor(e)

StartBind(w, e, i) ==
  /\ Live(e)
  /\ instance[i] # "unborn"
  /\ Holders(i) \ {e} = {}
  /\ \E p \in Proposals \cup {None} :
       /\ AnOpenProposal(e, p)
       /\ Begin(w, [Idle EXCEPT !.stage = "bind", !.entry = e, !.instance = i,
                                !.proposal = p, !.row = entry[e].row])
  /\ UNCHANGED <<entry, instance, proposal>>

\* With move=true and the instance installed in another entry.
StartMove(w, e, i) ==
  /\ Live(e)
  /\ \E o \in Holders(i) \ {e} :
       Begin(w, [Idle EXCEPT !.stage = "vacate", !.entry = e, !.instance = i,
                             !.other = o, !.row = entry[o].row])
  /\ UNCHANGED <<entry, instance, proposal>>

\* The UNBIND audit row commits the vacated entry on its own.
VacateOther(w) ==
  /\ At(w, "vacate")
  /\ Save(request[w].other, request[w].row, Unbound)
  /\ Continue(w, [request[w] EXCEPT !.stage = "reload", !.other = None,
                                    !.row = Unbound])
  /\ UNCHANGED <<instance, proposal>>

\* Without an instance id: mint one from the entry's own observations.
StartMint(w, e) ==
  /\ Live(e)
  /\ entry[e].row.column = None
  /\ Begin(w, [Idle EXCEPT !.stage = "mint", !.entry = e])
  /\ UNCHANGED <<entry, instance, proposal>>

\* The minted instance copies the entry's diameter, so it matches the entry
\* unless the entry was never measured; its CREATE audit row commits it.
MintInstance(w) ==
  LET e == request[w].entry
      measured == \E i \in Instances : <<e, i>> \in Matches
  IN /\ At(w, "mint")
     /\ \E i \in Instances :
          /\ instance[i] = "unborn"
          /\ measured => <<e, i>> \in Matches
          /\ instance' = [instance EXCEPT ![i] = "live"]
          /\ Continue(w, [request[w] EXCEPT !.stage = "reload", !.instance = i])
     /\ UNCHANGED <<entry, proposal>>

\* A commit expires the session, so the entry is read again before it is bound.
ReloadEntry(w) ==
  LET e == request[w].entry IN
  /\ At(w, "reload")
  /\ Live(e)
  /\ \E p \in Proposals \cup {None} :
       /\ AnOpenProposal(e, p)
       /\ Continue(w, [request[w] EXCEPT !.stage = "bind", !.proposal = p,
                                         !.row = entry[e].row])
  /\ UNCHANGED <<entry, instance, proposal>>

FinishBind(w) ==
  LET r == request[w] IN
  /\ At(w, "bind")
  /\ Save(r.entry, r.row, Bound(r.instance))
  /\ proposal' = IF r.proposal = None THEN proposal
                 ELSE [proposal EXCEPT ![r.proposal].status =
                                         Resolution(r.proposal, r.instance)]
  /\ Finish(w)
  /\ UNCHANGED instance

-----------------------------------------------------------------------------
(* POST /{entry}/unbind and the observe doors. *)

StartUnbind(w, e) ==
  /\ Live(e)
  /\ Begin(w, [Idle EXCEPT !.stage = "unbind", !.entry = e, !.row = entry[e].row])
  /\ UNCHANGED <<entry, instance, proposal>>

FinishUnbind(w) ==
  /\ At(w, "unbind")
  /\ Save(request[w].entry, request[w].row, Unbound)
  /\ Finish(w)
  /\ UNCHANGED <<instance, proposal>>

StartObserve(w, e) ==
  /\ Live(e)
  /\ Begin(w, [Idle EXCEPT !.stage = "observe", !.entry = e, !.row = entry[e].row])
  /\ UNCHANGED <<entry, instance, proposal>>

\* An observed offset, number or comment rewrites the whole canonical
\* document as it was loaded, its binding leaf included.
FinishObserve(w) ==
  LET e == request[w].entry IN
  /\ At(w, "observe")
  /\ Live(e)
  /\ entry' = [entry EXCEPT ![e].row.canonical = request[w].row.canonical]
  /\ Finish(w)
  /\ UNCHANGED <<instance, proposal>>

-----------------------------------------------------------------------------
(* DELETE of an entry and of an instance. *)

StartDeleteEntry(w, e) ==
  /\ Live(e)
  /\ Begin(w, [Idle EXCEPT !.stage = "delete", !.entry = e])
  /\ UNCHANGED <<entry, instance, proposal>>

\* Deleting a row that is gone already raises nothing.
FinishDeleteEntry(w) ==
  LET e == request[w].entry IN
  /\ At(w, "delete")
  /\ entry' = [entry EXCEPT ![e] = [life |-> "gone", row |-> Unbound]]
  /\ proposal' = [p \in Proposals |->
                    IF proposal[p].entry = e
                    THEN [proposal[p] EXCEPT !.status = "gone"] ELSE proposal[p]]
  /\ Finish(w)
  /\ UNCHANGED instance

\* The index leaves at most one holder to evict.
StartDeleteInstance(w, i) ==
  /\ instance[i] = "live"
  /\ IF Holders(i) = {}
     THEN Begin(w, [Idle EXCEPT !.stage = "remove", !.instance = i])
     ELSE \E o \in Holders(i) :
            Begin(w, [Idle EXCEPT !.stage = "evict", !.instance = i,
                                  !.other = o, !.row = entry[o].row])
  /\ UNCHANGED <<entry, instance, proposal>>

EvictHolder(w) ==
  /\ At(w, "evict")
  /\ Save(request[w].other, request[w].row, Unbound)
  /\ Continue(w, [request[w] EXCEPT !.stage = "remove", !.other = None,
                                    !.row = Unbound])
  /\ UNCHANGED <<instance, proposal>>

\* Presets and labels of the instance go too; proposals that name it stay.
RemoveInstance(w) ==
  /\ At(w, "remove")
  /\ instance' = [instance EXCEPT ![request[w].instance] = "gone"]
  /\ Finish(w)
  /\ UNCHANGED <<entry, proposal>>

-----------------------------------------------------------------------------
(* The instance inbox: GET generates proposals, a human resolves them. *)

StartInbox(w) ==
  /\ Begin(w, [Idle EXCEPT !.stage = "scan",
                 !.todo = {e \in Entries : Live(e) /\ entry[e].row.column = None}])
  /\ UNCHANGED <<entry, instance, proposal>>

\* The guards of propose_for_entry.
NeedsProposal(e) == entry[e].row.column = None /\ OpenFor(e) = {}

ScanEntry(w) ==
  /\ At(w, "scan")
  /\ \E e \in request[w].todo :
       /\ Live(e)
       /\ IF NeedsProposal(e) /\ Candidates(e) # {}
          THEN \E i \in Candidates(e) :
                 Continue(w, [request[w] EXCEPT !.stage = "propose",
                                                !.entry = e, !.instance = i])
          ELSE Continue(w, [request[w] EXCEPT !.todo = @ \ {e}])
  /\ UNCHANGED <<entry, instance, proposal>>

\* The PROPOSE audit row commits each proposal on its own.
InsertProposal(w) ==
  LET r == request[w] IN
  /\ At(w, "propose")
  /\ \E p \in Proposals :
       /\ proposal[p].status = "unborn"
       /\ proposal' = [proposal EXCEPT ![p] =
                         [entry |-> r.entry, instance |-> r.instance,
                          status |-> "open"]]
  /\ Continue(w, [Idle EXCEPT !.stage = "scan", !.todo = r.todo \ {r.entry}])
  /\ UNCHANGED <<entry, instance>>

FinishInbox(w) ==
  /\ At(w, "scan")
  /\ request[w].todo = {}
  /\ Finish(w)
  /\ UNCHANGED <<entry, instance, proposal>>

\* _resolve: 404 when it is gone, 409 when it was resolved before.
Resolvable(p) == proposal[p].status = "open"

StartConfirm(w, p) ==
  LET e == proposal[p].entry
      i == proposal[p].instance
  IN /\ Resolvable(p)
     /\ Live(e)
     /\ Holders(i) \ {e} = {}
     /\ Begin(w, [Idle EXCEPT !.stage = "confirm", !.entry = e, !.instance = i,
                              !.proposal = p, !.row = entry[e].row])
     /\ UNCHANGED <<entry, instance, proposal>>

FinishConfirm(w) ==
  LET r == request[w] IN
  /\ At(w, "confirm")
  /\ Save(r.entry, r.row, Bound(r.instance))
  /\ proposal' = [proposal EXCEPT ![r.proposal].status = "confirmed"]
  /\ Finish(w)
  /\ UNCHANGED instance

StartReject(w, p) ==
  /\ Resolvable(p)
  /\ Begin(w, [Idle EXCEPT !.stage = "reject", !.proposal = p])
  /\ UNCHANGED <<entry, instance, proposal>>

FinishReject(w) ==
  LET p == request[w].proposal IN
  /\ At(w, "reject")
  /\ proposal[p].status # "gone"
  /\ proposal' = [proposal EXCEPT ![p].status = "rejected"]
  /\ Finish(w)
  /\ UNCHANGED <<entry, instance>>

-----------------------------------------------------------------------------
(* The process dies, or the handler raises: the session rolls back what it *)
(* has not committed.  What it has committed stays.                        *)

Abandon(w) ==
  /\ request[w] # Idle
  /\ Finish(w)
  /\ UNCHANGED <<entry, instance, proposal>>

Arrive(w) ==
  \/ StartInbox(w)
  \/ \E e \in Entries :
       \/ CreateEntry(w, e) \/ StartMint(w, e) \/ StartUnbind(w, e) \/ StartObserve(w, e)
       \/ StartDeleteEntry(w, e)
       \/ \E i \in Instances : StartBind(w, e, i) \/ StartMove(w, e, i)
  \/ \E i \in Instances : CreateInstance(w, i) \/ StartDeleteInstance(w, i)
  \/ \E p \in Proposals : StartConfirm(w, p) \/ StartReject(w, p)

Proceed(w) ==
  \/ VacateOther(w) \/ MintInstance(w) \/ ReloadEntry(w) \/ FinishBind(w)
  \/ FinishUnbind(w) \/ FinishObserve(w)
  \/ FinishDeleteEntry(w) \/ EvictHolder(w) \/ RemoveInstance(w)
  \/ ScanEntry(w) \/ InsertProposal(w) \/ FinishInbox(w)
  \/ FinishConfirm(w) \/ FinishReject(w)

Next == \E w \in Workers : Arrive(w) \/ Proceed(w) \/ Abandon(w)

Spec == Init /\ [][Next]_vars

-----------------------------------------------------------------------------
(* What holds however many requests run at once. *)

\* A physical tool is in at most one entry (database/schema.py:279-281), with
\* any number of requests that hold stale rows: only the unique index of the
\* column stands behind the check bind and confirm make before they write.
InstallOnce ==
  \A e, f \in Entries :
    e # f /\ entry[e].row.column # None => entry[e].row.column # entry[f].row.column

\* Every committed step of every handler is one the abstract placement allows:
\* a move goes through "nowhere", and no commit changes two entries at once.
Place == INSTANCE Placement
           WITH holds <- [e \in Entries |-> entry[e].row.column]
ImplementsPlacement == Place!Spec

-----------------------------------------------------------------------------
(* What holds while requests are served one at a time, crashes included.   *)

\* The indexed column and the canonical leaf name the same instance
\* ("extracted from canonical", database/schema.py:278).
ColumnMirrorsCanonical ==
  \A e \in Entries : entry[e].row.column = entry[e].row.canonical

\* An entry never has two open proposals: bind closes only the first it finds.
OneOpenProposal == \A e \in Entries : Cardinality(OpenFor(e)) <= 1

\* An open proposal awaits an entry that exists and holds nothing: binding by
\* any door resolves it, and deleting the entry deletes it, so that confirming
\* it can never displace an installed tool (confirm does not check that).
OpenProposalAwaitsUnbound ==
  \A p \in Proposals : proposal[p].status = "open" =>
    Live(proposal[p].entry) /\ entry[proposal[p].entry].row.column = None

\* A rejected (entry, instance) pair is never open again
\* (database/schema.py:443-444, api/instance_inbox.py:123-124).
RejectedPairNeverOpen ==
  \A p, q \in Proposals :
    proposal[p].status = "open" /\ proposal[q].status = "rejected" =>
      <<proposal[p].entry, proposal[p].instance>>
        # <<proposal[q].entry, proposal[q].instance>>

\* A human's answer to a proposal is final: a second confirm or reject, or a
\* bind, never changes a resolved one (api/instance_inbox.py:74-75).
ResolvedStaysResolved ==
  [][\A p \in Proposals : proposal[p].status \in {"confirmed", "rejected"} =>
       proposal'[p].status \in {proposal[p].status, "gone"}]_vars

-----------------------------------------------------------------------------
(* What the repository says and the code does not do. *)

\* "relocates it atomically" (api/tool_table_entry_records.py:427): no step of
\* a move leaves the tool it moves installed nowhere.
MoveIsAtomic ==
  [][\A w \in Workers :
       At(w, "vacate") /\ request'[w] # request[w]
         /\ Holders(request[w].instance) # {}
         => Holders(request[w].instance)' # {}]_vars

\* "Any entry holding it is UNBOUND first ... never orphaned"
\* (api/tool_instance_records.py:284-285): no entry holds a deleted instance.
NeverOrphaned ==
  \A e \in Entries : entry[e].row.column # None =>
    instance[entry[e].row.column] = "live"

\* "Generate proposals for any unbound entries, then list the open ones"
\* (api/instance_inbox.py:39): when an inbox request ends normally, every
\* unbound entry some unrejected instance matches has an open proposal that
\* the list shows, which is one whose instance exists.
InboxServesUnbound ==
  [][\A w \in Workers :
       At(w, "scan") /\ request[w].todo = {} /\ request'[w] = Idle =>
         \A e \in Entries :
           Live(e) /\ entry[e].row.column = None /\ Candidates(e) # {} =>
             \E p \in OpenFor(e) : instance[proposal[p].instance] = "live"]_vars
=============================================================================
