--------------------------- MODULE BindingProofs ---------------------------
(***************************************************************************)
(* For every set of entries, instances, proposals and workers: the types,  *)
(* install-once, and the implementation of Placement; and, while requests  *)
(* are served one at a time, what the tables promise of the column, the    *)
(* canonical document and the proposals.                                   *)
(***************************************************************************)
EXTENDS Binding, FiniteSetTheorems, TLAPS

\* The invariant is inductive as it stands: the guards of every write are in
\* the index, which Save consults, and not in what a request remembers.
IInv == TypeOK /\ InstallOnce

EntryRecord == [life : Life, row : Row]

\* Every request record a door begins with, or continues with, is typed.
LEMMA NullsTyped ==
  Unbound \in Row /\ Idle \in Request
BY DEF Unbound, Row, Idle, Request, Stage

LEMMA InitTyped == Init => TypeOK
BY NullsTyped DEF Init, TypeOK, Life, Status, Unbound

\* What a flush stores is a row.
LEMMA FlushedTyped ==
  ASSUME NEW now \in Row, NEW loaded \in Row, NEW new \in Row
  PROVE  Flushed(now, loaded, new) \in Row
BY DEF Flushed, Row

\* A saved row keeps the entry table typed.
LEMMA SaveTyped ==
  ASSUME TypeOK, NEW e \in Entries, NEW loaded \in Row, NEW new \in Row,
         Save(e, loaded, new)
  PROVE  entry' \in [Entries -> EntryRecord]
<1> DEFINE stored == Flushed(entry[e].row, loaded, new)
<1>1. entry[e] \in EntryRecord
  BY DEF TypeOK, EntryRecord
<1>2. stored \in Row
  BY <1>1, FlushedTyped DEF EntryRecord
<1>3. entry' = [entry EXCEPT ![e] = [entry[e] EXCEPT !.row = stored]]
  BY <1>1 DEF Save, EntryRecord, TypeOK
<1>4. [entry[e] EXCEPT !.row = stored] \in EntryRecord
  BY <1>1, <1>2 DEF EntryRecord
<1> QED
  BY <1>3, <1>4 DEF TypeOK, EntryRecord

-----------------------------------------------------------------------------
(* The entry table. *)

\* One row changes, to one that the unique index accepts.
Changes(e, v) ==
  /\ entry' = [entry EXCEPT ![e] = v]
  /\ IndexAllows(e, v.row.column)

OneRowChanges ==
  UNCHANGED entry \/ \E e \in Entries, v \in EntryRecord : Changes(e, v)

LEMMA SaveChangesOneRow ==
  ASSUME TypeOK, NEW e, NEW loaded \in Row, NEW new \in Row, Save(e, loaded, new)
  PROVE  OneRowChanges
<1> DEFINE stored == Flushed(entry[e].row, loaded, new)
           v == [entry[e] EXCEPT !.row = stored]
<1>1. e \in Entries /\ entry[e] \in EntryRecord
  BY DEF TypeOK, EntryRecord, Save, Live
<1>2. stored \in Row
  BY <1>1, FlushedTyped DEF EntryRecord
<1>3. v \in EntryRecord /\ v.row = stored
  BY <1>1, <1>2 DEF EntryRecord
<1>4. entry' = [entry EXCEPT ![e] = v]
  BY <1>1 DEF Save, EntryRecord, TypeOK
<1>5. IndexAllows(e, v.row.column)
  BY <1>3 DEF Save
<1> QED
  BY <1>1, <1>3, <1>4, <1>5 DEF OneRowChanges, Changes

LEMMA BoundTyped == ASSUME NEW i \in Instances \cup {None} PROVE Bound(i) \in Row
BY DEF Bound, Row

\* No handler commits a change of two entry rows, or one the index refuses.
LEMMA EntryStep == IInv /\ [Next]_vars => OneRowChanges
<1> SUFFICES ASSUME TypeOK, InstallOnce, [Next]_vars PROVE OneRowChanges
  BY DEF IInv
<1>u. CASE UNCHANGED entry
  BY <1>u DEF OneRowChanges
<1> SUFFICES ASSUME NEW w \in Workers, Arrive(w) \/ Proceed(w) \/ Abandon(w)
             PROVE  OneRowChanges
  BY <1>u DEF Next, vars
<1> DEFINE r == request[w]
<1>r. /\ r.row \in Row
      /\ r.instance \in Instances \cup {None}
      /\ r.entry \in Entries \cup {None}
  BY DEF TypeOK, Request
<1>1. CASE Arrive(w)
  <2>1. ASSUME NEW e \in Entries, CreateEntry(w, e) PROVE OneRowChanges
    <3> DEFINE v == [entry[e] EXCEPT !.life = "live"]
    <3>1. entry[e] \in EntryRecord
      BY DEF TypeOK, EntryRecord
    <3>2. v \in EntryRecord /\ v.row = entry[e].row
      BY <3>1 DEF EntryRecord, Life
    <3>3. entry' = [entry EXCEPT ![e] = v]
      BY <2>1, <3>1 DEF CreateEntry, EntryRecord, TypeOK
    <3>4. IndexAllows(e, v.row.column)
      BY <3>2 DEF IndexAllows, InstallOnce
    <3> QED
      BY <3>2, <3>3, <3>4 DEF OneRowChanges, Changes
  <2>2. CASE UNCHANGED entry
    BY <2>2 DEF OneRowChanges
  <2> QED
    BY <1>1, <2>1, <2>2
    DEF Arrive, StartInbox, StartMint, StartUnbind, StartObserve,
        StartDeleteEntry, StartBind, StartMove, CreateInstance,
        StartDeleteInstance, StartConfirm, StartReject
<1>2. CASE Proceed(w)
  <2>1. CASE VacateOther(w)
    BY <2>1, <1>r, NullsTyped, SaveChangesOneRow DEF VacateOther
  <2>2. CASE FinishBind(w)
    BY <2>2, <1>r, BoundTyped, SaveChangesOneRow DEF FinishBind
  <2>3. CASE FinishUnbind(w)
    BY <2>3, <1>r, NullsTyped, SaveChangesOneRow DEF FinishUnbind
  <2>4. CASE FinishObserve(w)
    <3> DEFINE e == r.entry
               v == [entry[e] EXCEPT !.row.canonical = r.row.canonical]
    <3>1. e \in Entries /\ entry[e] \in EntryRecord
      BY <2>4 DEF TypeOK, EntryRecord, FinishObserve, Live
    <3>2. v \in EntryRecord /\ v.row.column = entry[e].row.column
      BY <1>r, <3>1 DEF EntryRecord, Row
    <3>3. entry' = [entry EXCEPT ![e] = v]
      BY <2>4, <3>1 DEF FinishObserve, EntryRecord, Row, TypeOK
    <3>4. IndexAllows(e, v.row.column)
      BY <3>1, <3>2 DEF IndexAllows, InstallOnce
    <3> QED
      BY <3>1, <3>2, <3>3, <3>4 DEF OneRowChanges, Changes
  <2>5. CASE FinishDeleteEntry(w)
    <3> DEFINE v == [life |-> "gone", row |-> Unbound]
    <3>1. v \in EntryRecord /\ v.row.column = None
      BY DEF EntryRecord, Life, Row, Unbound
    <3>2. entry' = [entry EXCEPT ![r.entry] = v]
      BY <2>5 DEF FinishDeleteEntry
    <3>3. CASE r.entry \in Entries
      BY <3>1, <3>2, <3>3 DEF OneRowChanges, Changes, IndexAllows
    <3>4. CASE r.entry \notin Entries
      BY <3>2, <3>4 DEF OneRowChanges, TypeOK
    <3> QED
      BY <3>3, <3>4
  <2>6. CASE EvictHolder(w)
    BY <2>6, <1>r, NullsTyped, SaveChangesOneRow DEF EvictHolder
  <2>7. CASE FinishConfirm(w)
    BY <2>7, <1>r, BoundTyped, SaveChangesOneRow DEF FinishConfirm
  <2>8. CASE UNCHANGED entry
    BY <2>8 DEF OneRowChanges
  <2> QED
    BY <1>2, <2>1, <2>2, <2>3, <2>4, <2>5, <2>6, <2>7, <2>8
    DEF Proceed, MintInstance, ReloadEntry, RemoveInstance, ScanEntry,
        InsertProposal, FinishInbox, FinishReject
<1>3. CASE Abandon(w)
  BY <1>3 DEF Abandon, OneRowChanges
<1> QED
  BY <1>1, <1>2, <1>3

LEMMA ChangesKeepsInstallOnce ==
  ASSUME TypeOK, InstallOnce, NEW e \in Entries, NEW v \in EntryRecord, Changes(e, v)
  PROVE  InstallOnce'
<1>1. ASSUME NEW f \in Entries
      PROVE  entry'[f].row.column = IF f = e THEN v.row.column ELSE entry[f].row.column
  BY DEF Changes, TypeOK
<1>2. v.row.column # None => \A o \in Entries \ {e} : entry[o].row.column # v.row.column
  BY DEF Changes, IndexAllows
<1> QED
  BY <1>1, <1>2 DEF InstallOnce

LEMMA EntriesTyped ==
  ASSUME TypeOK, OneRowChanges PROVE entry' \in [Entries -> EntryRecord]
BY DEF TypeOK, EntryRecord, OneRowChanges, Changes

LEMMA OneRowKeepsInstallOnce ==
  ASSUME TypeOK, InstallOnce, OneRowChanges PROVE InstallOnce'
<1>1. CASE UNCHANGED entry
  BY <1>1 DEF InstallOnce
<1>2. CASE \E e \in Entries, v \in EntryRecord : Changes(e, v)
  BY <1>2, ChangesKeepsInstallOnce
<1> QED
  BY <1>1, <1>2 DEF OneRowChanges

-----------------------------------------------------------------------------
(* The other tables and the requests. *)

InstancesTyped == instance \in [Instances -> Life]
ProposalRecord == [entry : Entries \cup {None}, instance : Instances \cup {None},
                   status : Status]
ProposalsTyped == proposal \in [Proposals -> ProposalRecord]
RequestsTyped == request \in [Workers -> Request]

LEMMA InstanceStep == TypeOK /\ [Next]_vars => InstancesTyped'
BY DEF TypeOK, InstancesTyped, Life, Next, vars, Arrive, Proceed, Abandon,
       CreateEntry, StartInbox, StartMint, StartUnbind, StartObserve,
       StartDeleteEntry, StartBind, StartMove, CreateInstance,
       StartDeleteInstance, StartConfirm, StartReject, VacateOther, MintInstance,
       ReloadEntry, FinishBind, FinishUnbind, FinishObserve, FinishDeleteEntry,
       EvictHolder, RemoveInstance, ScanEntry, InsertProposal, FinishInbox,
       FinishConfirm, FinishReject

LEMMA ResolutionTyped ==
  ASSUME NEW p, NEW i PROVE Resolution(p, i) \in Status
BY DEF Resolution, Status

LEMMA ProposalStep == TypeOK /\ [Next]_vars => ProposalsTyped'
<1> SUFFICES ASSUME TypeOK, [Next]_vars PROVE ProposalsTyped'
  OBVIOUS
<1>t. proposal \in [Proposals -> ProposalRecord]
  BY DEF TypeOK, ProposalRecord
<1>u. CASE UNCHANGED proposal
  BY <1>t, <1>u DEF ProposalsTyped
<1> SUFFICES ASSUME NEW w \in Workers, Arrive(w) \/ Proceed(w) \/ Abandon(w)
             PROVE  ProposalsTyped'
  BY <1>u DEF Next, vars
<1>r. request[w] \in Request
  BY DEF TypeOK
<1>1. ASSUME NEW p, NEW s \in Status, proposal' = [proposal EXCEPT ![p].status = s]
      PROVE  ProposalsTyped'
  BY <1>t, <1>1 DEF ProposalsTyped, ProposalRecord
<1>2. CASE FinishBind(w)
  BY <1>1, <1>2, <1>u, ResolutionTyped DEF FinishBind
<1>3. CASE FinishDeleteEntry(w)
  <2>1. proposal' = [p \in Proposals |->
                       IF proposal[p].entry = request[w].entry
                       THEN [proposal[p] EXCEPT !.status = "gone"] ELSE proposal[p]]
    BY <1>3 DEF FinishDeleteEntry
  <2>2. ASSUME NEW p \in Proposals
        PROVE  [proposal[p] EXCEPT !.status = "gone"] \in ProposalRecord
    BY <1>t DEF ProposalRecord, Status
  <2> QED
    BY <1>t, <2>1, <2>2 DEF ProposalsTyped
<1>4. CASE InsertProposal(w)
  <2>1. [entry |-> request[w].entry, instance |-> request[w].instance,
         status |-> "open"] \in ProposalRecord
    BY <1>r DEF Request, ProposalRecord, Status
  <2> QED
    BY <1>t, <1>4, <2>1 DEF InsertProposal, ProposalsTyped
<1>5. CASE FinishConfirm(w)
  BY <1>1, <1>5 DEF FinishConfirm, Status
<1>6. CASE FinishReject(w)
  BY <1>1, <1>6 DEF FinishReject, Status
<1> QED
  BY <1>u, <1>2, <1>3, <1>4, <1>5, <1>6
  DEF Arrive, Proceed, Abandon, CreateEntry, StartInbox, StartMint, StartUnbind,
      StartObserve, StartDeleteEntry, StartBind, StartMove, CreateInstance,
      StartDeleteInstance, StartConfirm, StartReject, VacateOther, MintInstance,
      ReloadEntry, FinishUnbind, FinishObserve, EvictHolder, RemoveInstance,
      ScanEntry, FinishInbox

\* Every door begins, continues or finishes its request with a typed record.
LEMMA RequestStep == TypeOK /\ [Next]_vars => RequestsTyped'
<1> SUFFICES ASSUME TypeOK, [Next]_vars PROVE RequestsTyped'
  OBVIOUS
<1>t. request \in [Workers -> Request]
  BY DEF TypeOK
<1>u. CASE UNCHANGED request
  BY <1>t, <1>u DEF RequestsTyped
<1> SUFFICES ASSUME NEW w \in Workers, Arrive(w) \/ Proceed(w) \/ Abandon(w)
             PROVE  RequestsTyped'
  BY <1>u DEF Next, vars
<1>r. request[w] \in Request /\ Idle \in Request
  BY NullsTyped DEF TypeOK
<1>1. ASSUME NEW r \in Request, Continue(w, r) PROVE RequestsTyped'
  BY <1>t, <1>1 DEF Continue, RequestsTyped
<1>2. ASSUME NEW r \in Request, Begin(w, r) PROVE RequestsTyped'
  BY <1>t, <1>2 DEF Begin, RequestsTyped
<1>3. ASSUME Finish(w) PROVE RequestsTyped'
  BY <1>1, <1>3, <1>r DEF Finish
<1>4. ASSUME NEW e \in Entries PROVE entry[e].row \in Row
  BY DEF TypeOK
<1>5. CASE Arrive(w)
  <2>1. CASE StartInbox(w)
    <3>1. [Idle EXCEPT !.stage = "scan",
             !.todo = {e \in Entries : Live(e) /\ entry[e].row.column = None}]
            \in Request
      BY NullsTyped DEF Idle, Request, Stage
    <3> QED
      BY <2>1, <3>1, <1>2 DEF StartInbox
  <2>2. ASSUME NEW e \in Entries,
               \/ StartMint(w, e) \/ StartUnbind(w, e) \/ StartObserve(w, e)
               \/ StartDeleteEntry(w, e)
        PROVE  RequestsTyped'
    <3>1. [Idle EXCEPT !.stage = "mint", !.entry = e] \in Request
      BY NullsTyped DEF Idle, Request, Stage
    <3>2. [Idle EXCEPT !.stage = "unbind", !.entry = e, !.row = entry[e].row]
            \in Request
      BY <1>4, NullsTyped DEF Idle, Request, Stage
    <3>3. [Idle EXCEPT !.stage = "observe", !.entry = e, !.row = entry[e].row]
            \in Request
      BY <1>4, NullsTyped DEF Idle, Request, Stage
    <3>4. [Idle EXCEPT !.stage = "delete", !.entry = e] \in Request
      BY NullsTyped DEF Idle, Request, Stage
    <3> QED
      BY <2>2, <3>1, <3>2, <3>3, <3>4, <1>2
      DEF StartMint, StartUnbind, StartObserve, StartDeleteEntry
  <2>3. ASSUME NEW e \in Entries, NEW i \in Instances, StartBind(w, e, i)
        PROVE  RequestsTyped'
    <3>1. PICK p \in Proposals \cup {None} :
            Begin(w, [Idle EXCEPT !.stage = "bind", !.entry = e, !.instance = i,
                                  !.proposal = p, !.row = entry[e].row])
      BY <2>3 DEF StartBind
    <3>2. [Idle EXCEPT !.stage = "bind", !.entry = e, !.instance = i,
                       !.proposal = p, !.row = entry[e].row] \in Request
      BY <1>4, NullsTyped DEF Idle, Request, Stage
    <3> QED
      BY <3>1, <3>2, <1>2
  <2>4. ASSUME NEW e \in Entries, NEW i \in Instances, StartMove(w, e, i)
        PROVE  RequestsTyped'
    <3>1. PICK o \in Entries :
            Begin(w, [Idle EXCEPT !.stage = "vacate", !.entry = e, !.instance = i,
                                  !.other = o, !.row = entry[o].row])
      BY <2>4 DEF StartMove, Holders
    <3>2. [Idle EXCEPT !.stage = "vacate", !.entry = e, !.instance = i,
                       !.other = o, !.row = entry[o].row] \in Request
      BY <1>4, NullsTyped DEF Idle, Request, Stage
    <3> QED
      BY <3>1, <3>2, <1>2
  <2>5. ASSUME NEW i \in Instances, StartDeleteInstance(w, i)
        PROVE  RequestsTyped'
    <3>1. [Idle EXCEPT !.stage = "remove", !.instance = i] \in Request
      BY NullsTyped DEF Idle, Request, Stage
    <3>2. ASSUME NEW o \in Entries
          PROVE  [Idle EXCEPT !.stage = "evict", !.instance = i,
                              !.other = o, !.row = entry[o].row] \in Request
      BY <1>4, NullsTyped DEF Idle, Request, Stage
    <3> QED
      BY <2>5, <3>1, <3>2, <1>2 DEF StartDeleteInstance, Holders
  <2>6. ASSUME NEW p \in Proposals, StartConfirm(w, p) PROVE RequestsTyped'
    <3> DEFINE e == proposal[p].entry
               i == proposal[p].instance
    <3>1. e \in Entries /\ i \in Instances \cup {None}
      BY <2>6 DEF StartConfirm, Live, TypeOK
    <3>2. [Idle EXCEPT !.stage = "confirm", !.entry = e, !.instance = i,
                       !.proposal = p, !.row = entry[e].row] \in Request
      BY <3>1, <1>4, NullsTyped DEF Idle, Request, Stage
    <3> QED
      BY <2>6, <3>2, <1>2 DEF StartConfirm
  <2>7. ASSUME NEW p \in Proposals, StartReject(w, p) PROVE RequestsTyped'
    <3>1. [Idle EXCEPT !.stage = "reject", !.proposal = p] \in Request
      BY NullsTyped DEF Idle, Request, Stage
    <3> QED
      BY <2>7, <3>1, <1>2 DEF StartReject
  <2> QED
    BY <1>5, <1>u, <2>1, <2>2, <2>3, <2>4, <2>5, <2>6, <2>7
    DEF Arrive, CreateEntry, CreateInstance
<1>6. CASE Proceed(w)
  <2>1. CASE VacateOther(w) \/ EvictHolder(w)
    <3>1. ASSUME NEW s \in Stage
          PROVE  [request[w] EXCEPT !.stage = s, !.other = None, !.row = Unbound]
                   \in Request
      BY <1>r, NullsTyped DEF Request
    <3> QED
      BY <2>1, <3>1, <1>1 DEF VacateOther, EvictHolder, Stage
  <2>2. CASE MintInstance(w)
    <3>1. ASSUME NEW i \in Instances
          PROVE  [request[w] EXCEPT !.stage = "reload", !.instance = i] \in Request
      BY <1>r DEF Request, Stage
    <3> QED
      BY <2>2, <3>1, <1>1 DEF MintInstance
  <2>3. CASE ReloadEntry(w)
    <3> DEFINE e == request[w].entry
    <3>1. entry[e].row \in Row
      BY <2>3, <1>4 DEF ReloadEntry, Live
    <3>2. ASSUME NEW p \in Proposals \cup {None}
          PROVE  [request[w] EXCEPT !.stage = "bind", !.proposal = p,
                                    !.row = entry[e].row] \in Request
      BY <1>r, <3>1 DEF Request, Stage
    <3> QED
      BY <2>3, <3>2, <1>1 DEF ReloadEntry
  <2>4. CASE ScanEntry(w)
    <3>1. ASSUME NEW e \in request[w].todo
          PROVE  [request[w] EXCEPT !.todo = @ \ {e}] \in Request
      BY <1>r DEF Request
    <3>2. ASSUME NEW e \in request[w].todo, NEW i \in Candidates(e)
          PROVE  [request[w] EXCEPT !.stage = "propose", !.entry = e,
                                    !.instance = i] \in Request
      BY <1>r DEF Request, Stage, Candidates
    <3> QED
      BY <2>4, <3>1, <3>2, <1>1 DEF ScanEntry
  <2>5. CASE InsertProposal(w)
    <3>1. [Idle EXCEPT !.stage = "scan", !.todo = request[w].todo \ {request[w].entry}]
            \in Request
      BY <1>r, NullsTyped DEF Idle, Request, Stage
    <3> QED
      BY <2>5, <3>1, <1>1 DEF InsertProposal
  <2> QED
    BY <1>6, <1>3, <2>1, <2>2, <2>3, <2>4, <2>5
    DEF Proceed, FinishBind, FinishUnbind, FinishObserve, FinishDeleteEntry,
        RemoveInstance, FinishInbox, FinishConfirm, FinishReject
<1>7. CASE Abandon(w)
  BY <1>7, <1>3 DEF Abandon
<1> QED
  BY <1>5, <1>6, <1>7

-----------------------------------------------------------------------------
(* The theorems. *)

LEMMA InductiveStep == IInv /\ [Next]_vars => IInv'
<1> SUFFICES ASSUME IInv, [Next]_vars PROVE IInv'
  OBVIOUS
<1>1. TypeOK /\ InstallOnce /\ OneRowChanges
  BY EntryStep DEF IInv
<1>2. entry' \in [Entries -> EntryRecord] /\ InstallOnce'
  BY <1>1, EntriesTyped, OneRowKeepsInstallOnce
<1>3. InstancesTyped' /\ ProposalsTyped' /\ RequestsTyped'
  BY <1>1, InstanceStep, ProposalStep, RequestStep
<1> QED
  BY <1>2, <1>3
  DEF IInv, TypeOK, EntryRecord, InstancesTyped, ProposalsTyped, ProposalRecord,
      RequestsTyped

LEMMA Inductive == Spec => []IInv
<1>1. Init => IInv
  BY InitTyped DEF IInv, InstallOnce, Init, Unbound
<1> QED
  BY <1>1, InductiveStep, PTL DEF Spec

\* Every reachable state of the binding doors is typed, for any number of
\* entries, instances, proposals and workers.
THEOREM TypeCorrect == Spec => []TypeOK
<1>1. IInv => TypeOK
  BY DEF IInv
<1> QED
  BY <1>1, Inductive, PTL

\* Install-once (database/schema.py:279-281) for any number of concurrent
\* requests, whatever stale rows they hold and wherever they are cut off.
THEOREM InstallOnceAlways == Spec => []InstallOnce
<1>1. IInv => InstallOnce
  BY DEF IInv
<1> QED
  BY <1>1, Inductive, PTL

\* The binding doors implement the abstract placement: every commit is one
\* install of a tool that is nowhere, one removal, or no change of place.
THEOREM PlacementImplemented == Spec => ImplementsPlacement
<1> DEFINE holds == [e \in Entries |-> entry[e].row.column]
<1>1. Init => Place!Init
  BY DEF Init, Place!Init, Unbound
<1>2. IInv /\ [Next]_vars => [Place!Next]_holds
  <2> SUFFICES ASSUME IInv, [Next]_vars PROVE [Place!Next]_holds
    OBVIOUS
  <2>1. TypeOK /\ OneRowChanges
    BY EntryStep DEF IInv
  <2>2. CASE UNCHANGED entry
    BY <2>2
  <2>3. ASSUME NEW e \in Entries, NEW v \in EntryRecord, Changes(e, v)
        PROVE  Place!Next
    <3>1. holds' = [holds EXCEPT ![e] = v.row.column]
      BY <2>1, <2>3 DEF Changes, TypeOK
    <3>2. CASE v.row.column = None
      BY <3>1, <3>2 DEF Place!Next, Place!Remove
    <3>3. CASE v.row.column # None
      <4>1. v.row.column \in Instances
        BY <3>3 DEF EntryRecord, Row
      <4>2. \A o \in Entries \ {e} : holds[o] # v.row.column
        BY <2>3, <3>3 DEF Changes, IndexAllows
      <4> QED
        BY <3>1, <4>1, <4>2 DEF Place!Next, Place!Install
    <3> QED
      BY <3>2, <3>3
  <2> QED
    BY <2>1, <2>2, <2>3 DEF OneRowChanges
<1> QED
  BY <1>1, <1>2, Inductive, PTL DEF Spec, ImplementsPlacement, Place!Spec

-----------------------------------------------------------------------------
(* Requests served one at a time, wherever they are cut off.                *)

OneOpen ==
  \A p, q \in Proposals :
    proposal[p].status = "open" /\ proposal[q].status = "open"
      /\ proposal[p].entry = proposal[q].entry => p = q

\* What a request remembers is still in the tables when it writes.
Session(w) ==
  LET r == request[w] IN
  /\ r.stage = "delete" => r.entry \in Entries
  /\ r.stage \in {"bind", "confirm", "unbind", "observe"} =>
       Live(r.entry) /\ r.row = entry[r.entry].row
  /\ r.stage \in {"vacate", "evict"} => Live(r.other) /\ r.row = entry[r.other].row
  /\ r.stage = "bind" => AnOpenProposal(r.entry, r.proposal)
  /\ r.stage = "confirm" => /\ r.proposal \in Proposals
                            /\ proposal[r.proposal].status = "open"
                            /\ proposal[r.proposal].entry = r.entry
  /\ r.stage = "reject" => r.proposal \in Proposals /\ proposal[r.proposal].status = "open"
  /\ r.stage = "propose" => /\ Live(r.entry) /\ NeedsProposal(r.entry)
                            /\ r.instance \in Candidates(r.entry)

Tables == /\ ColumnMirrorsCanonical /\ OpenProposalAwaitsUnbound
          /\ OneOpen /\ RejectedPairNeverOpen

Serial(w) == TypeOK /\ Tables /\ Session(w)

LEMMA RequestSet ==
  ASSUME TypeOK, NEW w \in Workers, NEW r, Begin(w, r) \/ Continue(w, r)
  PROVE  request'[w] = r
BY DEF TypeOK, Begin, Continue

\* A request that ends, or only looks up rows, leaves the tables alone.
LEMMA TablesStay ==
  ASSUME Tables, UNCHANGED <<entry, proposal>>
  PROVE  Tables'
BY DEF Tables, ColumnMirrorsCanonical, OpenProposalAwaitsUnbound, OneOpen,
       RejectedPairNeverOpen, Live

LEMMA SessionIdle ==
  ASSUME NEW w \in Workers,
         request'[w].stage \in {"idle", "mint", "reload", "remove", "scan"}
  PROVE  Session(w)'
BY DEF Session

\* A save of a row that is as it was loaded stores exactly the new row.
LEMMA FreshSave ==
  ASSUME TypeOK, NEW e, NEW new \in Row, Save(e, entry[e].row, new)
  PROVE  /\ e \in Entries /\ entry'[e].row = new /\ entry'[e].life = "live"
         /\ \A f \in Entries \ {e} : entry'[f] = entry[f]
<1>1. e \in Entries /\ entry[e].life = "live" /\ entry[e] \in EntryRecord
      /\ entry \in [Entries -> EntryRecord]
  BY DEF Save, Live, TypeOK, EntryRecord
<1>2. Flushed(entry[e].row, entry[e].row, new) = new
  BY <1>1 DEF Flushed, Row, EntryRecord
<1> DEFINE v == [entry[e] EXCEPT !.row = new]
<1>3. entry' = [entry EXCEPT ![e] = v]
  BY <1>1, <1>2 DEF Save, EntryRecord
<1>4. v.row = new /\ v.life = "live"
  BY <1>1 DEF EntryRecord
<1> HIDE DEF v
<1> QED
  BY <1>1, <1>3, <1>4

\* The entry e is emptied: open proposals still await an empty entry.
LEMMA TablesOnRemoval ==
  ASSUME TypeOK, Tables, NEW e, Save(e, entry[e].row, Unbound), proposal' = proposal
  PROVE  Tables'
<1>1. /\ e \in Entries /\ entry'[e].row = Unbound /\ entry'[e].life = "live"
      /\ \A f \in Entries \ {e} : entry'[f] = entry[f]
  BY NullsTyped, FreshSave
<1>2. ColumnMirrorsCanonical'
  BY <1>1 DEF Tables, ColumnMirrorsCanonical, Unbound
<1>3. OpenProposalAwaitsUnbound'
  BY <1>1 DEF Tables, OpenProposalAwaitsUnbound, Live, Unbound
<1> QED
  BY <1>2, <1>3 DEF Tables, OneOpen, RejectedPairNeverOpen

LEMMA StatusSet ==
  ASSUME TypeOK, NEW p \in Proposals, NEW s, proposal' = [proposal EXCEPT ![p].status = s]
  PROVE  /\ proposal'[p].status = s /\ proposal'[p].entry = proposal[p].entry
         /\ proposal'[p].instance = proposal[p].instance
         /\ \A q \in Proposals \ {p} : proposal'[q] = proposal[q]
<1>1. proposal[p] \in ProposalRecord /\ proposal \in [Proposals -> ProposalRecord]
  BY DEF TypeOK, ProposalRecord
<1> DEFINE v == [proposal[p] EXCEPT !.status = s]
<1>2. proposal' = [proposal EXCEPT ![p] = v]
  BY <1>1 DEF ProposalRecord
<1>3. v.status = s /\ v.entry = proposal[p].entry /\ v.instance = proposal[p].instance
  BY <1>1 DEF ProposalRecord
<1> HIDE DEF v
<1> QED
  BY <1>1, <1>2, <1>3

\* An open proposal p is resolved.
LEMMA ProposalsOnAnswer ==
  ASSUME TypeOK, Tables, NEW p \in Proposals, proposal[p].status = "open",
         NEW s \in {"confirmed", "rejected"}, proposal' = [proposal EXCEPT ![p].status = s]
  PROVE  OneOpen' /\ RejectedPairNeverOpen'
<1>1. /\ proposal'[p].status = s /\ proposal'[p].entry = proposal[p].entry
      /\ proposal'[p].instance = proposal[p].instance
      /\ \A q \in Proposals \ {p} : proposal'[q] = proposal[q]
  BY StatusSet
<1>2. OneOpen'
  BY <1>1 DEF Tables, OneOpen
<1>3. RejectedPairNeverOpen'
  <2> SUFFICES ASSUME NEW q \in Proposals, NEW r \in Proposals,
                      proposal'[q].status = "open", proposal'[r].status = "rejected",
                      proposal'[q].entry = proposal'[r].entry,
                      proposal'[q].instance = proposal'[r].instance
               PROVE  FALSE
    BY DEF RejectedPairNeverOpen
  <2>1. q # p /\ proposal'[q] = proposal[q]
    BY <1>1
  <2>2. CASE r = p
    BY <1>1, <2>1, <2>2 DEF Tables, OneOpen
  <2>3. CASE r # p
    BY <1>1, <2>1, <2>3 DEF Tables, RejectedPairNeverOpen
  <2> QED
    BY <2>2, <2>3
<1> QED
  BY <1>2, <1>3

\* The entry e is bound, and its open proposal, if there is one, resolved.
LEMMA TablesOnInstall ==
  ASSUME TypeOK, Tables, NEW e, NEW i \in Instances \cup {None},
         Save(e, entry[e].row, Bound(i)),
         NEW p \in Proposals \cup {None}, AnOpenProposal(e, p),
         IF p = None THEN proposal' = proposal
         ELSE \E s \in {"confirmed", "rejected"} : proposal' = [proposal EXCEPT ![p].status = s]
  PROVE  Tables'
<1>1. /\ e \in Entries /\ entry'[e].row = Bound(i) /\ entry'[e].life = "live"
      /\ \A f \in Entries \ {e} : entry'[f] = entry[f]
  BY BoundTyped, FreshSave
<1>2. ColumnMirrorsCanonical'
  BY <1>1 DEF Tables, ColumnMirrorsCanonical, Bound
<1>3. CASE p = None
  <2>1. OpenFor(e) = {}
    BY <1>3, NoneAssumption DEF AnOpenProposal, OpenFor
  <2>2. OpenProposalAwaitsUnbound'
    BY <1>1, <1>3, <2>1 DEF Tables, OpenProposalAwaitsUnbound, Live, OpenFor
  <2> QED
    BY <1>2, <1>3, <2>2 DEF Tables, OneOpen, RejectedPairNeverOpen
<1>4. CASE p # None
  <2>1. PICK s \in {"confirmed", "rejected"} : proposal' = [proposal EXCEPT ![p].status = s]
    BY <1>4
  <2>2. p \in Proposals /\ proposal[p].status = "open" /\ proposal[p].entry = e
    BY <1>4 DEF AnOpenProposal, OpenFor
  <2>3. /\ proposal'[p].status = s /\ proposal'[p].entry = e
        /\ \A q \in Proposals \ {p} : proposal'[q] = proposal[q]
    BY <2>1, <2>2, StatusSet
  <2>4. ASSUME NEW q \in Proposals, proposal'[q].status = "open"
        PROVE  q # p /\ proposal'[q] = proposal[q] /\ proposal[q].entry # e
    BY <2>2, <2>3, <2>4 DEF Tables, OneOpen
  <2>5. OpenProposalAwaitsUnbound'
    BY <1>1, <2>4 DEF Tables, OpenProposalAwaitsUnbound, Live
  <2> QED
    BY <1>2, <2>1, <2>2, <2>5, ProposalsOnAnswer DEF Tables
<1> QED
  BY <1>3, <1>4

\* A request begins: it has just read what it will rely on.
LEMMA ArriveSerial ==
  ASSUME NEW w \in Workers, Serial(w), Arrive(w)
  PROVE  Tables' /\ Session(w)'
<1>1. TypeOK /\ Tables /\ Session(w)
  BY DEF Serial
<1>2. ASSUME UNCHANGED <<entry, instance, proposal>>, Session(w)' PROVE Tables' /\ Session(w)'
  BY <1>1, <1>2, TablesStay
<1>3. CASE StartInbox(w)
  <2> DEFINE r == [Idle EXCEPT !.stage = "scan",
                     !.todo = {e \in Entries : Live(e) /\ entry[e].row.column = None}]
  <2>1. UNCHANGED <<entry, instance, proposal>> /\ request'[w] = r
    BY <1>1, <1>3, RequestSet DEF StartInbox
  <2>2. request'[w].stage = "scan"
    BY <2>1 DEF Idle
  <2> QED
    BY <1>2, <2>1, <2>2, SessionIdle
<1>4. ASSUME NEW e \in Entries, CreateEntry(w, e) PROVE Tables' /\ Session(w)'
  <2>1. /\ request[w] = Idle /\ UNCHANGED <<instance, proposal, request>>
        /\ entry' = [entry EXCEPT ![e].life = "live"] /\ entry[e].life = "unborn"
    BY <1>4 DEF CreateEntry
  <2>2. request'[w].stage = "idle"
    BY <2>1 DEF Idle
  <2>3. entry'[e].row = entry[e].row /\ \A f \in Entries \ {e} : entry'[f] = entry[f]
    BY <1>1, <2>1 DEF TypeOK
  <2>4. ColumnMirrorsCanonical'
    BY <1>1, <2>3 DEF Tables, ColumnMirrorsCanonical
  <2>5. OpenProposalAwaitsUnbound'
    BY <1>1, <2>1, <2>3 DEF Tables, OpenProposalAwaitsUnbound, Live
  <2>6. OneOpen' /\ RejectedPairNeverOpen'
    BY <1>1, <2>1 DEF Tables, OneOpen, RejectedPairNeverOpen
  <2> QED
    BY <2>2, <2>4, <2>5, <2>6, SessionIdle DEF Tables
<1>5. ASSUME NEW e \in Entries, StartMint(w, e) \/ StartDeleteEntry(w, e)
      PROVE  Tables' /\ Session(w)'
  <2>1. PICK s \in {"mint", "delete"} : request'[w] = [Idle EXCEPT !.stage = s, !.entry = e]
    BY <1>1, <1>5, RequestSet DEF StartMint, StartDeleteEntry
  <2>2. request'[w].stage = s /\ request'[w].entry = e
    BY <2>1 DEF Idle
  <2>3. Session(w)'
    BY <2>2 DEF Session
  <2> QED
    BY <1>2, <1>5, <2>3 DEF StartMint, StartDeleteEntry
<1>6. ASSUME NEW e \in Entries, StartUnbind(w, e) \/ StartObserve(w, e)
      PROVE  Tables' /\ Session(w)'
  <2>1. PICK s \in {"unbind", "observe"} :
          request'[w] = [Idle EXCEPT !.stage = s, !.entry = e, !.row = entry[e].row]
    BY <1>1, <1>6, RequestSet DEF StartUnbind, StartObserve
  <2>2. request'[w].stage = s /\ request'[w].entry = e /\ request'[w].row = entry[e].row
    BY <2>1 DEF Idle
  <2>3. UNCHANGED <<entry, instance, proposal>> /\ Live(e)
    BY <1>6 DEF StartUnbind, StartObserve
  <2>4. Session(w)'
    BY <2>2, <2>3 DEF Session, Live
  <2> QED
    BY <1>2, <2>3, <2>4
<1>7. ASSUME NEW e \in Entries, NEW i \in Instances, StartBind(w, e, i)
      PROVE  Tables' /\ Session(w)'
  <2>1. PICK p \in Proposals \cup {None} :
          /\ AnOpenProposal(e, p)
          /\ Begin(w, [Idle EXCEPT !.stage = "bind", !.entry = e, !.instance = i,
                                   !.proposal = p, !.row = entry[e].row])
    BY <1>7 DEF StartBind
  <2>2. request'[w] = [Idle EXCEPT !.stage = "bind", !.entry = e, !.instance = i,
                                   !.proposal = p, !.row = entry[e].row]
    BY <1>1, <2>1, RequestSet
  <2>3. /\ request'[w].stage = "bind" /\ request'[w].entry = e
        /\ request'[w].row = entry[e].row /\ request'[w].proposal = p
    BY <2>2 DEF Idle
  <2>4. UNCHANGED <<entry, instance, proposal>> /\ Live(e)
    BY <1>7 DEF StartBind
  <2>5. Session(w)'
    BY <2>1, <2>3, <2>4 DEF Session, Live, AnOpenProposal, OpenFor
  <2> QED
    BY <1>2, <2>4, <2>5
<1>8. ASSUME NEW e \in Entries, NEW i \in Instances, StartMove(w, e, i)
      PROVE  Tables' /\ Session(w)'
  <2>1. PICK o \in Holders(i) :
          Begin(w, [Idle EXCEPT !.stage = "vacate", !.entry = e, !.instance = i,
                                !.other = o, !.row = entry[o].row])
    BY <1>8 DEF StartMove
  <2>2. request'[w] = [Idle EXCEPT !.stage = "vacate", !.entry = e, !.instance = i,
                                !.other = o, !.row = entry[o].row]
    BY <1>1, <2>1, RequestSet
  <2>3. /\ request'[w].stage = "vacate" /\ request'[w].other = o
        /\ request'[w].row = entry[o].row
    BY <2>2 DEF Idle
  <2>4. UNCHANGED <<entry, instance, proposal>> /\ Live(o)
    BY <1>8, <2>1 DEF StartMove, Holders
  <2>5. Session(w)'
    BY <2>3, <2>4 DEF Session, Live
  <2> QED
    BY <1>2, <2>4, <2>5
<1>9. ASSUME NEW i \in Instances, CreateInstance(w, i) PROVE Tables' /\ Session(w)'
  <2>1. request'[w].stage = "idle" /\ UNCHANGED <<entry, proposal>>
    BY <1>9 DEF CreateInstance, Idle
  <2> QED
    BY <1>1, <2>1, TablesStay, SessionIdle
<1>10. ASSUME NEW i \in Instances, StartDeleteInstance(w, i) PROVE Tables' /\ Session(w)'
  <2>1. UNCHANGED <<entry, instance, proposal>>
    BY <1>10 DEF StartDeleteInstance
  <2>2. CASE Begin(w, [Idle EXCEPT !.stage = "remove", !.instance = i])
    <3>1. request'[w] = [Idle EXCEPT !.stage = "remove", !.instance = i]
      BY <1>1, <2>2, RequestSet
    <3>2. request'[w].stage = "remove"
      BY <3>1 DEF Idle
    <3> QED
      BY <1>2, <2>1, <3>2, SessionIdle
  <2>3. ASSUME NEW o \in Holders(i),
               Begin(w, [Idle EXCEPT !.stage = "evict", !.instance = i,
                                     !.other = o, !.row = entry[o].row])
        PROVE  Tables' /\ Session(w)'
    <3>1. request'[w] = [Idle EXCEPT !.stage = "evict", !.instance = i,
                                     !.other = o, !.row = entry[o].row]
      BY <1>1, <2>3, RequestSet
    <3>2. /\ request'[w].stage = "evict" /\ request'[w].other = o
          /\ request'[w].row = entry[o].row /\ Live(o)
      BY <3>1 DEF Idle, Holders
    <3>3. Session(w)'
      BY <2>1, <3>2 DEF Session, Live
    <3> QED
      BY <1>2, <2>1, <3>3
  <2> QED
    BY <1>10, <2>2, <2>3 DEF StartDeleteInstance
<1>11. ASSUME NEW p \in Proposals, StartConfirm(w, p) PROVE Tables' /\ Session(w)'
  <2> DEFINE e == proposal[p].entry
             i == proposal[p].instance
  <2>1. request'[w] = [Idle EXCEPT !.stage = "confirm", !.entry = e, !.instance = i,
                                   !.proposal = p, !.row = entry[e].row]
    BY <1>1, <1>11, RequestSet DEF StartConfirm
  <2>2. /\ request'[w].stage = "confirm" /\ request'[w].entry = e
        /\ request'[w].row = entry[e].row /\ request'[w].proposal = p
    BY <2>1 DEF Idle
  <2>3. UNCHANGED <<entry, instance, proposal>> /\ Live(e) /\ proposal[p].status = "open"
    BY <1>11 DEF StartConfirm, Resolvable
  <2>4. Session(w)'
    BY <2>2, <2>3 DEF Session, Live
  <2> QED
    BY <1>2, <2>3, <2>4
<1>12. ASSUME NEW p \in Proposals, StartReject(w, p) PROVE Tables' /\ Session(w)'
  <2>1. request'[w] = [Idle EXCEPT !.stage = "reject", !.proposal = p]
    BY <1>1, <1>12, RequestSet DEF StartReject
  <2>2. request'[w].stage = "reject" /\ request'[w].proposal = p
    BY <2>1 DEF Idle
  <2>3. UNCHANGED <<entry, instance, proposal>> /\ proposal[p].status = "open"
    BY <1>12 DEF StartReject, Resolvable
  <2>4. Session(w)'
    BY <2>2, <2>3 DEF Session
  <2> QED
    BY <1>2, <2>3, <2>4
<1> QED
  BY <1>3, <1>4, <1>5, <1>6, <1>7, <1>8, <1>9, <1>10, <1>11, <1>12 DEF Arrive

\* A request goes on, or commits: the only writer is the one who read.
LEMMA ProceedSerial ==
  ASSUME NEW w \in Workers, Serial(w), Proceed(w)
  PROVE  Tables' /\ Session(w)'
<1> DEFINE r == request[w]
<1>1. TypeOK /\ Tables /\ Session(w)
  BY DEF Serial
<1>2. r \in Request
  BY <1>1 DEF TypeOK
<1>3. ASSUME Finish(w) PROVE Session(w)'
  <2>1. request'[w] = Idle
    BY <1>1, <1>3, RequestSet DEF Finish
  <2> QED
    BY <2>1, SessionIdle DEF Idle
<1>4. CASE VacateOther(w) \/ EvictHolder(w)
  <2>1. PICK s \in {"reload", "remove"} :
          request'[w] = [r EXCEPT !.stage = s, !.other = None, !.row = Unbound]
    BY <1>1, <1>4, RequestSet DEF VacateOther, EvictHolder
  <2>2. request'[w].stage = s
    BY <1>2, <2>1 DEF Request
  <2>3. Session(w)'
    BY <2>2, SessionIdle
  <2>4. Save(r.other, entry[r.other].row, Unbound) /\ proposal' = proposal
    BY <1>1, <1>4 DEF VacateOther, EvictHolder, Session, At
  <2> QED
    BY <1>1, <2>3, <2>4, TablesOnRemoval
<1>5. CASE MintInstance(w)
  <2>1. PICK i \in Instances : request'[w] = [r EXCEPT !.stage = "reload", !.instance = i]
    BY <1>1, <1>5, RequestSet DEF MintInstance
  <2>2. request'[w].stage = "reload"
    BY <1>2, <2>1 DEF Request
  <2> QED
    BY <1>1, <1>5, <2>2, SessionIdle, TablesStay DEF MintInstance
<1>6. CASE ReloadEntry(w)
  <2> DEFINE e == r.entry
             row == entry[e].row
  <2>1. PICK p \in Proposals \cup {None} :
          /\ AnOpenProposal(e, p)
          /\ request'[w] = [r EXCEPT !.stage = "bind", !.proposal = p, !.row = row]
    BY <1>1, <1>6, RequestSet DEF ReloadEntry
  <2>2. Live(e) /\ UNCHANGED <<entry, instance, proposal>>
    BY <1>6 DEF ReloadEntry
  <2>3. row \in Row
    BY <1>1, <2>2 DEF TypeOK, Live
  <2> HIDE DEF row
  <2>4. /\ request'[w].stage = "bind" /\ request'[w].entry = e
        /\ request'[w].row = row /\ request'[w].proposal = p
    BY <1>2, <2>1 DEF Request
  <2>5. Session(w)'
    BY <2>1, <2>2, <2>4 DEF Session, Live, AnOpenProposal, OpenFor, row
  <2> QED
    BY <1>1, <2>2, <2>5, TablesStay
<1>7. CASE FinishBind(w)
  <2>1. /\ Save(r.entry, entry[r.entry].row, Bound(r.instance))
        /\ AnOpenProposal(r.entry, r.proposal)
    BY <1>1, <1>7 DEF FinishBind, Session, At
  <2>2. r.instance \in Instances \cup {None} /\ r.proposal \in Proposals \cup {None}
    BY <1>2 DEF Request
  <2>3. IF r.proposal = None THEN proposal' = proposal
        ELSE \E s \in {"confirmed", "rejected"} :
               proposal' = [proposal EXCEPT ![r.proposal].status = s]
    BY <1>7 DEF FinishBind, Resolution
  <2>4. Tables'
    BY <1>1, <2>1, <2>2, <2>3, TablesOnInstall
  <2> QED
    BY <1>3, <1>7, <2>4 DEF FinishBind
<1>8. CASE FinishConfirm(w)
  <2>1. /\ Save(r.entry, entry[r.entry].row, Bound(r.instance))
        /\ r.proposal \in Proposals /\ proposal[r.proposal].status = "open"
        /\ proposal[r.proposal].entry = r.entry
        /\ proposal' = [proposal EXCEPT ![r.proposal].status = "confirmed"]
    BY <1>1, <1>8 DEF FinishConfirm, Session, At
  <2>2. r.instance \in Instances \cup {None} /\ r.proposal # None
    BY <1>2, <2>1, NoneAssumption DEF Request
  <2>3. AnOpenProposal(r.entry, r.proposal)
    BY <2>1 DEF AnOpenProposal, OpenFor
  <2>4. \E s \in {"confirmed", "rejected"} :
               proposal' = [proposal EXCEPT ![r.proposal].status = s]
    BY <2>1
  <2>5. Tables'
    BY <1>1, <2>1, <2>2, <2>3, <2>4, TablesOnInstall
  <2> QED
    BY <1>3, <1>8, <2>5 DEF FinishConfirm
<1>9. CASE FinishUnbind(w)
  <2>1. Save(r.entry, entry[r.entry].row, Unbound) /\ proposal' = proposal
    BY <1>1, <1>9 DEF FinishUnbind, Session, At
  <2> QED
    BY <1>1, <1>3, <1>9, <2>1, TablesOnRemoval DEF FinishUnbind
<1>10. CASE FinishObserve(w)
  <2> DEFINE e == r.entry
  <2>1. Live(e) /\ r.row = entry[e].row /\ proposal' = proposal
        /\ entry' = [entry EXCEPT ![e].row.canonical = r.row.canonical]
    BY <1>1, <1>10 DEF FinishObserve, Session, At
  <2>2. entry' = entry
    BY <1>1, <2>1 DEF TypeOK, Live, Row
  <2> QED
    BY <1>1, <1>3, <1>10, <2>1, <2>2, TablesStay DEF FinishObserve
<1>11. CASE FinishDeleteEntry(w)
  <2> DEFINE e == r.entry
  <2>1. /\ e \in Entries /\ entry' = [entry EXCEPT ![e] = [life |-> "gone", row |-> Unbound]]
        /\ proposal' = [p \in Proposals |->
                          IF proposal[p].entry = e
                          THEN [proposal[p] EXCEPT !.status = "gone"] ELSE proposal[p]]
    BY <1>1, <1>11 DEF FinishDeleteEntry, Session, At
  <2>2. entry'[e].row = Unbound /\ \A f \in Entries \ {e} : entry'[f] = entry[f]
    BY <1>1, <2>1 DEF TypeOK
  <2>3. ASSUME NEW p \in Proposals
        PROVE  IF proposal[p].entry = e THEN proposal'[p].status = "gone"
               ELSE proposal'[p] = proposal[p]
    BY <1>1, <2>1 DEF TypeOK
  <2>4. ColumnMirrorsCanonical'
    BY <1>1, <2>2 DEF Tables, ColumnMirrorsCanonical, Unbound
  <2>5. OpenProposalAwaitsUnbound'
    BY <1>1, <2>2, <2>3 DEF Tables, OpenProposalAwaitsUnbound, Live
  <2>6. OneOpen'
    BY <1>1, <2>3 DEF Tables, OneOpen
  <2>7. RejectedPairNeverOpen'
    BY <1>1, <2>3 DEF Tables, RejectedPairNeverOpen
  <2> QED
    BY <1>3, <1>11, <2>4, <2>5, <2>6, <2>7 DEF FinishDeleteEntry, Tables
<1>12. CASE RemoveInstance(w) \/ FinishInbox(w)
  BY <1>1, <1>3, <1>12, TablesStay DEF RemoveInstance, FinishInbox
<1>13. CASE ScanEntry(w)
  <2>1. r.stage = "scan" /\ UNCHANGED <<entry, instance, proposal>>
    BY <1>13 DEF ScanEntry, At
  <2>2. PICK e \in r.todo :
          /\ Live(e)
          /\ IF NeedsProposal(e) /\ Candidates(e) # {}
             THEN \E i \in Candidates(e) :
                    Continue(w, [r EXCEPT !.stage = "propose", !.entry = e, !.instance = i])
             ELSE Continue(w, [r EXCEPT !.todo = @ \ {e}])
    BY <1>13 DEF ScanEntry
  <2>3. CASE Continue(w, [r EXCEPT !.todo = @ \ {e}])
    <3>1. request'[w] = [r EXCEPT !.todo = @ \ {e}]
      BY <1>1, <2>3, RequestSet
    <3>2. request'[w].stage = "scan"
      BY <1>2, <2>1, <3>1 DEF Request
    <3> QED
      BY <1>1, <2>1, <3>2, SessionIdle, TablesStay
  <2>4. ASSUME NeedsProposal(e), NEW i \in Candidates(e),
               Continue(w, [r EXCEPT !.stage = "propose", !.entry = e, !.instance = i])
        PROVE  Tables' /\ Session(w)'
    <3>1. request'[w] = [r EXCEPT !.stage = "propose", !.entry = e, !.instance = i]
      BY <1>1, <2>4, RequestSet
    <3>2. request'[w].stage = "propose" /\ request'[w].entry = e /\ request'[w].instance = i
      BY <1>2, <3>1 DEF Request
    <3>3. Session(w)'
      BY <2>1, <2>2, <2>4, <3>2
      DEF Session, Live, NeedsProposal, OpenFor, Candidates, Rejected
    <3> QED
      BY <1>1, <2>1, <3>3, TablesStay
  <2> QED
    BY <2>2, <2>3, <2>4
<1>14. CASE InsertProposal(w)
  <2> DEFINE e == r.entry
             i == r.instance
  <2>1. Live(e) /\ NeedsProposal(e) /\ i \in Candidates(e) /\ entry' = entry
    BY <1>1, <1>14 DEF InsertProposal, Session, At
  <2>2. PICK p \in Proposals :
          /\ proposal[p].status = "unborn"
          /\ proposal' = [proposal EXCEPT ![p] = [entry |-> e, instance |-> i, status |-> "open"]]
    BY <1>14 DEF InsertProposal
  <2>3. /\ proposal'[p].entry = e /\ proposal'[p].instance = i /\ proposal'[p].status = "open"
        /\ \A q \in Proposals \ {p} : proposal'[q] = proposal[q]
    BY <1>1, <2>2 DEF TypeOK
  <2>4. ColumnMirrorsCanonical'
    BY <1>1, <2>1 DEF Tables, ColumnMirrorsCanonical
  <2>5. OpenProposalAwaitsUnbound'
    BY <1>1, <2>1, <2>3 DEF Tables, OpenProposalAwaitsUnbound, Live, NeedsProposal
  <2>6. OneOpen'
    BY <1>1, <2>1, <2>3 DEF Tables, OneOpen, NeedsProposal, OpenFor
  <2>7. RejectedPairNeverOpen'
    <3> SUFFICES ASSUME NEW q \in Proposals, NEW t \in Proposals,
                        proposal'[q].status = "open", proposal'[t].status = "rejected",
                        proposal'[q].entry = proposal'[t].entry,
                        proposal'[q].instance = proposal'[t].instance
                 PROVE  FALSE
      BY DEF RejectedPairNeverOpen
    <3>1. t # p /\ proposal'[t] = proposal[t]
      BY <2>3
    <3>2. CASE q = p
      BY <2>1, <2>3, <3>1, <3>2 DEF Candidates, Rejected
    <3>3. CASE q # p
      BY <1>1, <2>3, <3>1, <3>3 DEF Tables, RejectedPairNeverOpen
    <3> QED
      BY <3>2, <3>3
  <2>8. request'[w] = [Idle EXCEPT !.stage = "scan", !.todo = r.todo \ {r.entry}]
    BY <1>1, <1>14, RequestSet DEF InsertProposal
  <2>9. request'[w].stage = "scan"
    BY <2>8 DEF Idle
  <2> QED
    BY <2>4, <2>5, <2>6, <2>7, <2>9, SessionIdle DEF Tables
<1>15. CASE FinishReject(w)
  <2> DEFINE p == r.proposal
  <2>1. p \in Proposals /\ proposal[p].status = "open" /\ entry' = entry
        /\ proposal' = [proposal EXCEPT ![p].status = "rejected"]
    BY <1>1, <1>15 DEF FinishReject, Session, At
  <2>2. OneOpen' /\ RejectedPairNeverOpen'
    BY <1>1, <2>1, ProposalsOnAnswer
  <2>3. /\ proposal'[p].status = "rejected"
        /\ \A q \in Proposals \ {p} : proposal'[q] = proposal[q]
    BY <1>1, <2>1, StatusSet
  <2>4. ColumnMirrorsCanonical'
    BY <1>1, <2>1 DEF Tables, ColumnMirrorsCanonical
  <2>5. OpenProposalAwaitsUnbound'
    BY <1>1, <2>1, <2>3 DEF Tables, OpenProposalAwaitsUnbound, Live
  <2> QED
    BY <1>3, <1>15, <2>2, <2>4, <2>5 DEF FinishReject, Tables
<1> QED
  BY <1>4, <1>5, <1>6, <1>7, <1>8, <1>9, <1>10, <1>11, <1>12, <1>13, <1>14, <1>15 DEF Proceed

LEMMA SerialStep ==
  ASSUME NEW w \in Workers, Workers = {w}, Serial(w), IInv, [Next]_vars
  PROVE  Serial(w)'
<1>1. TypeOK'
  BY InductiveStep DEF IInv
<1>2. CASE Arrive(w)
  BY <1>1, <1>2, ArriveSerial DEF Serial
<1>3. CASE Proceed(w)
  BY <1>1, <1>3, ProceedSerial DEF Serial
<1>4. CASE Abandon(w)
  <2>1. request'[w] = Idle
    BY <1>4, RequestSet DEF Abandon, Finish, Serial
  <2>2. Session(w)'
    BY <2>1, SessionIdle DEF Idle
  <2> QED
    BY <1>1, <1>4, <2>2, TablesStay DEF Abandon, Serial
<1>5. CASE UNCHANGED vars
  <2>1. Session(w)'
    BY <1>5
    DEF vars, Serial, Session, Live, AnOpenProposal, OpenFor, NeedsProposal, Candidates, Rejected
  <2> QED
    BY <1>1, <1>5, <2>1, TablesStay DEF vars, Serial
<1> QED
  BY <1>2, <1>3, <1>4, <1>5 DEF Next

LEMMA SerialAlways ==
  ASSUME NEW w, Workers = {w}
  PROVE  Spec => [](IInv /\ Serial(w))
<1>1. w \in Workers
  OBVIOUS
<1>2. Init => IInv /\ Serial(w)
  <2> SUFFICES ASSUME Init PROVE IInv /\ Serial(w)
    OBVIOUS
  <2>1. IInv
    BY InitTyped DEF IInv, InstallOnce, Init, Unbound
  <2>2. Tables
    BY DEF Init, Tables, ColumnMirrorsCanonical, OpenProposalAwaitsUnbound, OneOpen,
           RejectedPairNeverOpen, Unbound
  <2>3. Session(w)
    BY <1>1 DEF Init, Session, Idle
  <2> QED
    BY <2>1, <2>2, <2>3 DEF IInv, Serial
<1>3. IInv /\ Serial(w) /\ [Next]_vars => (IInv /\ Serial(w))'
  BY <1>1, InductiveStep, SerialStep
<1> QED
  BY <1>2, <1>3, PTL DEF Spec

\* The indexed column and the canonical leaf of an entry name the same instance
\* through every door, the rewrites of an observation and every cut included
\* (database/schema.py:278), while requests are served one at a time.
THEOREM MirrorKept ==
  ASSUME NEW w, Workers = {w}
  PROVE  Spec => []ColumnMirrorsCanonical
<1>1. IInv /\ Serial(w) => ColumnMirrorsCanonical
  BY DEF Serial, Tables
<1> QED
  BY <1>1, SerialAlways, PTL

\* An open proposal awaits an entry that exists and holds nothing, so that
\* confirming it displaces no tool, for any number of entries, instances and
\* proposals, while requests are served one at a time.
THEOREM ProposalsAwaitUnbound ==
  ASSUME NEW w, Workers = {w}
  PROVE  Spec => []OpenProposalAwaitsUnbound
<1>1. IInv /\ Serial(w) => OpenProposalAwaitsUnbound
  BY DEF Serial, Tables
<1> QED
  BY <1>1, SerialAlways, PTL

\* An entry never has two open proposals: bind closes the first it finds, and
\* that is all there are, while requests are served one at a time.
THEOREM OneProposalPerEntry ==
  ASSUME NEW w, Workers = {w}
  PROVE  Spec => []OneOpenProposal
<1>1. IInv /\ Serial(w) => OneOpenProposal
  <2> SUFFICES ASSUME OneOpen, NEW e \in Entries PROVE Cardinality(OpenFor(e)) <= 1
    BY DEF Serial, Tables, OneOpenProposal
  <2>1. CASE OpenFor(e) = {}
    BY <2>1, FS_EmptySet
  <2>2. CASE OpenFor(e) # {}
    <3>1. PICK p \in Proposals : OpenFor(e) = {p}
      BY <2>2 DEF OneOpen, OpenFor
    <3> QED
      BY <3>1, FS_Singleton
  <2> QED
    BY <2>1, <2>2
<1> QED
  BY <1>1, SerialAlways, PTL

\* A rejected pair of entry and instance is never open again: the inbox that
\* generates proposals leaves out what was rejected (propose_for_entry), while
\* requests are served one at a time.
THEOREM RejectedPairsStayClosed ==
  ASSUME NEW w, Workers = {w}
  PROVE  Spec => []RejectedPairNeverOpen
<1>1. IInv /\ Serial(w) => RejectedPairNeverOpen
  BY DEF Serial, Tables
<1> QED
  BY <1>1, SerialAlways, PTL

\* A resolved proposal is never answered again, by a second confirm or reject
\* or by a bind, and only goes with its entry, while requests are served one at
\* a time (api/instance_inbox.py:74-75).
THEOREM AnswersAreFinal ==
  ASSUME NEW w, Workers = {w}
  PROVE  Spec => ResolvedStaysResolved
<1>1. w \in Workers
  OBVIOUS
<1>2. ASSUME IInv, Serial(w), [Next]_vars, NEW p \in Proposals,
             proposal[p].status \in {"confirmed", "rejected"}
      PROVE  proposal'[p].status \in {proposal[p].status, "gone"}
  <2>1. TypeOK /\ Session(w)
    BY <1>2 DEF Serial
  <2>2. CASE UNCHANGED proposal
    BY <2>2
  <2>3. ASSUME NEW q \in Proposals, proposal[q].status = "open", NEW s,
               proposal' = [proposal EXCEPT ![q].status = s]
        PROVE  proposal'[p].status \in {proposal[p].status, "gone"}
    <3>1. p # q
      BY <1>2, <2>3
    <3> QED
      BY <2>1, <2>3, <3>1, StatusSet
  <2>4. CASE FinishBind(w)
    <3> DEFINE q == request[w].proposal
    <3>1. CASE q = None
      BY <2>2, <2>4, <3>1 DEF FinishBind
    <3>2. CASE q # None
      <4>1. q \in Proposals /\ proposal[q].status = "open"
        BY <2>1, <2>4, <3>2 DEF FinishBind, Session, At, AnOpenProposal, OpenFor
      <4> QED
        BY <2>3, <2>4, <3>2, <4>1 DEF FinishBind
    <3> QED
      BY <3>1, <3>2
  <2>5. CASE FinishConfirm(w)
    BY <2>1, <2>3, <2>5 DEF FinishConfirm, Session, At
  <2>6. CASE FinishReject(w)
    BY <2>1, <2>3, <2>6 DEF FinishReject, Session, At
  <2>7. CASE FinishDeleteEntry(w)
    <3>1. proposal' = [q \in Proposals |->
                          IF proposal[q].entry = request[w].entry
                          THEN [proposal[q] EXCEPT !.status = "gone"] ELSE proposal[q]]
      BY <2>7 DEF FinishDeleteEntry
    <3> QED
      BY <2>1, <3>1 DEF TypeOK
  <2>8. CASE InsertProposal(w)
    <3>1. PICK q \in Proposals :
            /\ proposal[q].status = "unborn"
            /\ proposal' = [proposal EXCEPT ![q] =
                 [entry |-> request[w].entry, instance |-> request[w].instance,
                  status |-> "open"]]
      BY <2>8 DEF InsertProposal
    <3>2. p # q
      BY <1>2, <3>1
    <3> QED
      BY <2>1, <3>1, <3>2 DEF TypeOK
  <2>9. CASE Arrive(w)
    BY <2>2, <2>9
    DEF Arrive, CreateEntry, StartInbox, StartMint, StartUnbind, StartObserve,
        StartDeleteEntry, StartBind, StartMove, CreateInstance, StartDeleteInstance,
        StartConfirm, StartReject
  <2>10. CASE Proceed(w)
    BY <2>2, <2>4, <2>5, <2>6, <2>7, <2>8, <2>10
    DEF Proceed, VacateOther, MintInstance, ReloadEntry, FinishUnbind, FinishObserve,
        EvictHolder, RemoveInstance, ScanEntry, FinishInbox
  <2>11. CASE Abandon(w)
    BY <2>2, <2>11 DEF Abandon
  <2>12. CASE UNCHANGED vars
    BY <2>2, <2>12 DEF vars
  <2> QED
    BY <1>1, <1>2, <2>9, <2>10, <2>11, <2>12 DEF Next
<1>3. IInv /\ Serial(w) /\ [Next]_vars =>
        [\A p \in Proposals : proposal[p].status \in {"confirmed", "rejected"} =>
           proposal'[p].status \in {proposal[p].status, "gone"}]_vars
  BY <1>2
<1> QED
  BY <1>3, SerialAlways, PTL DEF Spec, ResolvedStaysResolved
=============================================================================
