---------------------------- MODULE UsageLedger ----------------------------
(***************************************************************************)
(* Tool life across machines (usage_ledger.py; the usage part of           *)
(* sync_entries and observe_canonical).  A controller keeps a cumulative,  *)
(* resettable counter per tool-table entry; a push carries readings, and   *)
(* the server turns each into a delta that it credits to the instance      *)
(* bound at both ends of the interval, or records as orphaned.             *)
(*                                                                         *)
(* One push walks its entries on one session.  The USAGE and DERIVE audit  *)
(* rows commit in the middle of the walk, so that the ledger row of an     *)
(* entry is durable before its new reading is.                             *)
(***************************************************************************)
EXTENDS Naturals, FiniteSets

CONSTANTS
  Entries, Instances, Workers, None,
  MaxHours,  \* bound: hours all controllers count in a behaviour
  Failures   \* bound: pushes cut off between two of their commits

ASSUME MaxHoursAssumption == MaxHours \in Nat
ASSUME FailuresAssumption == Failures \in Nat
ASSUME NoneAssumption == None \notin Instances \cup Nat
ASSUME FinitenessAssumption == IsFiniteSet(Entries) /\ IsFiniteSet(Instances)

VARIABLES
  counter,   \* counter[e]: what the controller shows for e now
  holds,     \* bound_instance_id of each entry
  reading,   \* canonical usage_hours of each entry, None before the first
  baseline,  \* usage_baseline_instance_id: the binding at the last reading
  ledger,    \* ledger[e][i]: hours recorded on e for i (None: orphaned)
  hours,     \* canonical usage.hours of each instance, the derived total
  request,   \* what each worker's session holds between two steps
  truth,     \* history, read by no handler: what happened at the machine
  failed     \* how many pushes were cut off

vars == <<counter, holds, reading, baseline, ledger, hours, request, truth, failed>>

Binding == Instances \cup {None}
Hour == 0 .. MaxHours

Request == [stage    : {"idle", "items", "ledger", "total", "derive"},
            payload  : [Entries -> Hour],     \* the readings pushed
            todo     : SUBSET Entries,        \* entries still to visit
            entry    : Entries \cup {None},   \* the entry being ingested
            amount   : Hour,
            credit   : Binding,               \* whom the delta goes to
            bound    : [Entries -> Binding],  \* bindings as they were loaded
            stamps   : SUBSET Entries,        \* baselines assigned, not flushed
            readings : SUBSET Entries,        \* canonicals assigned, not flushed
            total    : Nat]

Idle == [stage |-> "idle", payload |-> [e \in Entries |-> 0], todo |-> {},
         entry |-> None, amount |-> 0, credit |-> None,
         bound |-> [e \in Entries |-> None], stamps |-> {}, readings |-> {},
         total |-> 0]

TypeOK ==
  /\ counter \in [Entries -> Hour]
  /\ holds \in [Entries -> Binding]
  /\ reading \in [Entries -> Hour \cup {None}]
  /\ baseline \in [Entries -> Binding]
  /\ ledger \in [Entries -> [Binding -> Nat]]
  /\ hours \in [Instances -> Nat]
  /\ request \in [Workers -> Request]
  /\ truth \in [Entries -> [ran : Hour, first : Hour \cup {None},
                            reset : BOOLEAN, seen : Binding]]
  /\ failed \in 0 .. Failures

Init ==
  /\ counter = [e \in Entries |-> 0]
  /\ holds = [e \in Entries |-> None]
  /\ reading = [e \in Entries |-> None]
  /\ baseline = [e \in Entries |-> None]
  /\ ledger = [e \in Entries |-> [i \in Binding |-> 0]]
  /\ hours = [i \in Instances |-> 0]
  /\ request = [w \in Workers |-> Idle]
  /\ truth = [e \in Entries |->
                [ran |-> 0, first |-> None, reset |-> FALSE, seen |-> None]]
  /\ failed = 0

-----------------------------------------------------------------------------
(* The machine and the operator. *)

\* The sum of a function, as the number of its single hours.
SingleHours(f) == UNION {{x} \X (1 .. f[x]) : x \in DOMAIN f}
Total(f) == Cardinality(SingleHours(f))

Cut(e) ==
  /\ Total([f \in Entries |-> truth[f].ran]) < MaxHours
  /\ counter' = [counter EXCEPT ![e] = @ + 1]
  /\ truth' = [truth EXCEPT ![e].ran = @ + 1]
  /\ UNCHANGED <<holds, reading, baseline, ledger, hours, request, failed>>

\* The operator zeroes the counter, for instance when an insert is changed.
ZeroCounter(e) ==
  /\ counter[e] > 0
  /\ counter' = [counter EXCEPT ![e] = 0]
  /\ truth' = [truth EXCEPT ![e].reset = TRUE]
  /\ UNCHANGED <<holds, reading, baseline, ledger, hours, request, failed>>

\* Any of the binding doors, as Binding implements them.
Place == INSTANCE Placement
Rebind ==
  /\ Place!Next
  /\ UNCHANGED <<counter, reading, baseline, ledger, hours, request, truth, failed>>

-----------------------------------------------------------------------------
(* A push. *)

At(w, stage) == request[w].stage = stage
Continue(w, r) == request' = [request EXCEPT ![w] = r]

\* What a commit makes durable of a push whose session holds r.
FlushReadings(r) ==
  /\ reading' = [e \in Entries |->
                   IF e \in r.readings THEN r.payload[e] ELSE reading[e]]
  /\ truth' = [e \in Entries |->
       IF e \in r.readings
       THEN [truth[e] EXCEPT !.seen = r.bound[e],
                             !.first = IF @ = None THEN r.payload[e] ELSE @]
       ELSE truth[e]]

FlushBaselines(r) ==
  baseline' = [e \in Entries |->
                 IF e \in r.stamps THEN r.bound[e] ELSE baseline[e]]

\* POST /sync carries several entries, the observe door one.
StartPush(w, S) ==
  /\ At(w, "idle")
  /\ Continue(w, [Idle EXCEPT !.stage = "items", !.todo = S,
                    !.payload = [e \in Entries |-> IF e \in S THEN counter[e] ELSE 0]])
  /\ UNCHANGED <<counter, holds, reading, baseline, ledger, hours, truth, failed>>

\* Mutants of Delta: the counter as a gauge; a previous zero taken for no
\* reading; a reset taken for a negative delta.
DeltaGauge(previous, new) == new
DeltaFalsy(previous, new) ==
  IF previous \in {None, 0} THEN 0 ELSE IF new > previous THEN new - previous ELSE 0
DeltaSigned(previous, new) == IF previous = None THEN 0 ELSE new - previous

\* Hours to record: none on the first reading, after a reset, or unchanged.
Delta(previous, new) ==
  IF previous = None THEN 0 ELSE IF new > previous THEN new - previous ELSE 0

\* The instance bound at both ends of the interval, else nobody.
CreditTo(bound, base) == IF bound = base THEN bound ELSE None

\* ingest_usage_observation up to the point where it has decided.
IngestItem(w, e) ==
  LET r      == request[w]
      amount == Delta(reading[e], r.payload[e])
      seen   == [r EXCEPT !.bound[e] = holds[e], !.stamps = @ \cup {e},
                          !.todo = @ \ {e}]
  IN /\ At(w, "items")
     /\ e \in r.todo
     /\ Continue(w, IF amount = 0
                    THEN [seen EXCEPT !.readings = @ \cup {e}]
                    ELSE [seen EXCEPT !.stage = "ledger", !.entry = e,
                            !.amount = amount,
                            !.credit = CreditTo(holds[e], baseline[e])])
     /\ UNCHANGED <<counter, holds, reading, baseline, ledger, hours, truth, failed>>

\* Back to the walk: the caller assigns the reading of the entry just ingested.
NextItem(r) ==
  [r EXCEPT !.stage = "items", !.readings = {r.entry}, !.stamps = {},
            !.entry = None, !.amount = 0, !.credit = None, !.total = 0]

\* The USAGE audit row commits the ledger row, the baseline of its entry and
\* all that the entries before it left pending.
CommitLedgerRow(w) ==
  LET r == request[w] IN
  /\ At(w, "ledger")
  /\ ledger' = [ledger EXCEPT ![r.entry][r.credit] = @ + r.amount]
  /\ FlushReadings(r)
  /\ FlushBaselines(r)
  /\ Continue(w, IF r.credit = None THEN NextItem(r)
                 ELSE [r EXCEPT !.stage = "total", !.stamps = {}, !.readings = {}])
  /\ UNCHANGED <<counter, holds, hours, failed>>

\* instance_total: the sum of the instance's contributions on every entry.
InstanceTotal(i) == Total([e \in Entries |-> ledger[e][i]])

\* Mutant of DerivedTotal: a total that is advanced instead of recomputed.
DerivedTotalAdvanced(e, i) == hours[i] + ledger[e][i]
DerivedTotal(e, i) == InstanceTotal(i)

\* recompute_instance_usage: the SELECT of the sum, then the DERIVE commit.
SumContributions(w) ==
  LET r == request[w] IN
  /\ At(w, "total")
  /\ Continue(w, [r EXCEPT !.stage = "derive", !.total = DerivedTotal(r.entry, r.credit)])
  /\ UNCHANGED <<counter, holds, reading, baseline, ledger, hours, truth, failed>>

CommitTotal(w) ==
  LET r == request[w] IN
  /\ At(w, "derive")
  /\ hours' = [hours EXCEPT ![r.credit] = r.total]
  /\ Continue(w, NextItem(r))
  /\ UNCHANGED <<counter, holds, reading, baseline, ledger, truth, failed>>

\* The SYNC_TABLE or OBSERVE audit row commits what is still pending.
FinishPush(w) ==
  /\ At(w, "items")
  /\ request[w].todo = {}
  /\ FlushReadings(request[w])
  /\ FlushBaselines(request[w])
  /\ Continue(w, Idle)
  /\ UNCHANGED <<counter, holds, ledger, hours, failed>>

\* The process dies, or a later entry of the push is refused with a 400: the
\* session rolls back, and the ledger rows already committed stay.
Abandon(w) ==
  /\ ~At(w, "idle")
  /\ failed < Failures
  /\ failed' = failed + 1
  /\ Continue(w, Idle)
  /\ UNCHANGED <<counter, holds, reading, baseline, ledger, hours, truth>>

Serve(w) ==
  \/ \E S \in (SUBSET Entries) \ {{}} : StartPush(w, S)
  \/ \E e \in Entries : IngestItem(w, e)
  \/ CommitLedgerRow(w) \/ SumContributions(w) \/ CommitTotal(w)
  \/ FinishPush(w) \/ Abandon(w)

Next ==
  \/ \E e \in Entries : Cut(e) \/ ZeroCounter(e)
  \/ Rebind
  \/ \E w \in Workers : Serve(w)

Spec == Init /\ [][Next]_vars

-----------------------------------------------------------------------------
(* What holds while pushes are served one at a time and none was cut off.  *)

Quiet == \A w \in Workers : At(w, "idle")
Recorded(e) == Total(ledger[e])

\* No hour is recorded twice: what the ledger holds for an entry, credited and
\* orphaned together, never exceeds what its controller really counted, through
\* resets, partial pushes and changes of binding (docs/TOOL_SCHEMA.md:488-489).
NeverCountedTwice == \A e \in Entries : Recorded(e) <= truth[e].ran

\* It holds as long as no push was cut off; the retry of one that was breaks it.
RecordedHoursWereRun == failed = 0 => NeverCountedTwice

\* No hour is lost: between pushes, an entry whose counter was never zeroed
\* has exactly the hours from its first reading to its last in the ledger.
NoHourLost ==
  Quiet /\ failed = 0 => \A e \in Entries :
    reading[e] # None /\ ~truth[e].reset => Recorded(e) + truth[e].first = reading[e]

\* Between pushes the derived total on each instance is the sum of its
\* contributions over all machines (usage_ledger.py:19-22).
TotalsDecompose ==
  Quiet /\ failed = 0 => \A i \in Instances : hours[i] = InstanceTotal(i)

\* Hours are only credited to the instance that was bound at the previous
\* reading of that entry and is bound at this one; all others are orphaned and
\* never guessed onto an instance (usage_ledger.py:11-15).
CreditAtBothEnds ==
  failed = 0 => \A e \in Entries, i \in Instances :
    ledger'[e][i] > ledger[e][i] =>
      /\ truth[e].seen = i
      /\ \E w \in Workers : At(w, "ledger") /\ request[w].bound[e] = i
CreditNeedsBothEnds == [][CreditAtBothEnds]_vars

-----------------------------------------------------------------------------
(* What holds when pushes may be cut off, one at a time. *)

\* A derived total may lag behind the ledger and never runs ahead of it or
\* backwards ("stale only until the next recompute", docs/TOOL_SCHEMA.md:499).
TotalsOnlyLag ==
  /\ [](\A i \in Instances : hours[i] <= InstanceTotal(i))
  /\ [][\A i \in Instances : hours'[i] >= hours[i]]_vars
=============================================================================
