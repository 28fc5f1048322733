-------------------------- MODULE UsageLedgerProofs --------------------------
(***************************************************************************)
(* For any finite fleet of entries and instances, and any number of hours, *)
(* resets, rebindings and cuts: the types, and, while pushes are served    *)
(* one at a time, what the ledger and the totals derived from it promise.  *)
(***************************************************************************)
EXTENDS UsageLedger, FiniteSetTheorems, TLAPS

-----------------------------------------------------------------------------
(* Sums. *)

LEMMA TotalIsNat ==
  ASSUME NEW S, IsFiniteSet(S), NEW f \in [S -> Nat]
  PROVE  IsFiniteSet(SingleHours(f)) /\ Total(f) \in Nat
<1> DEFINE column == [x \in S |-> {x} \X (1 .. f[x])]
           columns == {{x} \X (1 .. f[x]) : x \in S}
<1>1. column \in Surjection(S, columns)
  BY DEF Surjection
<1>2. IsFiniteSet(columns)
  BY <1>1, FS_Surjection
<1>3. ASSUME NEW x \in S PROVE IsFiniteSet({x} \X (1 .. f[x]))
  <2>1. IsFiniteSet({x})
    BY FS_Singleton
  <2>2. IsFiniteSet(1 .. f[x])
    BY FS_Interval
  <2> QED
    BY <2>1, <2>2, FS_Product
<1>4. IsFiniteSet(UNION columns)
  BY <1>2, <1>3, FS_UNION
<1>5. SingleHours(f) = UNION columns
  BY DEF SingleHours
<1> QED
  BY <1>4, <1>5, FS_CardinalityType DEF Total

LEMMA SingleHour ==
  ASSUME NEW S, NEW f \in [S -> Nat], NEW x, NEW h
  PROVE  <<x, h>> \in SingleHours(f) <=> x \in S /\ h \in 1 .. f[x]
BY DEF SingleHours

\* One hour of x for each number of an interval.
LEMMA ColumnCardinality ==
  ASSUME NEW d \in Nat, NEW column, NEW x, NEW a \in Nat, column = {x} \X (a + 1 .. a + d)
  PROVE  IsFiniteSet(column) /\ Cardinality(column) = d
<1> DEFINE rows == a + 1 .. a + d
<1>1. IsFiniteSet({x}) /\ Cardinality({x}) = 1
  BY FS_Singleton
<1>2. a + 1 \in Int /\ a + d \in Int
  OBVIOUS
<1>3. /\ IsFiniteSet(rows)
      /\ Cardinality(rows) = IF a + 1 > a + d THEN 0 ELSE a + d - (a + 1) + 1
  BY <1>2, FS_Interval
<1>4. Cardinality(rows) = d
  BY <1>3
<1> HIDE DEF rows
<1>5. /\ IsFiniteSet({x} \X rows)
      /\ Cardinality({x} \X rows) = Cardinality({x}) * Cardinality(rows)
  BY <1>1, <1>3, FS_Product
<1>6. column = {x} \X rows
  BY DEF rows
<1> QED
  BY <1>1, <1>4, <1>5, <1>6

LEMMA TotalAdds ==
  ASSUME NEW S, IsFiniteSet(S), NEW f \in [S -> Nat], NEW x \in S, NEW d \in Nat
  PROVE  Total([f EXCEPT ![x] = @ + d]) = Total(f) + d
<1> DEFINE g == [f EXCEPT ![x] = @ + d]
           new == {x} \X (f[x] + 1 .. f[x] + d)
<1>1. g \in [S -> Nat] /\ g[x] = f[x] + d /\ \A y \in S \ {x} : g[y] = f[y]
  OBVIOUS
<1>2. IsFiniteSet(new) /\ Cardinality(new) = d
  <2>1. \E a \in Nat : new = {x} \X (a + 1 .. a + d)
    OBVIOUS
  <2> HIDE DEF new
  <2> QED
    BY <2>1, ColumnCardinality
<1>3. IsFiniteSet(SingleHours(f)) /\ Total(f) \in Nat
  BY TotalIsNat
<1> HIDE DEF g
<1>4. \A y, h : <<y, h>> \in SingleHours(g) <=> <<y, h>> \in SingleHours(f) \cup new
  <2> SUFFICES ASSUME NEW y, NEW h
               PROVE  <<y, h>> \in SingleHours(g) <=> <<y, h>> \in SingleHours(f) \cup new
    OBVIOUS
  <2>1. <<y, h>> \in SingleHours(g) <=> y \in S /\ h \in 1 .. g[y]
    BY <1>1, SingleHour
  <2>2. <<y, h>> \in SingleHours(f) <=> y \in S /\ h \in 1 .. f[y]
    BY SingleHour
  <2>3. CASE y = x
    BY <1>1, <2>1, <2>2, <2>3
  <2>4. CASE y # x
    BY <1>1, <2>1, <2>2, <2>4
  <2> QED
    BY <2>3, <2>4
<1>5. SingleHours(g) = SingleHours(f) \cup new
  <2>1. \A p \in SingleHours(g) : p = <<p[1], p[2]>>
    BY DEF SingleHours
  <2>2. \A p \in SingleHours(f) \cup new : p = <<p[1], p[2]>>
    BY DEF SingleHours
  <2> HIDE DEF new
  <2> QED
    BY <1>4, <2>1, <2>2
<1>6. SingleHours(f) \cap new = {}
  <2> SUFFICES ASSUME NEW p \in SingleHours(f), p \in new PROVE FALSE
    OBVIOUS
  <2>1. p = <<x, p[2]>> /\ p[2] \in f[x] + 1 .. f[x] + d
    OBVIOUS
  <2>2. p[2] \in 1 .. f[x]
    BY <2>1, SingleHour
  <2> QED
    BY <2>1, <2>2
<1>7. Cardinality(SingleHours(g)) = Cardinality(SingleHours(f)) + d - Cardinality({})
  <2> HIDE DEF new
  <2> QED
    BY <1>2, <1>3, <1>5, <1>6, FS_Union
<1>8. Cardinality({}) = 0
  BY FS_EmptySet
<1> QED
  BY <1>3, <1>7, <1>8 DEF Total, g

LEMMA TotalOfNothing ==
  ASSUME NEW S, NEW f \in [S -> Nat], \A x \in S : f[x] = 0
  PROVE  Total(f) = 0
<1>1. \A x \in S : 1 .. f[x] = {}
  OBVIOUS
<1>2. SingleHours(f) = {}
  BY <1>1 DEF SingleHours
<1> QED
  BY <1>2, FS_EmptySet DEF Total

LEMMA TotalIsMore ==
  ASSUME NEW S, IsFiniteSet(S), NEW f \in [S -> Nat], NEW x \in S
  PROVE  f[x] <= Total(f)
<1> DEFINE part == {x} \X (1 .. f[x])
<1>1. part \subseteq SingleHours(f)
  BY DEF SingleHours
<1>2. Cardinality(part) = f[x]
  <2>1. f[x] \in Nat /\ part = {x} \X (0 + 1 .. 0 + f[x])
    OBVIOUS
  <2>2. \E a \in Nat : part = {x} \X (a + 1 .. a + f[x])
    BY <2>1
  <2> HIDE DEF part
  <2> QED
    BY <2>1, <2>2, ColumnCardinality
<1>3. Cardinality(part) <= Cardinality(SingleHours(f))
  BY <1>1, TotalIsNat, FS_Subset
<1> QED
  BY <1>2, <1>3 DEF Total

LEMMA BindingFinite == IsFiniteSet(Binding) /\ IsFiniteSet(Entries)
<1>1. IsFiniteSet({None})
  BY FS_Singleton
<1> QED
  BY <1>1, FinitenessAssumption, FS_Union DEF Binding

-----------------------------------------------------------------------------
(* Types. *)

Truth == [ran : Hour, first : Hour \cup {None}, reset : BOOLEAN, seen : Binding]

\* An entry is in hand while its reading is ingested, and an instance while its
\* total is derived; a request that is over holds nothing.
StageTyped(r) ==
  /\ r.stage = "idle" => r = Idle
  /\ r.stage \in {"ledger", "total", "derive"} => r.entry \in Entries
  /\ r.stage \in {"total", "derive"} => r.credit \in Instances

Typed ==
  /\ TypeOK
  /\ \A e \in Entries : counter[e] <= truth[e].ran
  /\ \A w \in Workers : StageTyped(request[w])

LEMMA NoneIsNoHour == None \notin Instances /\ None \notin Nat /\ None \notin Hour
BY NoneAssumption DEF Hour

LEMMA IdleTyped == Idle \in Request /\ StageTyped(Idle)
BY MaxHoursAssumption DEF Idle, Request, StageTyped, Hour, Binding

\* One more hour, another reset, another reading.
LEMMA RanTyped ==
  ASSUME NEW t \in Truth, NEW n \in Hour
  PROVE  /\ [t EXCEPT !.ran = n] \in Truth
         /\ [t EXCEPT !.ran = n].ran = n /\ [t EXCEPT !.ran = n].first = t.first
         /\ [t EXCEPT !.ran = n].reset = t.reset /\ [t EXCEPT !.ran = n].seen = t.seen
BY DEF Truth

LEMMA ResetTyped ==
  ASSUME NEW t \in Truth
  PROVE  /\ [t EXCEPT !.reset = TRUE] \in Truth
         /\ [t EXCEPT !.reset = TRUE].ran = t.ran /\ [t EXCEPT !.reset = TRUE].first = t.first
         /\ [t EXCEPT !.reset = TRUE].reset = TRUE /\ [t EXCEPT !.reset = TRUE].seen = t.seen
BY DEF Truth

\* A commit of the readings and baselines that r holds.
LEMMA FlushTyped ==
  ASSUME TypeOK, NEW r \in Request, FlushReadings(r), FlushBaselines(r)
  PROVE  /\ reading' \in [Entries -> Hour \cup {None}]
         /\ baseline' \in [Entries -> Binding]
         /\ truth' \in [Entries -> Truth]
         /\ \A e \in Entries :
              /\ reading'[e] = IF e \in r.readings THEN r.payload[e] ELSE reading[e]
              /\ baseline'[e] = IF e \in r.stamps THEN r.bound[e] ELSE baseline[e]
              /\ truth'[e].ran = truth[e].ran /\ truth'[e].reset = truth[e].reset
              /\ truth'[e].seen = IF e \in r.readings THEN r.bound[e] ELSE truth[e].seen
              /\ truth'[e].first = IF e \in r.readings /\ truth[e].first = None
                                   THEN r.payload[e] ELSE truth[e].first
              /\ e \notin r.readings => truth'[e] = truth[e]
<1>1. /\ r.payload \in [Entries -> Hour] /\ r.bound \in [Entries -> Binding]
      /\ truth \in [Entries -> Truth]
  BY DEF Request, TypeOK, Truth
<1>2. /\ reading' \in [Entries -> Hour \cup {None}] /\ baseline' \in [Entries -> Binding]
      /\ \A e \in Entries :
              /\ reading'[e] = IF e \in r.readings THEN r.payload[e] ELSE reading[e]
              /\ baseline'[e] = IF e \in r.stamps THEN r.bound[e] ELSE baseline[e]
  BY <1>1 DEF FlushReadings, FlushBaselines, TypeOK
<1> DEFINE u(e) == [truth[e] EXCEPT !.seen = r.bound[e],
                                    !.first = IF @ = None THEN r.payload[e] ELSE @]
<1>3. truth' = [e \in Entries |-> IF e \in r.readings THEN u(e) ELSE truth[e]]
  BY DEF FlushReadings
<1>4. \A e \in Entries :
        /\ u(e) \in Truth /\ u(e).ran = truth[e].ran /\ u(e).reset = truth[e].reset
        /\ u(e).seen = r.bound[e]
        /\ u(e).first = IF truth[e].first = None THEN r.payload[e] ELSE truth[e].first
  <2> SUFFICES ASSUME NEW e \in Entries
               PROVE  /\ u(e) \in Truth /\ u(e).ran = truth[e].ran /\ u(e).reset = truth[e].reset
                      /\ u(e).seen = r.bound[e]
                      /\ u(e).first = IF truth[e].first = None THEN r.payload[e]
                                      ELSE truth[e].first
    OBVIOUS
  <2>1. truth[e] \in Truth /\ r.bound[e] \in Binding /\ r.payload[e] \in Hour
    BY <1>1
  <2> DEFINE first == IF truth[e].first = None THEN r.payload[e] ELSE truth[e].first
  <2>2. first \in Hour \cup {None} /\ u(e) = [truth[e] EXCEPT !.seen = r.bound[e], !.first = first]
    BY <2>1 DEF Truth
  <2> HIDE DEF first
  <2>3. u(e) \in Truth
    BY <2>1, <2>2 DEF Truth
  <2>4. u(e).ran = truth[e].ran /\ u(e).reset = truth[e].reset /\ u(e).seen = r.bound[e]
        /\ u(e).first = first
    BY <2>1, <2>2 DEF Truth
  <2> QED
    BY <2>3, <2>4 DEF first
<1> HIDE DEF u
<1>5. truth' \in [Entries -> Truth]
  BY <1>1, <1>3, <1>4
<1>6. \A e \in Entries :
              /\ truth'[e].ran = truth[e].ran /\ truth'[e].reset = truth[e].reset
              /\ truth'[e].seen = IF e \in r.readings THEN r.bound[e] ELSE truth[e].seen
              /\ truth'[e].first = IF e \in r.readings /\ truth[e].first = None
                                   THEN r.payload[e] ELSE truth[e].first
  <2> SUFFICES ASSUME NEW e \in Entries
               PROVE  /\ truth'[e].ran = truth[e].ran /\ truth'[e].reset = truth[e].reset
                      /\ truth'[e].seen = IF e \in r.readings THEN r.bound[e] ELSE truth[e].seen
                      /\ truth'[e].first = IF e \in r.readings /\ truth[e].first = None
                                           THEN r.payload[e] ELSE truth[e].first
    OBVIOUS
  <2>1. CASE e \in r.readings
    BY <1>3, <1>4, <2>1
  <2>2. CASE e \notin r.readings
    BY <1>3, <2>2
  <2> QED
    BY <2>1, <2>2
<1>7. \A e \in Entries : e \notin r.readings => truth'[e] = truth[e]
  BY <1>3
<1> QED
  BY <1>2, <1>5, <1>6, <1>7

LEMMA DeltaTyped ==
  ASSUME NEW p \in Hour \cup {None}, NEW x \in Hour
  PROVE  /\ Delta(p, x) \in Hour /\ Delta(p, x) \in Nat
         /\ x \in Nat /\ (p # None => p \in Nat)
<1>1. Delta(p, x) \in Hour
  BY NoneIsNoHour, MaxHoursAssumption DEF Delta, Hour
<1> QED
  BY <1>1 DEF Hour

LEMMA TruthTyped ==
  ASSUME NEW t \in Truth
  PROVE  t.ran \in Nat /\ t.first \in Hour \cup {None} /\ (t.first # None => t.first \in Nat)
BY DEF Truth, Hour

LEMMA InstanceTotalTyped ==
  ASSUME TypeOK, NEW i \in Binding
  PROVE  [e \in Entries |-> ledger[e][i]] \in [Entries -> Nat] /\ InstanceTotal(i) \in Nat
<1>1. [e \in Entries |-> ledger[e][i]] \in [Entries -> Nat]
  BY DEF TypeOK
<1> QED
  BY <1>1, BindingFinite, TotalIsNat DEF InstanceTotal

-----------------------------------------------------------------------------
(* What the steps of a push do to the request. *)

LEMMA ContinueEffect ==
  ASSUME TypeOK, NEW w \in Workers, NEW r \in Request, Continue(w, r)
  PROVE  /\ request' \in [Workers -> Request] /\ request'[w] = r
         /\ \A v \in Workers \ {w} : request'[v] = request[v]
BY DEF TypeOK, Continue

LEMMA StartEffect ==
  ASSUME Typed, NEW w \in Workers, NEW S \in SUBSET Entries, StartPush(w, S)
  PROVE  LET s == request'[w] IN
         /\ request' \in [Workers -> Request] /\ StageTyped(s)
         /\ \A v \in Workers \ {w} : request'[v] = request[v]
         /\ s.stage = "items" /\ s.todo = S /\ s.readings = {} /\ s.stamps = {}
         /\ \A e \in S : s.payload[e] = counter[e]
<1> DEFINE payload == [e \in Entries |-> IF e \in S THEN counter[e] ELSE 0]
           r == [Idle EXCEPT !.stage = "items", !.todo = S, !.payload = payload]
<1>1. payload \in [Entries -> Hour]
  BY MaxHoursAssumption DEF Typed, TypeOK, Hour
<1>2. Continue(w, r)
  BY DEF StartPush
<1>3. \A e \in S : payload[e] = counter[e]
  OBVIOUS
<1> HIDE DEF payload
<1>4. r \in Request
  BY <1>1, IdleTyped DEF Request
<1>5. /\ r.stage = "items" /\ r.todo = S /\ r.readings = {} /\ r.stamps = {}
      /\ r.payload = payload /\ StageTyped(r)
  BY DEF Idle, StageTyped
<1> HIDE DEF r
<1> QED
  BY <1>2, <1>3, <1>4, <1>5, ContinueEffect DEF Typed

LEMMA IngestEffect ==
  ASSUME Typed, NEW w \in Workers, NEW e \in Entries, IngestItem(w, e)
  PROVE  LET r == request[w]
             s == request'[w]
             amount == Delta(reading[e], r.payload[e])
         IN
         /\ request' \in [Workers -> Request] /\ StageTyped(s)
         /\ \A v \in Workers \ {w} : request'[v] = request[v]
         /\ r.stage = "items" /\ e \in r.todo
         /\ s.todo = r.todo \ {e} /\ s.payload = r.payload /\ s.stamps = r.stamps \cup {e}
         /\ s.bound = [r.bound EXCEPT ![e] = holds[e]]
         /\ amount = 0 => s.stage = "items" /\ s.readings = r.readings \cup {e}
         /\ amount # 0 => /\ s.stage = "ledger" /\ s.readings = r.readings
                          /\ s.entry = e /\ s.amount = amount
                          /\ s.credit = CreditTo(holds[e], baseline[e])
<1> DEFINE r == request[w]
           amount == Delta(reading[e], r.payload[e])
           bound == [r.bound EXCEPT ![e] = holds[e]]
           stamps == r.stamps \cup {e}
           todo == r.todo \ {e}
           readings == r.readings \cup {e}
           credit == CreditTo(holds[e], baseline[e])
           seen == [r EXCEPT !.bound = bound, !.stamps = stamps, !.todo = todo]
           noted == [seen EXCEPT !.readings = readings]
           owed == [seen EXCEPT !.stage = "ledger", !.entry = e, !.amount = amount,
                                !.credit = credit]
<1>1. r \in Request /\ r.stage = "items" /\ e \in r.todo
  BY DEF IngestItem, At, Typed, TypeOK
<1>2. Continue(w, IF amount = 0 THEN noted ELSE owed)
  BY <1>1 DEF IngestItem, Request
<1>3. bound \in [Entries -> Binding] /\ credit \in Binding /\ amount \in Hour
  <2>1. reading[e] \in Hour \cup {None} /\ r.payload[e] \in Hour /\ holds[e] \in Binding
        /\ r.bound \in [Entries -> Binding]
    BY <1>1 DEF Typed, TypeOK, Request
  <2> QED
    BY <2>1, DeltaTyped DEF CreditTo, Binding
<1>4. stamps \in SUBSET Entries /\ readings \in SUBSET Entries /\ todo \in SUBSET Entries
  BY <1>1 DEF Request
<1> HIDE DEF amount, bound, stamps, todo, readings, credit, r
<1>5. seen \in Request /\ seen.stage = r.stage /\ seen.todo = todo /\ seen.stamps = stamps
      /\ seen.bound = bound /\ seen.payload = r.payload /\ seen.readings = r.readings
  BY <1>1, <1>3, <1>4 DEF Request
<1> HIDE DEF seen
<1>6. /\ noted \in Request /\ noted.stage = r.stage /\ noted.todo = todo /\ noted.stamps = stamps
      /\ noted.bound = bound /\ noted.payload = r.payload /\ noted.readings = readings
  BY <1>4, <1>5 DEF Request
<1>7. /\ owed \in Request /\ owed.stage = "ledger" /\ owed.todo = todo /\ owed.stamps = stamps
      /\ owed.bound = bound /\ owed.payload = r.payload /\ owed.readings = r.readings
      /\ owed.entry = e /\ owed.amount = amount /\ owed.credit = credit
  BY <1>3, <1>5 DEF Request
<1> HIDE DEF noted, owed
<1>8. StageTyped(noted) /\ StageTyped(owed)
  BY <1>1, <1>6, <1>7 DEF StageTyped
<1>9. CASE amount = 0
  BY <1>1, <1>2, <1>6, <1>8, <1>9, ContinueEffect DEF Typed, r, amount, bound, stamps, todo,
                                                      readings
<1>10. CASE amount # 0
  BY <1>1, <1>2, <1>7, <1>8, <1>10, ContinueEffect DEF Typed, r, amount, bound, stamps, todo,
                                                       credit
<1> QED
  BY <1>9, <1>10

\* Back at the walk, the entry in hand has its reading noted.
LEMMA NextItemFields ==
  ASSUME NEW r \in Request, r.entry \in Entries
  PROVE  /\ NextItem(r) \in Request /\ StageTyped(NextItem(r))
         /\ NextItem(r).stage = "items" /\ NextItem(r).todo = r.todo
         /\ NextItem(r).readings = {r.entry} /\ NextItem(r).stamps = {}
         /\ NextItem(r).payload = r.payload /\ NextItem(r).bound = r.bound
<1> DEFINE readings == {r.entry}
           s == [r EXCEPT !.stage = "items", !.readings = readings, !.stamps = {},
                          !.entry = None, !.amount = 0, !.credit = None, !.total = 0]
<1>1. readings \in SUBSET Entries /\ 0 \in Hour /\ None \in Binding
  BY MaxHoursAssumption DEF Hour, Binding
<1>2. NextItem(r) = s
  BY DEF NextItem
<1> HIDE DEF readings
<1>3. /\ s \in Request /\ s.stage = "items" /\ s.todo = r.todo /\ s.readings = readings
      /\ s.stamps = {} /\ s.payload = r.payload /\ s.bound = r.bound
  BY <1>1 DEF Request
<1>4. StageTyped(s)
  BY <1>3 DEF StageTyped
<1> QED
  BY <1>2, <1>3, <1>4 DEF readings

LEMMA LedgerEffect ==
  ASSUME Typed, NEW w \in Workers, CommitLedgerRow(w)
  PROVE  LET r == request[w]
             s == request'[w]
         IN
         /\ request' \in [Workers -> Request] /\ StageTyped(s)
         /\ \A v \in Workers \ {w} : request'[v] = request[v]
         /\ r.stage = "ledger" /\ r.entry \in Entries /\ r.credit \in Binding
         /\ s.todo = r.todo /\ s.payload = r.payload /\ s.bound = r.bound /\ s.stamps = {}
         /\ r.credit = None => s.stage = "items" /\ s.readings = {r.entry}
         /\ r.credit # None => /\ s.stage = "total" /\ s.readings = {}
                               /\ s.entry = r.entry /\ s.credit = r.credit
<1> DEFINE r == request[w]
           s == [r EXCEPT !.stage = "total", !.stamps = {}, !.readings = {}]
<1>1. r \in Request /\ r.stage = "ledger" /\ r.entry \in Entries /\ r.credit \in Binding
  BY DEF CommitLedgerRow, At, Typed, TypeOK, StageTyped, Request
<1>2. Continue(w, IF r.credit = None THEN NextItem(r) ELSE s)
  BY DEF CommitLedgerRow
<1> HIDE DEF r
<1>3. /\ s \in Request /\ s.stage = "total" /\ s.todo = r.todo /\ s.payload = r.payload
      /\ s.bound = r.bound /\ s.stamps = {} /\ s.readings = {} /\ s.entry = r.entry
      /\ s.credit = r.credit
  BY <1>1 DEF Request
<1> HIDE DEF s
<1>4. r.credit # None => StageTyped(s)
  BY <1>1, <1>3 DEF StageTyped, Binding
<1>5. CASE r.credit = None
  BY <1>1, <1>2, <1>5, NextItemFields, ContinueEffect DEF Typed, r
<1>6. CASE r.credit # None
  BY <1>1, <1>2, <1>3, <1>4, <1>6, ContinueEffect DEF Typed, r
<1> QED
  BY <1>5, <1>6

LEMMA SumEffect ==
  ASSUME Typed, NEW w \in Workers, SumContributions(w)
  PROVE  LET r == request[w]
             s == request'[w]
         IN
         /\ request' \in [Workers -> Request] /\ StageTyped(s)
         /\ \A v \in Workers \ {w} : request'[v] = request[v]
         /\ r.stage = "total" /\ r.entry \in Entries /\ r.credit \in Instances
         /\ s.stage = "derive" /\ s.entry = r.entry /\ s.credit = r.credit
         /\ s.total = InstanceTotal(r.credit)
         /\ s.todo = r.todo /\ s.payload = r.payload /\ s.bound = r.bound
         /\ s.stamps = r.stamps /\ s.readings = r.readings
<1> DEFINE r == request[w]
           total == InstanceTotal(r.credit)
           s == [r EXCEPT !.stage = "derive", !.total = total]
<1>1. r \in Request /\ r.stage = "total" /\ r.entry \in Entries /\ r.credit \in Instances
  BY DEF SumContributions, At, Typed, TypeOK, StageTyped, Request
<1>2. Continue(w, s)
  BY DEF SumContributions, DerivedTotal
<1>3. total \in Nat
  BY <1>1, InstanceTotalTyped DEF Typed, Binding
<1> HIDE DEF r, total
<1>4. /\ s \in Request /\ s.stage = "derive" /\ s.todo = r.todo /\ s.payload = r.payload
      /\ s.bound = r.bound /\ s.stamps = r.stamps /\ s.readings = r.readings
      /\ s.entry = r.entry /\ s.credit = r.credit /\ s.total = total
  BY <1>1, <1>3 DEF Request
<1> HIDE DEF s
<1>5. StageTyped(s)
  BY <1>1, <1>4 DEF StageTyped
<1> QED
  BY <1>1, <1>2, <1>4, <1>5, ContinueEffect DEF Typed, r, total

LEMMA DeriveEffect ==
  ASSUME Typed, NEW w \in Workers, CommitTotal(w)
  PROVE  LET r == request[w]
             s == request'[w]
         IN
         /\ request' \in [Workers -> Request] /\ StageTyped(s)
         /\ \A v \in Workers \ {w} : request'[v] = request[v]
         /\ r.stage = "derive" /\ r.entry \in Entries /\ r.credit \in Instances /\ r.total \in Nat
         /\ s.stage = "items" /\ s.todo = r.todo /\ s.payload = r.payload /\ s.bound = r.bound
         /\ s.stamps = {} /\ s.readings = {r.entry}
<1>1. /\ request[w] \in Request /\ request[w].stage = "derive" /\ request[w].entry \in Entries
      /\ request[w].credit \in Instances /\ request[w].total \in Nat
  BY DEF CommitTotal, At, Typed, TypeOK, StageTyped, Request
<1>2. Continue(w, NextItem(request[w]))
  BY DEF CommitTotal
<1> QED
  BY <1>1, <1>2, NextItemFields, ContinueEffect DEF Typed

LEMMA EndEffect ==
  ASSUME Typed, NEW w \in Workers, FinishPush(w) \/ Abandon(w)
  PROVE  /\ request' \in [Workers -> Request] /\ request'[w] = Idle
         /\ \A v \in Workers \ {w} : request'[v] = request[v]
<1>1. Continue(w, Idle)
  BY DEF FinishPush, Abandon
<1> QED
  BY <1>1, IdleTyped, ContinueEffect DEF Typed

-----------------------------------------------------------------------------
(* Every step, and the types. *)

LEMMA NextCases ==
  ASSUME Next
  PROVE  \/ \E e \in Entries : Cut(e) \/ ZeroCounter(e)
         \/ Rebind
         \/ \E w \in Workers :
              \/ \E S \in SUBSET Entries : StartPush(w, S)
              \/ \E e \in Entries : IngestItem(w, e)
              \/ CommitLedgerRow(w) \/ SumContributions(w) \/ CommitTotal(w)
              \/ FinishPush(w) \/ Abandon(w)
BY DEF Next, Serve

LEMMA CutEffect ==
  ASSUME Typed, NEW e \in Entries, Cut(e)
  PROVE  /\ counter' \in [Entries -> Hour] /\ truth' \in [Entries -> Truth]
         /\ counter'[e] = counter[e] + 1 /\ truth'[e].ran = truth[e].ran + 1
         /\ truth'[e].first = truth[e].first /\ truth'[e].reset = truth[e].reset
         /\ truth'[e].seen = truth[e].seen
         /\ \A d \in Entries \ {e} : counter'[d] = counter[d] /\ truth'[d] = truth[d]
         /\ UNCHANGED <<holds, reading, baseline, ledger, hours, request, failed>>
<1> DEFINE f == [d \in Entries |-> truth[d].ran]
           n == truth[e].ran + 1
           t == [truth[e] EXCEPT !.ran = n]
<1>1. /\ truth \in [Entries -> Truth] /\ counter \in [Entries -> Hour]
      /\ counter[e] <= truth[e].ran
  BY DEF Typed, TypeOK, Truth
<1>2. f \in [Entries -> Nat] /\ Total(f) < MaxHours
  BY <1>1 DEF Cut, Truth, Hour
<1>3. f[e] <= Total(f) /\ Total(f) \in Nat
  BY <1>2, BindingFinite, TotalIsMore, TotalIsNat
<1>4. f[e] = truth[e].ran
  OBVIOUS
<1> HIDE DEF f
<1>5. counter[e] + 1 \in Hour /\ n \in Hour
  BY <1>1, <1>2, <1>3, <1>4, MaxHoursAssumption DEF Truth, Hour
<1>6. counter' = [counter EXCEPT ![e] = counter[e] + 1] /\ truth' = [truth EXCEPT ![e] = t]
      /\ UNCHANGED <<holds, reading, baseline, ledger, hours, request, failed>>
  BY <1>1 DEF Cut
<1> HIDE DEF n
<1>7. t \in Truth /\ t.ran = n /\ t.first = truth[e].first /\ t.reset = truth[e].reset
      /\ t.seen = truth[e].seen
  BY <1>1, <1>5, RanTyped
<1> HIDE DEF t
<1> QED
  BY <1>1, <1>5, <1>6, <1>7 DEF n

LEMMA ZeroEffect ==
  ASSUME Typed, NEW e \in Entries, ZeroCounter(e)
  PROVE  /\ counter' \in [Entries -> Hour] /\ truth' \in [Entries -> Truth]
         /\ counter'[e] = 0 /\ truth'[e].ran = truth[e].ran
         /\ truth'[e].first = truth[e].first /\ truth'[e].reset = TRUE
         /\ truth'[e].seen = truth[e].seen
         /\ \A d \in Entries \ {e} : counter'[d] = counter[d] /\ truth'[d] = truth[d]
         /\ UNCHANGED <<holds, reading, baseline, ledger, hours, request, failed>>
<1> DEFINE t == [truth[e] EXCEPT !.reset = TRUE]
<1>1. /\ truth \in [Entries -> Truth] /\ counter \in [Entries -> Hour] /\ 0 \in Hour
  BY MaxHoursAssumption DEF Typed, TypeOK, Truth, Hour
<1>2. counter' = [counter EXCEPT ![e] = 0] /\ truth' = [truth EXCEPT ![e] = t]
      /\ UNCHANGED <<holds, reading, baseline, ledger, hours, request, failed>>
  BY <1>1 DEF ZeroCounter
<1>3. t \in Truth /\ t.ran = truth[e].ran /\ t.first = truth[e].first /\ t.reset = TRUE
      /\ t.seen = truth[e].seen
  BY <1>1, ResetTyped
<1> HIDE DEF t
<1> QED
  BY <1>1, <1>2, <1>3

LEMMA RebindEffect ==
  ASSUME Typed, Rebind
  PROVE  /\ holds' \in [Entries -> Binding]
         /\ UNCHANGED <<counter, reading, baseline, ledger, hours, request, truth, failed>>
BY DEF Typed, TypeOK, Rebind, Place!Next, Place!Remove, Place!Install, Binding

\* The ledger gets the hours of one interval, for one instance or for none.
LEMMA LedgerRow ==
  ASSUME Typed, NEW w \in Workers, CommitLedgerRow(w)
  PROVE  LET r == request[w] IN
         /\ ledger' \in [Entries -> [Binding -> Nat]]
         /\ \A e \in Entries : Recorded(e)' = Recorded(e) + IF e = r.entry THEN r.amount ELSE 0
         /\ \A i \in Binding :
              InstanceTotal(i)' = InstanceTotal(i) + IF i = r.credit THEN r.amount ELSE 0
         /\ \A e \in Entries, i \in Binding : ledger'[e][i] = ledger[e][i] +
              IF e = r.entry /\ i = r.credit THEN r.amount ELSE 0
<1> DEFINE r == request[w]
           x == r.entry
           c == r.credit
           d == r.amount
           line == [ledger[x] EXCEPT ![c] = @ + d]
<1>1. x \in Entries /\ c \in Binding /\ d \in Nat
  BY LedgerEffect DEF Typed, TypeOK, Request, Hour
<1>2. ledger \in [Entries -> [Binding -> Nat]]
  BY DEF Typed, TypeOK
<1>3. ledger' = [ledger EXCEPT ![x] = line]
  BY <1>1, <1>2 DEF CommitLedgerRow
<1>4. line \in [Binding -> Nat] /\ \A i \in Binding : line[i] = ledger[x][i] + IF i = c THEN d ELSE 0
  BY <1>1, <1>2
<1>5. Total(line) = Total(ledger[x]) + d
  BY <1>1, <1>2, BindingFinite, TotalAdds
<1> HIDE DEF x, c, d, line, r
<1>6. /\ ledger' \in [Entries -> [Binding -> Nat]] /\ ledger'[x] = line
      /\ \A e \in Entries \ {x} : ledger'[e] = ledger[e]
  BY <1>1, <1>2, <1>3, <1>4
<1>7. \A e \in Entries, i \in Binding :
        ledger'[e][i] = ledger[e][i] + IF e = x /\ i = c THEN d ELSE 0
  BY <1>1, <1>2, <1>4, <1>6
<1>8. ASSUME NEW e \in Entries
      PROVE  Recorded(e)' = Recorded(e) + IF e = x THEN d ELSE 0
  <2>1. Total(ledger[e]) \in Nat
    BY <1>2, BindingFinite, TotalIsNat
  <2>2. CASE e = x
    BY <1>5, <1>6, <2>2 DEF Recorded
  <2>3. CASE e # x
    BY <1>6, <2>1, <2>3 DEF Recorded
  <2> QED
    BY <2>2, <2>3
<1>9. ASSUME NEW i \in Binding
      PROVE  InstanceTotal(i)' = InstanceTotal(i) + IF i = c THEN d ELSE 0
  <2> DEFINE f == [e \in Entries |-> ledger[e][i]]
             g == [e \in Entries |-> ledger'[e][i]]
  <2>1. f \in [Entries -> Nat] /\ Total(f) \in Nat
    BY <1>2, BindingFinite, TotalIsNat
  <2>2. CASE i = c
    <3>0. /\ f \in [Entries -> Nat] /\ DOMAIN g = Entries /\ g = [e \in Entries |-> g[e]]
          /\ \A e \in Entries : g[e] = IF e = x THEN f[x] + d ELSE f[e]
      BY <1>1, <1>2, <1>7, <2>2
    <3>1. g = [f EXCEPT ![x] = f[x] + d]
      <4> HIDE DEF f, g
      <4> QED
        BY <1>1, <3>0
    <3> HIDE DEF f, g
    <3>2. Total(g) = Total(f) + d
      BY <1>1, <2>1, <3>1, BindingFinite, TotalAdds
    <3> QED
      BY <2>2, <3>2 DEF InstanceTotal, f, g
  <2>3. CASE i # c
    <3>1. g = f
      BY <1>2, <1>7, <2>3
    <3> QED
      BY <2>1, <2>3, <3>1 DEF InstanceTotal
  <2> QED
    BY <2>2, <2>3
<1> QED
  BY <1>6, <1>7, <1>8, <1>9 DEF x, c, d, r

LEMMA InitTyped == Init => Typed
<1> SUFFICES ASSUME Init PROVE Typed
  OBVIOUS
<1>1. 0 \in Hour /\ None \in Binding /\ 0 \in 0 .. Failures
  BY MaxHoursAssumption, FailuresAssumption DEF Hour, Binding
<1>2. truth \in [Entries -> Truth]
  BY <1>1 DEF Init, Truth
<1>3. TypeOK
  BY <1>1, <1>2, IdleTyped DEF Init, TypeOK, Truth
<1> QED
  BY <1>3, IdleTyped DEF Init, Typed

LEMMA StepTyped ==
  ASSUME Typed, [Next]_vars
  PROVE  Typed'
<1>0. /\ counter \in [Entries -> Hour] /\ holds \in [Entries -> Binding]
      /\ reading \in [Entries -> Hour \cup {None}] /\ baseline \in [Entries -> Binding]
      /\ ledger \in [Entries -> [Binding -> Nat]] /\ hours \in [Instances -> Nat]
      /\ request \in [Workers -> Request] /\ truth \in [Entries -> Truth]
      /\ failed \in 0 .. Failures
      /\ \A e \in Entries : counter[e] <= truth[e].ran
      /\ \A w \in Workers : StageTyped(request[w])
  BY DEF Typed, TypeOK, Truth
<1> DEFINE Goal == /\ counter' \in [Entries -> Hour] /\ holds' \in [Entries -> Binding]
                   /\ reading' \in [Entries -> Hour \cup {None}]
                   /\ baseline' \in [Entries -> Binding]
                   /\ ledger' \in [Entries -> [Binding -> Nat]] /\ hours' \in [Instances -> Nat]
                   /\ request' \in [Workers -> Request] /\ truth' \in [Entries -> Truth]
                   /\ failed' \in 0 .. Failures
                   /\ \A e \in Entries : counter'[e] <= truth'[e].ran
                   /\ \A w \in Workers : StageTyped(request'[w])
<1>1. Goal => Typed'
  BY DEF Typed, TypeOK, Truth
<1>2. ASSUME NEW e \in Entries, Cut(e) PROVE Goal
  <2>1. counter'[e] <= truth'[e].ran
    BY <1>0, <1>2, CutEffect DEF Hour, Truth
  <2> QED
    BY <1>0, <1>2, <2>1, CutEffect
<1>3. ASSUME NEW e \in Entries, ZeroCounter(e) PROVE Goal
  <2>1. truth[e].ran \in Hour
    BY <1>0 DEF Truth
  <2>2. counter'[e] = 0 /\ truth'[e].ran = truth[e].ran
    BY <1>3, ZeroEffect
  <2>3. counter'[e] <= truth'[e].ran
    BY <2>1, <2>2, MaxHoursAssumption DEF Hour
  <2> QED
    BY <1>0, <1>3, <2>3, ZeroEffect
<1>4. CASE Rebind
  <2>1. /\ holds' \in [Entries -> Binding] /\ counter' = counter /\ reading' = reading
        /\ baseline' = baseline /\ ledger' = ledger /\ hours' = hours
        /\ request' = request /\ truth' = truth /\ failed' = failed
    BY <1>4, RebindEffect
  <2> QED
    BY <1>0, <1>1, <2>1
<1>5. ASSUME NEW w \in Workers, NEW S \in SUBSET Entries, StartPush(w, S) PROVE Goal
  BY <1>0, <1>5, StartEffect DEF StartPush
<1>6. ASSUME NEW w \in Workers, NEW e \in Entries, IngestItem(w, e) PROVE Goal
  BY <1>0, <1>6, IngestEffect DEF IngestItem
<1>7. ASSUME NEW w \in Workers, CommitLedgerRow(w) PROVE Goal
  <2>1. /\ UNCHANGED <<counter, holds, hours, failed>>
        /\ FlushReadings(request[w]) /\ FlushBaselines(request[w])
    BY <1>7 DEF CommitLedgerRow
  <2>2. request[w] \in Request
    BY <1>0
  <2>3. /\ reading' \in [Entries -> Hour \cup {None}] /\ baseline' \in [Entries -> Binding]
        /\ truth' \in [Entries -> Truth] /\ \A e \in Entries : truth'[e].ran = truth[e].ran
    BY <2>1, <2>2, FlushTyped DEF Typed
  <2>4. /\ request' \in [Workers -> Request] /\ StageTyped(request'[w])
        /\ \A v \in Workers \ {w} : request'[v] = request[v]
    BY <1>7, LedgerEffect
  <2> QED
    BY <1>0, <1>7, <2>1, <2>3, <2>4, LedgerRow
<1>8. ASSUME NEW w \in Workers, SumContributions(w) PROVE Goal
  BY <1>0, <1>8, SumEffect DEF SumContributions
<1>9. ASSUME NEW w \in Workers, CommitTotal(w) PROVE Goal
  <2>1. hours' \in [Instances -> Nat]
    BY <1>0, <1>9, DeriveEffect DEF CommitTotal
  <2> QED
    BY <1>0, <1>9, <2>1, DeriveEffect DEF CommitTotal
<1>10. ASSUME NEW w \in Workers, FinishPush(w) PROVE Goal
  <2>1. /\ UNCHANGED <<counter, holds, ledger, hours, failed>>
        /\ FlushReadings(request[w]) /\ FlushBaselines(request[w])
    BY <1>10 DEF FinishPush
  <2>2. request[w] \in Request
    BY <1>0
  <2>3. /\ reading' \in [Entries -> Hour \cup {None}] /\ baseline' \in [Entries -> Binding]
        /\ truth' \in [Entries -> Truth] /\ \A e \in Entries : truth'[e].ran = truth[e].ran
    BY <2>1, <2>2, FlushTyped DEF Typed
  <2> QED
    BY <1>0, <1>10, <2>1, <2>3, EndEffect, IdleTyped
<1>11. ASSUME NEW w \in Workers, Abandon(w) PROVE Goal
  <2>1. failed' \in 0 .. Failures
    BY <1>0, <1>11, FailuresAssumption DEF Abandon
  <2> QED
    BY <1>0, <1>11, <2>1, EndEffect, IdleTyped DEF Abandon
<1>12. CASE UNCHANGED vars
  <2>1. /\ holds' = holds /\ counter' = counter /\ reading' = reading
        /\ baseline' = baseline /\ ledger' = ledger /\ hours' = hours
        /\ request' = request /\ truth' = truth /\ failed' = failed
    BY <1>12 DEF vars
  <2> QED
    BY <1>0, <1>1, <2>1
<1> HIDE DEF Goal
<1> QED
  BY <1>1, <1>2, <1>3, <1>4, <1>5, <1>6, <1>7, <1>8, <1>9, <1>10, <1>11, <1>12, NextCases

\* The types, and what a session holds in each of its stages.
THEOREM TypesAndStages == Spec => []Typed
<1>1. Init => Typed
  BY InitTyped
<1>2. Typed /\ [Next]_vars => Typed'
  BY StepTyped
<1> QED
  BY <1>1, <1>2, PTL DEF Spec

\* Every variable keeps its type, whatever pushes overlap and are cut off: no
\* delta is negative and no counter shows more than its machine ran.
THEOREM TypeCorrect == Spec => []TypeOK
BY TypesAndStages, PTL DEF Typed

-----------------------------------------------------------------------------
(* The books of one entry: what its ledger holds (R), what its counter     *)
(* shows (c), its last reading (p), a reading on its way to it (x), and    *)
(* what happened at the machine (t).                                       *)

Above(a, b) == IF a > b THEN a - b ELSE 0

\* Nothing is recorded before the first reading.
SettledAt(R, p, t) ==
  /\ p = None => R = 0 /\ t.first = None
  /\ p # None => t.first # None

\* Nothing is on its way: what was recorded and what is still to be recorded
\* was run, and without a reset it is exactly the hours since the first reading.
FreeAt(R, c, p, t) ==
  p # None => /\ R + Above(c, p) <= t.ran
              /\ ~t.reset => p <= c /\ R + t.first = p

\* A reading is on its way whose hours are not recorded yet.
DueAt(R, c, p, x, t) ==
  /\ R + Delta(p, x) + Above(c, x) <= t.ran
  /\ ~t.reset => /\ x <= c
                 /\ p # None => p <= x /\ R + t.first = p

\* A reading is on its way whose hours are recorded.
PaidAt(R, c, x, t) ==
  /\ R + Above(c, x) <= t.ran
  /\ ~t.reset => /\ x <= c
                 /\ t.first = None => R = 0
                 /\ t.first # None => R + t.first = x

LEMMA BooksOnCut ==
  ASSUME NEW R \in Nat, NEW c \in Nat, NEW p \in Hour \cup {None}, NEW x \in Hour,
         NEW t \in Truth, NEW u \in Truth,
         u.ran = t.ran + 1, u.first = t.first, u.reset = t.reset
  PROVE  /\ SettledAt(R, p, t) => SettledAt(R, p, u)
         /\ FreeAt(R, c, p, t) => FreeAt(R, c + 1, p, u)
         /\ DueAt(R, c, p, x, t) => DueAt(R, c + 1, p, x, u)
         /\ PaidAt(R, c, x, t) => PaidAt(R, c + 1, x, u)
<1>1. /\ t.ran \in Nat /\ x \in Nat /\ (p # None => p \in Nat) /\ Delta(p, x) \in Nat
      /\ u.ran \in Nat
  BY DeltaTyped, TruthTyped
<1>2. /\ Above(c + 1, x) <= Above(c, x) + 1 /\ Above(c, x) \in Nat /\ Above(c + 1, x) \in Nat
      /\ p # None => /\ Above(c + 1, p) <= Above(c, p) + 1
                     /\ Above(c, p) \in Nat /\ Above(c + 1, p) \in Nat
  BY <1>1 DEF Above
<1>3. SettledAt(R, p, t) => SettledAt(R, p, u)
  BY DEF SettledAt
<1>4. FreeAt(R, c, p, t) => FreeAt(R, c + 1, p, u)
  BY <1>1, <1>2 DEF FreeAt
<1>5. DueAt(R, c, p, x, t) => DueAt(R, c + 1, p, x, u)
  BY <1>1, <1>2 DEF DueAt
<1>6. PaidAt(R, c, x, t) => PaidAt(R, c + 1, x, u)
  BY <1>1, <1>2 DEF PaidAt
<1> QED
  BY <1>3, <1>4, <1>5, <1>6

LEMMA BooksOnReset ==
  ASSUME NEW R \in Nat, NEW c \in Nat, NEW p \in Hour \cup {None}, NEW x \in Hour,
         NEW t \in Truth, NEW u \in Truth,
         u.ran = t.ran, u.first = t.first, u.reset = TRUE
  PROVE  /\ SettledAt(R, p, t) => SettledAt(R, p, u)
         /\ FreeAt(R, c, p, t) => FreeAt(R, 0, p, u)
         /\ DueAt(R, c, p, x, t) => DueAt(R, 0, p, x, u)
         /\ PaidAt(R, c, x, t) => PaidAt(R, 0, x, u)
<1>1. /\ t.ran \in Nat /\ x \in Nat /\ (p # None => p \in Nat) /\ Delta(p, x) \in Nat
  BY DeltaTyped, TruthTyped
<1>2. /\ Above(0, x) = 0 /\ Above(c, x) \in Nat
      /\ p # None => Above(0, p) = 0 /\ Above(c, p) \in Nat
  BY <1>1 DEF Above
<1>3. SettledAt(R, p, t) => SettledAt(R, p, u)
  BY DEF SettledAt
<1>4. FreeAt(R, c, p, t) => FreeAt(R, 0, p, u)
  BY <1>1, <1>2 DEF FreeAt
<1>5. DueAt(R, c, p, x, t) => DueAt(R, 0, p, x, u)
  BY <1>1, <1>2 DEF DueAt
<1>6. PaidAt(R, c, x, t) => PaidAt(R, 0, x, u)
  BY <1>1, <1>2 DEF PaidAt
<1> QED
  BY <1>3, <1>4, <1>5, <1>6

\* The counter itself is pushed.
LEMMA BooksOnPush ==
  ASSUME NEW R \in Nat, NEW c \in Hour, NEW p \in Hour \cup {None}, NEW t \in Truth,
         c <= t.ran, SettledAt(R, p, t), FreeAt(R, c, p, t)
  PROVE  DueAt(R, c, p, c, t)
<1>1. t.ran \in Nat /\ c \in Nat /\ (p # None => p \in Nat) /\ None \notin Nat
  BY NoneIsNoHour DEF Truth, Hour
<1>2. Above(c, c) = 0
  BY <1>1 DEF Above
<1>3. CASE p = None
  BY <1>1, <1>2, <1>3 DEF DueAt, SettledAt, Delta
<1>4. CASE p # None
  <2>1. Delta(p, c) = Above(c, p)
    BY <1>1, <1>4 DEF Delta, Above
  <2>2. Above(c, p) \in Nat
    BY <1>1, <1>4 DEF Above
  <2> QED
    BY <1>1, <1>2, <1>4, <2>1, <2>2 DEF DueAt, FreeAt
<1> QED
  BY <1>3, <1>4

\* The hours of the reading go to the ledger, if there are any.
LEMMA BooksOnRow ==
  ASSUME NEW R \in Nat, NEW c \in Nat, NEW p \in Hour \cup {None}, NEW x \in Hour,
         NEW t \in Truth, SettledAt(R, p, t), DueAt(R, c, p, x, t)
  PROVE  PaidAt(R + Delta(p, x), c, x, t)
<1>1. /\ t.ran \in Nat /\ x \in Nat /\ (p # None => p \in Nat) /\ Delta(p, x) \in Nat
      /\ None \notin Nat
  BY NoneIsNoHour, DeltaTyped, TruthTyped
<1>2. Above(c, x) \in Nat
  BY <1>1 DEF Above
<1>3. CASE p = None
  <2>1. Delta(p, x) = 0
    BY <1>3 DEF Delta
  <2> QED
    BY <1>1, <1>2, <1>3, <2>1 DEF PaidAt, DueAt, SettledAt
<1>4. CASE p # None
  <2>1. t.first \in Nat /\ t.first # None
    BY <1>1, <1>4 DEF SettledAt, Truth, Hour
  <2>2. p <= x => Delta(p, x) = x - p
    BY <1>1, <1>4 DEF Delta
  <2> QED
    BY <1>1, <1>2, <1>4, <2>1, <2>2 DEF PaidAt, DueAt
<1> QED
  BY <1>3, <1>4

\* The reading arrives.
LEMMA BooksOnFlush ==
  ASSUME NEW R \in Nat, NEW c \in Nat, NEW x \in Hour, NEW t \in Truth, NEW u \in Truth,
         u.ran = t.ran, u.reset = t.reset,
         u.first = IF t.first = None THEN x ELSE t.first,
         PaidAt(R, c, x, t)
  PROVE  SettledAt(R, x, u) /\ FreeAt(R, c, x, u)
<1>1. t.ran \in Nat /\ x \in Nat /\ None \notin Nat /\ (t.first # None => t.first \in Nat)
  BY NoneIsNoHour DEF Truth, Hour
<1>2. Above(c, x) \in Nat
  BY <1>1 DEF Above
<1> QED
  BY <1>1, <1>2 DEF SettledAt, FreeAt, PaidAt

-----------------------------------------------------------------------------
(* The books of every entry, while one worker serves the pushes.            *)

Pending(w, e) ==
  \/ e \in request[w].todo
  \/ At(w, "ledger") /\ request[w].entry = e

Noted(w, e) ==
  \/ e \in request[w].readings
  \/ request[w].stage \in {"total", "derive"} /\ request[w].entry = e

Settled(e)  == SettledAt(Recorded(e), reading[e], truth[e])
Free(e)     == FreeAt(Recorded(e), counter[e], reading[e], truth[e])
Due(w, e)   == DueAt(Recorded(e), counter[e], reading[e], request[w].payload[e], truth[e])
Paid(w, e)  == PaidAt(Recorded(e), counter[e], request[w].payload[e], truth[e])

Book(w, e) ==
  /\ Settled(e)
  /\ ~Pending(w, e) /\ ~Noted(w, e) => Free(e)
  /\ Pending(w, e) => Due(w, e)
  /\ Noted(w, e) => Paid(w, e)

\* Each entry of a push is either still to be ingested, in hand, or noted.
Walk(w) ==
  LET r == request[w] IN
  /\ r.todo \cap r.readings = {}
  /\ r.stage = "ledger" => /\ r.entry \notin r.todo /\ r.entry \notin r.readings
                           /\ r.amount = Delta(reading[r.entry], r.payload[r.entry])
                           /\ r.amount # 0
  /\ r.stage \in {"total", "derive"} => r.entry \notin r.todo /\ r.readings = {}

Books(w) == failed = 0 => Walk(w) /\ \A e \in Entries : Book(w, e)

LEMMA ValuesTyped ==
  ASSUME Typed, NEW w \in Workers, NEW e \in Entries
  PROVE  /\ Recorded(e) \in Nat /\ counter[e] \in Hour /\ counter[e] \in Nat
         /\ reading[e] \in Hour \cup {None}
         /\ request[w].payload[e] \in Hour /\ truth[e] \in Truth /\ counter[e] <= truth[e].ran
         /\ request[w] \in Request
<1>1. ledger[e] \in [Binding -> Nat]
  BY DEF Typed, TypeOK
<1>2. Recorded(e) \in Nat
  BY <1>1, BindingFinite, TotalIsNat DEF Recorded
<1> QED
  BY <1>2 DEF Typed, TypeOK, Request, Truth, Hour

\* An entry whose values and whose place in the push stay keeps its books.
LEMMA BookKept ==
  ASSUME NEW w \in Workers, NEW e \in Entries, Book(w, e),
         Recorded(e)' = Recorded(e), counter'[e] = counter[e], reading'[e] = reading[e],
         truth'[e] = truth[e], request'[w].payload[e] = request[w].payload[e],
         Pending(w, e)' <=> Pending(w, e), Noted(w, e)' <=> Noted(w, e)
  PROVE  Book(w, e)'
<1>1. Settled(e)' <=> Settled(e)
  BY DEF Settled
<1>2. Free(e)' <=> Free(e)
  BY DEF Free
<1>3. Due(w, e)' <=> Due(w, e)
  BY DEF Due
<1>4. Paid(w, e)' <=> Paid(w, e)
  BY DEF Paid
<1> QED
  BY <1>1, <1>2, <1>3, <1>4 DEF Book

LEMMA RecordedKept ==
  ASSUME NEW e \in Entries, ledger' = ledger
  PROVE  Recorded(e)' = Recorded(e)
BY DEF Recorded

LEMMA BooksInit ==
  ASSUME Init, NEW w \in Workers
  PROVE  Books(w)
<1>1. request[w] = Idle
  BY DEF Init
<1>2. Walk(w)
  BY <1>1 DEF Walk, Idle
<1>3. ASSUME NEW e \in Entries PROVE Book(w, e)
  <2>1. reading[e] = None /\ truth[e].first = None
    BY DEF Init
  <2>2. Recorded(e) = 0
    <3>1. ledger[e] \in [Binding -> Nat] /\ \A i \in Binding : ledger[e][i] = 0
      BY DEF Init
    <3> QED
      BY <3>1, TotalOfNothing DEF Recorded
  <2>3. ~Pending(w, e) /\ ~Noted(w, e)
    BY <1>1 DEF Pending, Noted, At, Idle
  <2> QED
    BY <2>1, <2>2, <2>3 DEF Book, Settled, SettledAt, Free, FreeAt
<1> QED
  BY <1>2, <1>3 DEF Books

LEMMA BooksOutside ==
  ASSUME Typed, NEW w \in Workers, Books(w), failed = 0, NEW x \in Entries,
         Cut(x) \/ ZeroCounter(x)
  PROVE  Books(w)'
<1>1. UNCHANGED <<holds, reading, baseline, ledger, hours, request, failed>>
  BY DEF Cut, ZeroCounter
<1>2. Walk(w)'
  BY <1>1 DEF Books, Walk
<1>3. ASSUME NEW e \in Entries PROVE Book(w, e)'
  <2>1. Book(w, e) /\ Recorded(e)' = Recorded(e)
    BY <1>1, RecordedKept DEF Books
  <2>2. (Pending(w, e)' <=> Pending(w, e)) /\ (Noted(w, e)' <=> Noted(w, e))
    BY <1>1 DEF Pending, Noted, At
  <2>3. CASE e # x
    <3>1. counter'[e] = counter[e] /\ truth'[e] = truth[e]
      BY <2>3, CutEffect, ZeroEffect
    <3> QED
      BY <1>1, <2>1, <2>2, <3>1, BookKept
  <2>4. CASE e = x
    <3> DEFINE R == Recorded(e)
               c == counter[e]
               p == reading[e]
               h == request[w].payload[e]
               t == truth[e]
               d == counter'[e]
               u == truth'[e]
    <3>1. R \in Nat /\ c \in Nat /\ p \in Hour \cup {None} /\ h \in Hour /\ t \in Truth
          /\ c \in Hour
      BY ValuesTyped
    <3>2. u \in Truth
      BY <2>4, CutEffect, ZeroEffect
    <3>3. Settled(e)' <=> SettledAt(R, p, u)
      BY <1>1, <2>1 DEF Settled
    <3>4. Free(e)' <=> FreeAt(R, d, p, u)
      BY <1>1, <2>1 DEF Free
    <3>5. Due(w, e)' <=> DueAt(R, d, p, h, u)
      BY <1>1, <2>1 DEF Due
    <3>6. Paid(w, e)' <=> PaidAt(R, d, h, u)
      BY <1>1, <2>1 DEF Paid
    <3>7. Book(w, e) <=> /\ SettledAt(R, p, t)
                         /\ ~Pending(w, e) /\ ~Noted(w, e) => FreeAt(R, c, p, t)
                         /\ Pending(w, e) => DueAt(R, c, p, h, t)
                         /\ Noted(w, e) => PaidAt(R, c, h, t)
      BY DEF Book, Settled, Free, Due, Paid
    <3>8. Book(w, e)' <=> /\ SettledAt(R, p, u)
                          /\ ~Pending(w, e) /\ ~Noted(w, e) => FreeAt(R, d, p, u)
                          /\ Pending(w, e) => DueAt(R, d, p, h, u)
                          /\ Noted(w, e) => PaidAt(R, d, h, u)
      BY <2>2, <3>3, <3>4, <3>5, <3>6 DEF Book
    <3>9. CASE Cut(x)
      <4>1. d = c + 1 /\ u.ran = t.ran + 1 /\ u.first = t.first /\ u.reset = t.reset
        BY <2>4, <3>9, CutEffect
      <4> HIDE DEF R, c, p, h, t, d, u
      <4> QED
        BY <2>1, <3>1, <3>2, <3>7, <3>8, <4>1, BooksOnCut
    <3>10. CASE ZeroCounter(x)
      <4>1. d = 0 /\ u.ran = t.ran /\ u.first = t.first /\ u.reset = TRUE
        BY <2>4, <3>10, ZeroEffect
      <4> HIDE DEF R, c, p, h, t, d, u
      <4> QED
        BY <2>1, <3>1, <3>2, <3>7, <3>8, <4>1, BooksOnReset
    <3> QED
      BY <3>9, <3>10
  <2> QED
    BY <2>3, <2>4
<1> QED
  BY <1>2, <1>3 DEF Books

\* The steps that move no hour and no reading, and leave every entry where it was.
LEMMA BooksStay ==
  ASSUME NEW w \in Workers, Books(w), failed = 0,
         UNCHANGED <<counter, reading, ledger, truth, failed>>,
         request'[w].payload = request[w].payload,
         Walk(w)',
         \A e \in Entries : /\ Pending(w, e)' <=> Pending(w, e)
                            /\ Noted(w, e)' <=> Noted(w, e)
  PROVE  Books(w)'
<1>1. ASSUME NEW e \in Entries PROVE Book(w, e)'
  BY RecordedKept, BookKept DEF Books
<1> QED
  BY <1>1 DEF Books

LEMMA BooksStart ==
  ASSUME Typed, NEW w \in Workers, Books(w), failed = 0,
         NEW S \in SUBSET Entries, StartPush(w, S)
  PROVE  Books(w)'
<1> DEFINE s == request'[w]
<1>1. UNCHANGED <<counter, holds, reading, baseline, ledger, hours, truth, failed>>
      /\ request[w].stage = "idle"
  BY DEF StartPush, At
<1>2. request[w] = Idle
  BY <1>1 DEF Typed, StageTyped
<1>3. /\ s.stage = "items" /\ s.todo = S /\ s.readings = {} /\ s.stamps = {}
      /\ \A e \in S : s.payload[e] = counter[e]
  BY StartEffect
<1>4. Walk(w)'
  BY <1>3 DEF Walk
<1>5. ASSUME NEW e \in Entries PROVE Book(w, e)'
  <2>1. ~Pending(w, e) /\ ~Noted(w, e)
    BY <1>2 DEF Pending, Noted, At, Idle
  <2>2. Settled(e) /\ Free(e)
    BY <2>1 DEF Books, Book
  <2>3. Recorded(e)' = Recorded(e)
    BY <1>1, RecordedKept
  <2>4. Settled(e)' /\ Free(e)'
    BY <1>1, <2>2, <2>3 DEF Settled, Free
  <2>5. ~Noted(w, e)' /\ (Pending(w, e)' <=> e \in S)
    BY <1>3 DEF Pending, Noted, At
  <2>6. CASE e \in S
    <3>1. DueAt(Recorded(e), counter[e], reading[e], counter[e], truth[e])
      BY <2>2, ValuesTyped, BooksOnPush DEF Settled, Free
    <3>2. s.payload[e] = counter[e]
      BY <1>3, <2>6
    <3>3. Due(w, e)'
      BY <1>1, <2>3, <3>1, <3>2 DEF Due
    <3> QED
      BY <2>4, <2>5, <3>3 DEF Book
  <2>7. CASE e \notin S
    BY <2>4, <2>5, <2>7 DEF Book
  <2> QED
    BY <2>6, <2>7
<1> QED
  BY <1>4, <1>5 DEF Books

LEMMA BooksIngest ==
  ASSUME Typed, NEW w \in Workers, Books(w), failed = 0,
         NEW x \in Entries, IngestItem(w, x)
  PROVE  Books(w)'
<1> DEFINE r == request[w]
           s == request'[w]
           amount == Delta(reading[x], r.payload[x])
<1>1. UNCHANGED <<counter, holds, reading, baseline, ledger, hours, truth, failed>>
  BY DEF IngestItem
<1>2. /\ r.stage = "items" /\ x \in r.todo /\ s.todo = r.todo \ {x} /\ s.payload = r.payload
      /\ amount = 0 => s.stage = "items" /\ s.readings = r.readings \cup {x}
      /\ amount # 0 => /\ s.stage = "ledger" /\ s.readings = r.readings
                       /\ s.entry = x /\ s.amount = amount
  BY IngestEffect
<1>3. r.todo \cap r.readings = {}
  BY DEF Books, Walk
<1>4. Walk(w)'
  <2>1. CASE amount = 0
    BY <1>2, <1>3, <2>1 DEF Walk
  <2>2. CASE amount # 0
    <3>1. s.amount = Delta(reading'[s.entry], s.payload[s.entry])
      BY <1>1, <1>2, <2>2
    <3>2. s.todo \cap s.readings = {} /\ s.entry \notin s.todo /\ s.entry \notin s.readings
          /\ s.amount # 0 /\ s.stage = "ledger"
      BY <1>2, <1>3, <2>2
    <3> HIDE DEF s
    <3> QED
      BY <3>1, <3>2 DEF Walk, s
  <2> QED
    BY <2>1, <2>2
<1>5. ASSUME NEW e \in Entries PROVE Book(w, e)'
  <2>1. Recorded(e)' = Recorded(e) /\ Book(w, e)
    BY <1>1, RecordedKept DEF Books
  <2>2. CASE e # x
    <3>1. (Pending(w, e)' <=> Pending(w, e)) /\ (Noted(w, e)' <=> Noted(w, e))
      <4>1. CASE amount = 0
        BY <1>2, <2>2, <4>1 DEF Pending, Noted, At
      <4>2. CASE amount # 0
        BY <1>2, <2>2, <4>2 DEF Pending, Noted, At
      <4> QED
        BY <4>1, <4>2
    <3> QED
      BY <1>1, <1>2, <2>1, <3>1, BookKept
  <2>3. CASE e = x
    <3>1. Pending(w, x) /\ Due(w, x) /\ Settled(x)
      BY <1>2, <2>1, <2>3 DEF Pending, Book
    <3>2. Settled(x)' /\ Due(w, x)'
      BY <1>1, <1>2, <2>1, <2>3, <3>1 DEF Settled, Due
    <3>3. CASE amount = 0
      <4>1. PaidAt(Recorded(x) + amount, counter[x], r.payload[x], truth[x])
        BY <3>1, ValuesTyped, BooksOnRow DEF Settled, Due
      <4>2. Recorded(x) + amount = Recorded(x)
        BY <3>3, ValuesTyped
      <4>3. Paid(w, x)'
        BY <1>1, <1>2, <2>1, <2>3, <4>1, <4>2 DEF Paid
      <4>4. ~Pending(w, x)' /\ Noted(w, x)'
        BY <1>2, <3>3 DEF Pending, Noted, At
      <4> QED
        BY <2>3, <3>2, <4>3, <4>4 DEF Book
    <3>4. CASE amount # 0
      <4>1. Pending(w, x)' /\ ~Noted(w, x)'
        BY <1>2, <1>3, <3>4 DEF Pending, Noted, At
      <4> QED
        BY <2>3, <3>2, <4>1 DEF Book
    <3> QED
      BY <3>3, <3>4
  <2> QED
    BY <2>2, <2>3
<1> QED
  BY <1>4, <1>5, <1>1 DEF Books

\* The entries that a commit flushes get their readings.
LEMMA BookFlushed ==
  ASSUME Typed, NEW w \in Workers, NEW e \in Entries, Book(w, e), e \in request[w].readings,
         FlushReadings(request[w]), FlushBaselines(request[w]),
         counter' = counter, Recorded(e)' = Recorded(e)
  PROVE  Settled(e)' /\ Free(e)'
<1> DEFINE x == request[w].payload[e]
           t == truth[e]
           u == truth'[e]
           R == Recorded(e)
           c == counter[e]
<1>1. R \in Nat /\ c \in Nat /\ x \in Hour /\ t \in Truth /\ request[w] \in Request
  BY ValuesTyped
<1>2. /\ u \in Truth /\ reading'[e] = x /\ u.ran = t.ran /\ u.reset = t.reset
      /\ u.first = IF t.first = None THEN x ELSE t.first
  BY <1>1, FlushTyped DEF Typed
<1>3. PaidAt(R, c, x, t)
  BY DEF Book, Noted, Paid
<1> HIDE DEF x, t, u, R, c
<1>4. SettledAt(R, x, u) /\ FreeAt(R, c, x, u)
  BY <1>1, <1>2, <1>3, BooksOnFlush
<1> QED
  BY <1>2, <1>4 DEF Settled, Free, x, t, u, R, c

LEMMA BooksFinish ==
  ASSUME Typed, NEW w \in Workers, Books(w), failed = 0, FinishPush(w)
  PROVE  Books(w)'
<1> DEFINE r == request[w]
<1>1. /\ r.stage = "items" /\ r.todo = {} /\ FlushReadings(r) /\ FlushBaselines(r)
      /\ UNCHANGED <<counter, holds, ledger, hours, failed>> /\ request'[w] = Idle
  BY EndEffect DEF FinishPush, At
<1>2. Walk(w)'
  BY <1>1 DEF Walk, Idle
<1>3. ASSUME NEW e \in Entries PROVE Book(w, e)'
  <2>1. Recorded(e)' = Recorded(e) /\ Book(w, e) /\ request[w] \in Request
    BY <1>1, RecordedKept, ValuesTyped DEF Books
  <2>2. ~Pending(w, e)' /\ ~Noted(w, e)'
    BY <1>1 DEF Pending, Noted, At, Idle
  <2>3. CASE e \in r.readings
    BY <1>1, <2>1, <2>2, <2>3, BookFlushed DEF Book
  <2>4. CASE e \notin r.readings
    <3>1. reading'[e] = reading[e] /\ truth'[e] = truth[e]
      BY <1>1, <2>1, <2>4, FlushTyped DEF Typed
    <3>2. ~Pending(w, e) /\ ~Noted(w, e)
      BY <1>1, <2>4 DEF Pending, Noted, At
    <3>3. Settled(e)' /\ Free(e)'
      BY <1>1, <2>1, <3>1, <3>2 DEF Book, Settled, Free
    <3> QED
      BY <2>2, <3>3 DEF Book
  <2> QED
    BY <2>3, <2>4
<1> QED
  BY <1>2, <1>3 DEF Books

LEMMA BooksRow ==
  ASSUME Typed, NEW w \in Workers, Books(w), failed = 0, CommitLedgerRow(w)
  PROVE  Books(w)'
<1> DEFINE r == request[w]
           s == request'[w]
           x == r.entry
<1>1. /\ r.stage = "ledger" /\ x \in Entries /\ s.todo = r.todo /\ s.payload = r.payload
      /\ r.credit = None => s.stage = "items" /\ s.readings = {x}
      /\ r.credit # None => s.stage = "total" /\ s.readings = {} /\ s.entry = x
  BY LedgerEffect
<1>2. /\ UNCHANGED <<counter, holds, hours, failed>> /\ FlushReadings(r) /\ FlushBaselines(r)
  BY DEF CommitLedgerRow
<1>3. /\ r.todo \cap r.readings = {} /\ x \notin r.todo /\ x \notin r.readings
      /\ r.amount = Delta(reading[x], r.payload[x])
  BY <1>1 DEF Books, Walk
<1>4. Walk(w)'
  BY <1>1, <1>3 DEF Walk
<1>5. ASSUME NEW e \in Entries PROVE Book(w, e)'
  <2>1. /\ Recorded(e)' = Recorded(e) + (IF e = x THEN r.amount ELSE 0)
        /\ Book(w, e) /\ r \in Request /\ Recorded(e) \in Nat
    BY LedgerRow, ValuesTyped DEF Books
  <2>2. /\ Pending(w, e)' <=> e \in r.todo
        /\ Noted(w, e)' <=> e = x
    BY <1>1 DEF Pending, Noted, At
  <2>3. e \notin r.readings => reading'[e] = reading[e] /\ truth'[e] = truth[e]
    BY <1>2, <2>1, FlushTyped DEF Typed
  <2>4. CASE e = x
    <3>1. Pending(w, e) /\ Due(w, e) /\ Settled(e)
      BY <1>1, <2>1, <2>4 DEF Pending, At, Book
    <3>2. PaidAt(Recorded(e) + r.amount, counter[e], r.payload[e], truth[e])
      <4>1. PaidAt(Recorded(e) + Delta(reading[e], r.payload[e]), counter[e], r.payload[e], truth[e])
        BY <3>1, ValuesTyped, BooksOnRow DEF Settled, Due
      <4>2. r.amount = Delta(reading[e], r.payload[e])
        BY <1>3, <2>4
      <4> QED
        BY <4>1, <4>2
    <3>3. reading'[e] = reading[e] /\ truth'[e] = truth[e] /\ Recorded(e)' = Recorded(e) + r.amount
      BY <1>3, <2>1, <2>3, <2>4
    <3>4. Paid(w, e)'
      BY <1>1, <1>2, <2>4, <3>2, <3>3 DEF Paid
    <3>5. Settled(e)'
      <4>1. CASE reading[e] = None
        <5>1. r.amount = 0
          BY <1>3, <2>4, <4>1 DEF Delta
        <5> QED
          BY <1>1, <5>1 DEF Books, Walk
      <4>2. CASE reading[e] # None
        BY <3>1, <3>3, <4>2 DEF Settled, SettledAt
      <4> QED
        BY <4>1, <4>2
    <3> QED
      BY <1>3, <2>2, <2>4, <3>4, <3>5 DEF Book
  <2>5. CASE e # x /\ e \in r.readings
    <3>1. Recorded(e)' = Recorded(e)
      BY <2>1, <2>5
    <3>2. Settled(e)' /\ Free(e)'
      BY <1>2, <2>1, <2>5, <3>1, BookFlushed
    <3> QED
      BY <1>3, <2>2, <2>5, <3>2 DEF Book
  <2>6. CASE e # x /\ e \notin r.readings
    <3>1. Recorded(e)' = Recorded(e)
      BY <2>1, <2>6
    <3>2. (Pending(w, e)' <=> Pending(w, e)) /\ (Noted(w, e)' <=> Noted(w, e))
      BY <1>1, <2>2, <2>6 DEF Pending, Noted, At
    <3> QED
      BY <1>1, <1>2, <2>1, <2>3, <2>6, <3>1, <3>2, BookKept
  <2> QED
    BY <2>4, <2>5, <2>6
<1> QED
  BY <1>4, <1>5 DEF Books

LEMMA BooksSum ==
  ASSUME Typed, NEW w \in Workers, Books(w), failed = 0, SumContributions(w)
  PROVE  Books(w)'
<1> DEFINE r == request[w]
           s == request'[w]
<1>1. /\ r.stage = "total" /\ s.stage = "derive" /\ s.entry = r.entry /\ s.todo = r.todo
      /\ s.payload = r.payload /\ s.readings = r.readings
  BY SumEffect
<1>2. UNCHANGED <<counter, reading, ledger, truth, failed>>
  BY DEF SumContributions
<1>3. Walk(w)'
  BY <1>1 DEF Books, Walk
<1>4. \A e \in Entries : /\ Pending(w, e)' <=> Pending(w, e)
                         /\ Noted(w, e)' <=> Noted(w, e)
  BY <1>1 DEF Pending, Noted, At
<1> QED
  BY <1>1, <1>2, <1>3, <1>4, BooksStay

LEMMA BooksDerive ==
  ASSUME Typed, NEW w \in Workers, Books(w), failed = 0, CommitTotal(w)
  PROVE  Books(w)'
<1> DEFINE r == request[w]
           s == request'[w]
<1>1. /\ r.stage = "derive" /\ s.stage = "items" /\ s.todo = r.todo
      /\ s.payload = r.payload /\ s.readings = {r.entry}
  BY DeriveEffect
<1>2. UNCHANGED <<counter, reading, ledger, truth, failed>>
  BY DEF CommitTotal
<1>3. Walk(w)'
  BY <1>1 DEF Books, Walk
<1>4. \A e \in Entries : /\ Pending(w, e)' <=> Pending(w, e)
                         /\ Noted(w, e)' <=> Noted(w, e)
  BY <1>1 DEF Pending, Noted, At, Books, Walk
<1> QED
  BY <1>1, <1>2, <1>3, <1>4, BooksStay

LEMMA BooksStep ==
  ASSUME Typed, NEW w \in Workers, Workers = {w}, Books(w), [Next]_vars
  PROVE  Books(w)'
<1>1. failed \in Nat
  BY FailuresAssumption DEF Typed, TypeOK
<1>2. failed # 0 => Books(w)'
  <2>1. CASE UNCHANGED vars
    BY <2>1 DEF vars, Books
  <2>2. CASE Next
    <3>1. failed' = failed \/ failed' = failed + 1
      BY <2>2, NextCases DEF Cut, ZeroCounter, Rebind, StartPush, IngestItem, CommitLedgerRow,
            SumContributions, CommitTotal, FinishPush, Abandon
    <3> QED
      BY <1>1, <3>1 DEF Books
  <2> QED
    BY <2>1, <2>2
<1>3. ASSUME UNCHANGED <<counter, reading, ledger, truth, failed, request>>, failed = 0
      PROVE  Books(w)'
  <2>1. \A e \in Entries : /\ Pending(w, e)' <=> Pending(w, e)
                           /\ Noted(w, e)' <=> Noted(w, e)
    BY <1>3 DEF Pending, Noted, At
  <2>2. Walk(w)'
    BY <1>3 DEF Books, Walk
  <2> QED
    BY <1>3, <2>1, <2>2, BooksStay
<1>4. ASSUME Abandon(w) PROVE Books(w)'
  BY <1>1, <1>4 DEF Abandon, Books
<1>5. CASE failed = 0 /\ Next
  <2>1. CASE \E e \in Entries : Cut(e) \/ ZeroCounter(e)
    BY <1>5, <2>1, BooksOutside
  <2>2. CASE Rebind
    BY <1>3, <1>5, <2>2, RebindEffect
  <2>3. CASE \E S \in SUBSET Entries : StartPush(w, S)
    BY <1>5, <2>3, BooksStart
  <2>4. CASE \E e \in Entries : IngestItem(w, e)
    BY <1>5, <2>4, BooksIngest
  <2>5. CASE CommitLedgerRow(w)
    BY <1>5, <2>5, BooksRow
  <2>6. CASE SumContributions(w)
    BY <1>5, <2>6, BooksSum
  <2>7. CASE CommitTotal(w)
    BY <1>5, <2>7, BooksDerive
  <2>8. CASE FinishPush(w)
    BY <1>5, <2>8, BooksFinish
  <2>9. CASE Abandon(w)
    BY <1>4, <2>9
  <2> QED
    BY <1>5, <2>1, <2>2, <2>3, <2>4, <2>5, <2>6, <2>7, <2>8, <2>9, NextCases
<1>6. CASE failed = 0 /\ UNCHANGED vars
  BY <1>3, <1>6 DEF vars
<1> QED
  BY <1>2, <1>5, <1>6

LEMMA BooksAlways ==
  ASSUME NEW w, Workers = {w}
  PROVE  Spec => [](Typed /\ Books(w))
<1>1. w \in Workers
  OBVIOUS
<1>2. Init => Typed /\ Books(w)
  BY <1>1, InitTyped, BooksInit
<1>3. Typed /\ Books(w) /\ [Next]_vars => (Typed /\ Books(w))'
  BY <1>1, StepTyped, BooksStep
<1> QED
  BY <1>2, <1>3, PTL DEF Spec

\* Whatever the interval, the reset, the rebinding and the pushes in between:
\* the ledger rows of an entry, credited and orphaned together, never hold
\* more hours than its controller counted, while pushes are served one at a
\* time and until one is cut off between its commits (ingest_usage_observation).
THEOREM NoHourTwice ==
  ASSUME NEW w, Workers = {w}
  PROVE  Spec => []RecordedHoursWereRun
<1>1. ASSUME Typed, Books(w) PROVE RecordedHoursWereRun
  <2> SUFFICES ASSUME failed = 0, NEW e \in Entries PROVE Recorded(e) <= truth[e].ran
    BY DEF RecordedHoursWereRun, NeverCountedTwice
  <2> DEFINE R == Recorded(e)
             c == counter[e]
             p == reading[e]
             x == request[w].payload[e]
             t == truth[e]
  <2>1. Book(w, e) /\ w \in Workers
    BY <1>1 DEF Books
  <2>2. R \in Nat /\ c \in Nat /\ p \in Hour \cup {None} /\ x \in Hour /\ t \in Truth
    BY <1>1, <2>1, ValuesTyped
  <2>3. t.ran \in Nat /\ Delta(p, x) \in Nat /\ x \in Nat /\ (p # None => p \in Nat)
    BY <2>2, TruthTyped, DeltaTyped
  <2>4. Above(c, x) \in Nat /\ (p # None => Above(c, p) \in Nat)
    BY <2>2, <2>3 DEF Above
  <2>5. /\ p = None => R = 0
        /\ \/ p # None => R + Above(c, p) <= t.ran
           \/ R + Delta(p, x) + Above(c, x) <= t.ran
           \/ R + Above(c, x) <= t.ran
    BY <2>1 DEF Book, Settled, SettledAt, Free, FreeAt, Due, DueAt, Paid, PaidAt
  <2> HIDE DEF R, c, p, x, t
  <2>6. R <= t.ran
    BY <2>2, <2>3, <2>4, <2>5
  <2> QED
    BY <2>6 DEF R, t
<1> QED
  BY <1>1, BooksAlways, PTL

\* Between pushes, an entry whose counter was never zeroed has exactly the hours
\* from its first reading to its last in the ledger, whoever they went to.
THEOREM EveryHourIsRecorded ==
  ASSUME NEW w, Workers = {w}
  PROVE  Spec => []NoHourLost
<1>1. ASSUME Typed, Books(w) PROVE NoHourLost
  <2> SUFFICES ASSUME Quiet, failed = 0, NEW e \in Entries, reading[e] # None, ~truth[e].reset
               PROVE  Recorded(e) + truth[e].first = reading[e]
    BY DEF NoHourLost
  <2>1. w \in Workers
    OBVIOUS
  <2>2. request[w] = Idle
    BY <1>1, <2>1 DEF Quiet, At, Typed, StageTyped
  <2>3. ~Pending(w, e) /\ ~Noted(w, e)
    BY <2>2 DEF Pending, Noted, At, Idle
  <2> QED
    BY <1>1, <2>3 DEF Books, Book, Free, FreeAt
<1> QED
  BY <1>1, BooksAlways, PTL

-----------------------------------------------------------------------------
(* The totals derived from the ledger, however many pushes are cut off.    *)

Lag(w) ==
  /\ \A i \in Instances : hours[i] <= InstanceTotal(i)
  /\ At(w, "derive") => request[w].total = InstanceTotal(request[w].credit)

LEMMA InstanceTotalKept ==
  ASSUME NEW i \in Instances, ledger' = ledger
  PROVE  InstanceTotal(i)' = InstanceTotal(i)
BY DEF InstanceTotal

LEMMA LagInit ==
  ASSUME Init, NEW w \in Workers
  PROVE  Lag(w)
<1>1. \A i \in Instances : hours[i] = 0 /\ InstanceTotal(i) \in Nat
  BY InitTyped, InstanceTotalTyped DEF Init, Typed, Binding
<1>2. ~At(w, "derive")
  BY DEF Init, At, Idle
<1> QED
  BY <1>1, <1>2 DEF Lag

\* Only a ledger row moves a sum, and only up; only a derived total moves hours.
LEMMA LagStep ==
  ASSUME Typed, NEW w \in Workers, Workers = {w}, Lag(w), [Next]_vars
  PROVE  Lag(w)' /\ \A i \in Instances : hours'[i] >= hours[i]
<1>1. /\ \A i \in Instances : hours[i] \in Nat /\ InstanceTotal(i) \in Nat
      /\ hours \in [Instances -> Nat]
  BY InstanceTotalTyped DEF Typed, TypeOK, Binding
<1>2. ASSUME hours' = hours, ledger' = ledger, At(w, "derive")' => UNCHANGED request
      PROVE  Lag(w)' /\ \A i \in Instances : hours'[i] >= hours[i]
  <2>1. \A i \in Instances : InstanceTotal(i)' = InstanceTotal(i)
    BY <1>2, InstanceTotalKept
  <2>2. ASSUME At(w, "derive")' PROVE request'[w].total = InstanceTotal(request[w].credit)'
    <3>1. At(w, "derive") /\ request' = request
      BY <1>2, <2>2 DEF At
    <3>2. request[w].credit \in Instances
      BY <3>1 DEF Typed, StageTyped, At
    <3> QED
      BY <2>1, <3>1, <3>2, <1>2 DEF Lag, InstanceTotal
  <2> QED
    BY <1>1, <1>2, <2>1, <2>2 DEF Lag
<1>3. CASE UNCHANGED vars
  BY <1>2, <1>3 DEF vars
<1>4. ASSUME NEW e \in Entries, Cut(e) \/ ZeroCounter(e)
      PROVE  Lag(w)' /\ \A i \in Instances : hours'[i] >= hours[i]
  BY <1>2, <1>4 DEF Cut, ZeroCounter
<1>5. CASE Rebind
  BY <1>2, <1>5, RebindEffect
<1>6. ASSUME NEW S \in SUBSET Entries, StartPush(w, S)
      PROVE  Lag(w)' /\ \A i \in Instances : hours'[i] >= hours[i]
  BY <1>2, <1>6, StartEffect DEF StartPush, At
<1>7. ASSUME NEW e \in Entries, IngestItem(w, e)
      PROVE  Lag(w)' /\ \A i \in Instances : hours'[i] >= hours[i]
  <2>1. request'[w].stage # "derive"
    BY <1>7, IngestEffect
  <2> QED
    BY <1>2, <1>7, <2>1 DEF IngestItem, At
<1>8. CASE FinishPush(w) \/ Abandon(w)
  <2>1. request'[w].stage # "derive"
    BY <1>8, EndEffect DEF Idle
  <2> QED
    BY <1>2, <1>8, <2>1 DEF FinishPush, Abandon, At
<1>9. CASE CommitLedgerRow(w)
  <2>1. request'[w].stage # "derive" /\ hours' = hours /\ request[w].amount \in Nat
    BY <1>9, LedgerEffect DEF CommitLedgerRow, Typed, TypeOK, Request, Hour
  <2>2. \A i \in Instances : InstanceTotal(i)' =
          InstanceTotal(i) + IF i = request[w].credit THEN request[w].amount ELSE 0
    BY <1>9, LedgerRow DEF Binding
  <2> QED
    BY <1>1, <2>1, <2>2 DEF Lag, At
<1>10. CASE SumContributions(w)
  <2>1. /\ request'[w].total = InstanceTotal(request[w].credit)
        /\ request'[w].credit = request[w].credit /\ request[w].credit \in Instances
    BY <1>10, SumEffect
  <2>2. hours' = hours /\ ledger' = ledger
    BY <1>10 DEF SumContributions
  <2>3. request'[w].total = InstanceTotal(request[w].credit)'
    BY <2>1, <2>2 DEF InstanceTotal
  <2> QED
    BY <1>1, <2>2, <2>3, InstanceTotalKept DEF Lag
<1>11. CASE CommitTotal(w)
  <2>1. /\ request[w].stage = "derive" /\ request[w].credit \in Instances
        /\ request'[w].stage # "derive"
    BY <1>11, DeriveEffect
  <2>2. ledger' = ledger /\ hours' = [hours EXCEPT ![request[w].credit] = request[w].total]
    BY <1>11 DEF CommitTotal
  <2>3. request[w].total = InstanceTotal(request[w].credit)
    BY <2>1 DEF Lag, At
  <2> QED
    BY <1>1, <2>1, <2>2, <2>3, InstanceTotalKept DEF Lag, At
<1> QED
  BY <1>3, <1>4, <1>5, <1>6, <1>7, <1>8, <1>9, <1>10, <1>11, NextCases

\* The derived total on an instance may lag behind the ledger, after a push
\* that was cut off between its ledger row and its DERIVE, and never runs ahead
\* of it or backwards (recompute_instance_usage).
THEOREM TotalsFollowTheLedger ==
  ASSUME NEW w, Workers = {w}
  PROVE  Spec => TotalsOnlyLag
<1>1. w \in Workers
  OBVIOUS
<1>2. Init => Typed /\ Lag(w)
  BY <1>1, InitTyped, LagInit
<1>3. Typed /\ Lag(w) /\ [Next]_vars => (Typed /\ Lag(w))'
  BY <1>1, StepTyped, LagStep
<1>4. Typed /\ Lag(w) /\ [Next]_vars => [\A i \in Instances : hours'[i] >= hours[i]]_vars
  BY <1>1, LagStep
<1>5. Lag(w) => \A i \in Instances : hours[i] <= InstanceTotal(i)
  BY DEF Lag
<1> QED
  BY <1>2, <1>3, <1>4, <1>5, PTL DEF Spec, TotalsOnlyLag

-----------------------------------------------------------------------------
(* Whom the hours are credited to, and that their totals add up, until a    *)
(* push is cut off.                                                         *)

\* The total of i is being derived.
Deriving(w, i) == request[w].stage \in {"total", "derive"} /\ request[w].credit = i

\* The binding stored at the last reading of e is the one a push then found.
Linked(w, e) ==
  /\ ~Noted(w, e) => baseline[e] = truth[e].seen
  /\ Noted(w, e) /\ e \notin request[w].stamps => baseline[e] = request[w].bound[e]

Credits(w) ==
  LET r == request[w] IN
  /\ \A e \in Entries : Linked(w, e)
  /\ \A i \in Instances : hours[i] = InstanceTotal(i) \/ Deriving(w, i)
  /\ r.stage = "idle" => r.stamps = {}
  /\ \A e \in r.stamps : e \in r.readings \/ (r.stage = "ledger" /\ r.entry = e)
  /\ r.stage = "ledger" => /\ r.entry \in r.stamps
                           /\ r.credit = CreditTo(r.bound[r.entry], baseline[r.entry])

CreditBooks(w) == failed = 0 => Credits(w)

\* What a commit does to the bindings of an entry other than the one in hand.
LEMMA LinkFlushed ==
  ASSUME Typed, NEW w \in Workers, NEW e \in Entries, Credits(w),
         FlushReadings(request[w]), FlushBaselines(request[w]),
         request[w].stage \in {"items", "ledger"},
         request[w].stage = "ledger" => request[w].entry # e,
         ~Noted(w, e)'
  PROVE  Linked(w, e)'
<1> DEFINE r == request[w]
<1>1. r \in Request
  BY ValuesTyped
<1>2. /\ baseline'[e] = IF e \in r.stamps THEN r.bound[e] ELSE baseline[e]
      /\ truth'[e].seen = IF e \in r.readings THEN r.bound[e] ELSE truth[e].seen
  BY <1>1, FlushTyped DEF Typed
<1>3. Noted(w, e) <=> e \in r.readings
  BY DEF Noted
<1>4. e \in r.stamps => e \in r.readings
  BY DEF Credits
<1>5. Linked(w, e)
  BY DEF Credits
<1>6. baseline'[e] = truth'[e].seen
  BY <1>2, <1>3, <1>4, <1>5 DEF Linked
<1> QED
  BY <1>6 DEF Linked

LEMMA LinkKept ==
  ASSUME NEW w \in Workers, NEW e \in Entries, Linked(w, e),
         baseline' = baseline, truth'[e].seen = truth[e].seen,
         Noted(w, e)' <=> Noted(w, e),
         e \in request'[w].stamps <=> e \in request[w].stamps,
         request'[w].bound[e] = request[w].bound[e]
  PROVE  Linked(w, e)'
BY DEF Linked

\* What the history says of the machine, and the bindings, do not matter to it.
LEMMA CreditsOutside ==
  ASSUME NEW w \in Workers, Credits(w),
         UNCHANGED <<baseline, ledger, hours, request>>,
         \A e \in Entries : truth'[e].seen = truth[e].seen
  PROVE  Credits(w)'
<1>1. \A e \in Entries : Linked(w, e)'
  BY LinkKept DEF Credits, Noted
<1>2. \A i \in Instances : InstanceTotal(i)' = InstanceTotal(i)
  BY InstanceTotalKept
<1>3. \A i \in Instances : (hours[i] = InstanceTotal(i))' \/ Deriving(w, i)'
  BY <1>2 DEF Credits, Deriving
<1> QED
  BY <1>1, <1>3 DEF Credits

LEMMA CreditsStart ==
  ASSUME Typed, NEW w \in Workers, Credits(w),
         NEW S \in SUBSET Entries, StartPush(w, S)
  PROVE  Credits(w)'
<1>1. UNCHANGED <<counter, holds, reading, baseline, ledger, hours, truth, failed>>
      /\ request[w] = Idle
  BY DEF StartPush, At, Typed, StageTyped
<1>2. /\ request'[w].stage = "items" /\ request'[w].readings = {} /\ request'[w].stamps = {}
  BY StartEffect
<1>3. \A e \in Entries : Linked(w, e)'
  BY <1>1, <1>2 DEF Credits, Linked, Noted, Idle
<1>4. \A i \in Instances : (hours[i] = InstanceTotal(i))'
  BY <1>1, InstanceTotalKept DEF Credits, Deriving, Idle
<1> QED
  BY <1>2, <1>3, <1>4 DEF Credits

LEMMA CreditsIngest ==
  ASSUME Typed, NEW w \in Workers, Credits(w), Walk(w),
         NEW x \in Entries, IngestItem(w, x)
  PROVE  Credits(w)'
<1> DEFINE r == request[w]
           s == request'[w]
           amount == Delta(reading[x], r.payload[x])
<1>1. UNCHANGED <<counter, holds, reading, baseline, ledger, hours, truth, failed>>
  BY DEF IngestItem
<1>2. /\ r.stage = "items" /\ x \in r.todo /\ s.stamps = r.stamps \cup {x}
      /\ s.bound = [r.bound EXCEPT ![x] = holds[x]]
      /\ amount = 0 => s.stage = "items" /\ s.readings = r.readings \cup {x}
      /\ amount # 0 => /\ s.stage = "ledger" /\ s.readings = r.readings
                       /\ s.entry = x /\ s.credit = CreditTo(holds[x], baseline[x])
  BY IngestEffect
<1>3. r.bound \in [Entries -> Binding]
  BY ValuesTyped DEF Request
<1>4. s.bound[x] = holds[x] /\ \A e \in Entries \ {x} : s.bound[e] = r.bound[e]
  BY <1>2, <1>3
<1>5. ASSUME NEW e \in Entries PROVE Linked(w, e)'
  <2>1. CASE e # x
    <3>1. Noted(w, e)' <=> Noted(w, e)
      <4>1. CASE amount = 0
        BY <1>2, <2>1, <4>1 DEF Noted
      <4>2. CASE amount # 0
        BY <1>2, <4>2 DEF Noted
      <4> QED
        BY <4>1, <4>2
    <3>2. e \in s.stamps <=> e \in r.stamps
      BY <1>2, <2>1
    <3> QED
      BY <1>1, <1>4, <2>1, <3>1, <3>2, LinkKept DEF Credits
  <2>2. CASE e = x
    <3>1. ~Noted(w, x)
      BY <1>2 DEF Noted, Walk
    <3>2. baseline'[x] = truth'[x].seen /\ x \in s.stamps
      BY <1>1, <1>2, <3>1 DEF Credits, Linked
    <3> QED
      BY <2>2, <3>2 DEF Linked
  <2> QED
    BY <2>1, <2>2
<1>6. \A i \in Instances : (hours[i] = InstanceTotal(i))'
  BY <1>1, <1>2, InstanceTotalKept DEF Credits, Deriving
<1>7. \A e \in s.stamps : e \in s.readings \/ (s.stage = "ledger" /\ s.entry = e)
  <2>1. CASE amount = 0
    BY <1>2, <2>1 DEF Credits
  <2>2. CASE amount # 0
    BY <1>2, <2>2 DEF Credits
  <2> QED
    BY <2>1, <2>2
<1>8. s.stage = "ledger" => /\ s.entry \in s.stamps
                            /\ s.credit = CreditTo(s.bound[s.entry], baseline'[s.entry])
  BY <1>1, <1>2, <1>4
<1>9. s.stage # "idle"
  BY <1>2
<1> HIDE DEF amount
<1> QED
  BY <1>5, <1>6, <1>7, <1>8, <1>9 DEF Credits

LEMMA CreditsRow ==
  ASSUME Typed, NEW w \in Workers, Credits(w), Walk(w), CommitLedgerRow(w)
  PROVE  Credits(w)'
<1> DEFINE r == request[w]
           s == request'[w]
<1>1. /\ r.stage = "ledger" /\ r.entry \in Entries /\ r.credit \in Binding
      /\ s.bound = r.bound /\ s.stamps = {}
      /\ r.credit = None => s.stage = "items" /\ s.readings = {r.entry}
      /\ r.credit # None => /\ s.stage = "total" /\ s.readings = {}
                            /\ s.entry = r.entry /\ s.credit = r.credit
  BY LedgerEffect
<1>2. FlushReadings(r) /\ FlushBaselines(r) /\ hours' = hours
  BY DEF CommitLedgerRow
<1>3. ASSUME NEW e \in Entries PROVE Linked(w, e)'
  <2>1. Noted(w, e)' <=> e = r.entry
    BY <1>1 DEF Noted
  <2>2. CASE e # r.entry
    BY <1>1, <1>2, <2>1, <2>2, LinkFlushed
  <2>3. CASE e = r.entry
    <3>1. e \in r.stamps
      BY <1>1, <2>3 DEF Credits
    <3>2. baseline'[e] = r.bound[e]
      BY <1>2, <3>1, ValuesTyped, FlushTyped DEF Typed
    <3> QED
      BY <1>1, <2>1, <2>3, <3>2 DEF Linked
  <2> QED
    BY <2>2, <2>3
<1>4. ASSUME NEW i \in Instances PROVE (hours[i] = InstanceTotal(i))' \/ Deriving(w, i)'
  <2>1. InstanceTotal(i)' = InstanceTotal(i) + IF i = r.credit THEN r.amount ELSE 0
    BY LedgerRow DEF Binding
  <2>2. hours[i] = InstanceTotal(i) /\ InstanceTotal(i) \in Nat
    BY <1>1, InstanceTotalTyped DEF Credits, Deriving, Typed, Binding
  <2>3. CASE i = r.credit
    BY <1>1, <2>3, NoneIsNoHour DEF Deriving
  <2>4. CASE i # r.credit
    BY <1>2, <2>1, <2>2, <2>4
  <2> QED
    BY <2>3, <2>4
<1> QED
  BY <1>1, <1>3, <1>4 DEF Credits

LEMMA CreditsSum ==
  ASSUME Typed, NEW w \in Workers, Credits(w), SumContributions(w)
  PROVE  Credits(w)'
<1> DEFINE r == request[w]
           s == request'[w]
<1>1. /\ r.stage = "total" /\ s.stage = "derive" /\ s.entry = r.entry /\ s.credit = r.credit
      /\ s.bound = r.bound /\ s.readings = r.readings /\ s.stamps = r.stamps
  BY SumEffect
<1>2. UNCHANGED <<baseline, ledger, hours, truth>>
  BY DEF SumContributions
<1>3. \A e \in Entries : Linked(w, e)'
  BY <1>1, <1>2, LinkKept DEF Credits, Noted
<1>4. \A i \in Instances : (hours[i] = InstanceTotal(i))' \/ Deriving(w, i)'
  BY <1>1, <1>2, InstanceTotalKept DEF Credits, Deriving
<1> QED
  BY <1>1, <1>3, <1>4 DEF Credits

LEMMA CreditsDerive ==
  ASSUME Typed, NEW w \in Workers, Credits(w), Walk(w), Lag(w), CommitTotal(w)
  PROVE  Credits(w)'
<1> DEFINE r == request[w]
           s == request'[w]
<1>1. /\ r.stage = "derive" /\ r.entry \in Entries /\ r.credit \in Instances
      /\ s.stage = "items" /\ s.bound = r.bound /\ s.stamps = {} /\ s.readings = {r.entry}
  BY DeriveEffect
<1>2. UNCHANGED <<baseline, ledger, truth>> /\ hours' = [hours EXCEPT ![r.credit] = r.total]
      /\ hours \in [Instances -> Nat]
  BY DEF CommitTotal, Typed, TypeOK
<1>3. r.readings = {} /\ r.stamps = {}
  BY <1>1 DEF Walk, Credits
<1>4. ASSUME NEW e \in Entries PROVE Linked(w, e)'
  <2>1. Noted(w, e)' <=> Noted(w, e)
    BY <1>1, <1>3 DEF Noted
  <2> QED
    BY <1>1, <1>2, <1>3, <2>1, LinkKept DEF Credits
<1>5. ASSUME NEW i \in Instances PROVE (hours[i] = InstanceTotal(i))'
  <2>1. InstanceTotal(i)' = InstanceTotal(i)
    BY <1>2, InstanceTotalKept
  <2>2. r.total = InstanceTotal(r.credit)
    BY <1>1 DEF Lag, At
  <2>3. i # r.credit => hours[i] = InstanceTotal(i)
    BY DEF Credits, Deriving
  <2> QED
    BY <1>2, <2>1, <2>2, <2>3
<1> QED
  BY <1>1, <1>4, <1>5 DEF Credits

LEMMA CreditsFinish ==
  ASSUME Typed, NEW w \in Workers, Credits(w), FinishPush(w)
  PROVE  Credits(w)'
<1>1. /\ request[w].stage = "items" /\ FlushReadings(request[w]) /\ FlushBaselines(request[w])
      /\ UNCHANGED <<ledger, hours>> /\ request'[w] = Idle
  BY EndEffect DEF FinishPush, At
<1>2. \A e \in Entries : Linked(w, e)'
  <2> SUFFICES ASSUME NEW e \in Entries PROVE Linked(w, e)'
    OBVIOUS
  <2>1. ~Noted(w, e)'
    BY <1>1 DEF Noted, Idle
  <2> QED
    BY <1>1, <2>1, LinkFlushed
<1>3. \A i \in Instances : (hours[i] = InstanceTotal(i))'
  BY <1>1, InstanceTotalKept DEF Credits, Deriving
<1> QED
  BY <1>1, <1>2, <1>3 DEF Credits, Idle

LEMMA CreditBooksStep ==
  ASSUME Typed, NEW w \in Workers, Workers = {w}, Books(w), Lag(w), CreditBooks(w), [Next]_vars
  PROVE  CreditBooks(w)'
<1>1. failed \in Nat
  BY FailuresAssumption DEF Typed, TypeOK
<1>2. failed' = failed \/ (Abandon(w) /\ failed' = failed + 1)
  <2>1. CASE UNCHANGED vars
    BY <2>1 DEF vars
  <2>2. CASE Next
    BY <2>2, NextCases DEF Cut, ZeroCounter, Rebind, StartPush, IngestItem, CommitLedgerRow,
          SumContributions, CommitTotal, FinishPush, Abandon
  <2> QED
    BY <2>1, <2>2
<1>3. CASE Abandon(w)
  BY <1>1, <1>3 DEF Abandon, CreditBooks
<1>4. CASE ~Abandon(w)
  <2> SUFFICES ASSUME failed = 0 PROVE Credits(w)'
    BY <1>2, <1>4 DEF CreditBooks
  <2>1. Credits(w) /\ Walk(w)
    BY DEF CreditBooks, Books
  <2>2. ASSUME UNCHANGED <<truth, baseline, ledger, hours, request>> PROVE Credits(w)'
    BY <2>1, <2>2, CreditsOutside
  <2>3. CASE UNCHANGED vars
    BY <2>2, <2>3 DEF vars
  <2>4. CASE Rebind
    BY <2>2, <2>4, RebindEffect
  <2>5. ASSUME NEW x \in Entries, Cut(x) \/ ZeroCounter(x) PROVE Credits(w)'
    <3>1. UNCHANGED <<baseline, ledger, hours, request>>
      BY <2>5 DEF Cut, ZeroCounter
    <3>2. \A e \in Entries : truth'[e].seen = truth[e].seen
      BY <2>5, CutEffect, ZeroEffect
    <3> QED
      BY <2>1, <3>1, <3>2, CreditsOutside
  <2>6. ASSUME NEW S \in SUBSET Entries, StartPush(w, S) PROVE Credits(w)'
    BY <2>1, <2>6, CreditsStart
  <2>7. ASSUME NEW e \in Entries, IngestItem(w, e) PROVE Credits(w)'
    BY <2>1, <2>7, CreditsIngest
  <2>8. CASE CommitLedgerRow(w)
    BY <2>1, <2>8, CreditsRow
  <2>9. CASE SumContributions(w)
    BY <2>1, <2>9, CreditsSum
  <2>10. CASE CommitTotal(w)
    BY <2>1, <2>10, CreditsDerive
  <2>11. CASE FinishPush(w)
    BY <2>1, <2>11, CreditsFinish
  <2> QED
    BY <1>4, <2>3, <2>4, <2>5, <2>6, <2>7, <2>8, <2>9, <2>10, <2>11, NextCases
<1> QED
  BY <1>3, <1>4

LEMMA AllBooksAlways ==
  ASSUME NEW v, Workers = {v}
  PROVE  Spec => [](Typed /\ Books(v) /\ Lag(v) /\ CreditBooks(v))
<1>1. v \in Workers
  OBVIOUS
<1>2. Init => Typed /\ Books(v) /\ Lag(v) /\ CreditBooks(v)
  <2> SUFFICES ASSUME Init PROVE Typed /\ Books(v) /\ Lag(v) /\ CreditBooks(v)
    OBVIOUS
  <2>1. Typed /\ Books(v) /\ request[v] = Idle
    BY <1>1, InitTyped, BooksInit DEF Init
  <2>2. Lag(v)
    BY <1>1, LagInit
  <2>3. \A i \in Instances : hours[i] = InstanceTotal(i)
    <3> SUFFICES ASSUME NEW i \in Instances PROVE InstanceTotal(i) = 0
      BY DEF Init
    <3> DEFINE f == [e \in Entries |-> ledger[e][i]]
    <3>1. f \in [Entries -> Nat] /\ \A e \in Entries : f[e] = 0
      BY DEF Init, Binding
    <3> QED
      BY <3>1, TotalOfNothing DEF InstanceTotal
  <2>4. \A e \in Entries : Linked(v, e)
    BY <2>1 DEF Init, Linked, Noted, Idle
  <2>5. Credits(v)
    BY <2>1, <2>3, <2>4 DEF Credits, Idle
  <2> QED
    BY <2>1, <2>2, <2>5 DEF CreditBooks
<1>3. Typed /\ Books(v) /\ Lag(v) /\ CreditBooks(v) /\ [Next]_vars
        => (Typed /\ Books(v) /\ Lag(v) /\ CreditBooks(v))'
  BY <1>1, StepTyped, BooksStep, LagStep, CreditBooksStep
<1> QED
  BY <1>2, <1>3, PTL DEF Spec

\* Between pushes the derived total on each instance is the sum of its
\* contributions over all machines, until a push is cut off between its commits.
THEOREM TotalsAddUp ==
  ASSUME NEW v, Workers = {v}
  PROVE  Spec => []TotalsDecompose
<1>1. ASSUME Typed, CreditBooks(v) PROVE TotalsDecompose
  <2>1. v \in Workers
    OBVIOUS
  <2>2. Quiet => request[v] = Idle
    BY <1>1, <2>1 DEF Quiet, At, Typed, StageTyped
  <2> QED
    BY <1>1, <2>2 DEF TotalsDecompose, CreditBooks, Credits, Deriving, Idle
<1> QED
  BY <1>1, AllBooksAlways, PTL

\* A ledger row credits an instance only when the push that read the counter
\* last found it bound to the entry and this push does too, whatever was
\* removed, installed and reset in between (ingest_usage_observation).
THEOREM CreditsNeedBothReadings ==
  ASSUME NEW v, Workers = {v}
  PROVE  Spec => CreditNeedsBothEnds
<1>1. v \in Workers
  OBVIOUS
<1>2. ASSUME Typed, Books(v), CreditBooks(v), [Next]_vars, failed = 0,
             NEW e \in Entries, NEW i \in Instances, ledger'[e][i] > ledger[e][i]
      PROVE  truth[e].seen = i /\ At(v, "ledger") /\ request[v].bound[e] = i
  <2>1. ledger[e][i] \in Nat
    BY <1>2 DEF Typed, TypeOK, Binding
  <2>2. ledger' # ledger
    BY <1>2, <2>1
  <2>3. CommitLedgerRow(v)
    <3>1. Next
      BY <1>2, <2>2 DEF vars
    <3> QED
      BY <2>2, <3>1, NextCases DEF Cut, ZeroCounter, Rebind, StartPush, IngestItem,
          SumContributions, CommitTotal, FinishPush, Abandon
  <2>4. At(v, "ledger") /\ e = request[v].entry /\ i = request[v].credit
    <3>1. ledger'[e][i] = ledger[e][i] + IF e = request[v].entry /\ i = request[v].credit
                                         THEN request[v].amount ELSE 0
      BY <1>2, <2>3, LedgerRow DEF Binding
    <3> QED
      BY <1>2, <2>1, <2>3, <3>1 DEF CommitLedgerRow
  <2>5. i = CreditTo(request[v].bound[e], baseline[e]) /\ Linked(v, e) /\ Walk(v)
    BY <1>2, <2>4 DEF CreditBooks, Credits, Books, At
  <2>6. request[v].bound[e] = i /\ baseline[e] = i
    BY <2>5, NoneIsNoHour DEF CreditTo
  <2>7. ~Noted(v, e)
    BY <2>4, <2>5 DEF Noted, Walk, At
  <2> QED
    BY <2>4, <2>5, <2>6, <2>7 DEF Linked
<1>3. Typed /\ Books(v) /\ CreditBooks(v) /\ [Next]_vars => [CreditAtBothEnds]_vars
  BY <1>1, <1>2 DEF CreditAtBothEnds
<1> QED
  BY <1>3, AllBooksAlways, PTL DEF Spec, CreditNeedsBothEnds
=============================================================================
