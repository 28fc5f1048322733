--------------------------- MODULE BatchSyncProofs ---------------------------
(***************************************************************************)
(* For any records, workers, bodies, contents and bounds: the types, what  *)
(* reaches the canonical document of a record, and what a batch promises.  *)
(***************************************************************************)
EXTENDS BatchSync, SequenceTheorems, FiniteSetTheorems, TLAPS

-----------------------------------------------------------------------------
(* Sessions. *)

NothingPending == [r \in Records |-> Clean]

\* What a session holds in each of its stages.
Sane(s) ==
  /\ s.stage \in {"assert", "preset"} => s.row \in Records /\ s.todo # <<>>
  /\ s.stage \in {"upload", "door"} => s.row \in Records
  /\ s.stage = "upload" => s.seen \in [Records -> Record]
  /\ s.stage = "assert" => /\ s.canon \in Canonical /\ s.base \in Canonical
                           /\ s.canon.union = s.base.union
  /\ s.contributed => /\ s.row \in Records /\ s.stage \in {"preset", "door"}
                      /\ s.pend = NothingPending

\* A canonical that waits for its flush: its version waits with it, and it
\* differs from what it was taken from in its leaves only.
Waiting(p) ==
  p.canon # None => /\ p.version # None
                    /\ p.base \in Canonical /\ p.canon.union = p.base.union

SaneSession(s) == Sane(s) /\ \A r \in Records : Waiting(s.pend[r])

TypeInv == TypeOK /\ \A w \in Workers : SaneSession(request[w])

LEMMA HeadTail ==
  ASSUME NEW S, NEW s \in Seq(S), s # <<>>
  PROVE  Head(s) \in S /\ Tail(s) \in Seq(S)
BY HeadTailProperties

LEMMA CleanType == Clean \in Pending /\ NothingPending \in [Records -> Pending] /\ Waiting(Clean)
BY DEF Clean, Pending, NothingPending, Waiting

LEMMA BlankType == Blank \in Canonical
BY DEF Blank, Canonical

LEMMA UnbornType == Unborn \in Record /\ Unborn.canon = Blank /\ Unborn.state = "unborn"
<1>1. NoSection \in Section
  BY DEF NoSection, Section
<1> QED
  BY <1>1, BlankType DEF Unborn, Record

LEMMA NewType ==
  ASSUME NEW section \in Section
  PROVE  /\ New(section) \in Record /\ New(section).canon = Blank
         /\ New(section).state = "live" /\ New(section).section = section
<1>1. Unborn \in Record /\ Unborn.canon = Blank
  BY UnbornType
<1> HIDE DEF Unborn
<1> QED
  BY <1>1 DEF New, Record

LEMMA IdleType == Idle \in Request /\ SaneSession(Idle)
<1>1. <<>> \in Seq(BatchItem) /\ <<>> \in Seq(AssertEntry) /\ <<>> \in Seq(PresetEntry)
  OBVIOUS
<1>2. Idle \in Request
  BY <1>1, CleanType DEF Idle, Request, NothingPending
<1>3. SaneSession(Idle)
  BY CleanType DEF Idle, SaneSession, Sane
<1> QED
  BY <1>2, <1>3

LEMMA OverlayType ==
  ASSUME NEW row \in Record, NEW p \in Pending
  PROVE  /\ Overlay(row, p) \in Record
         /\ Overlay(row, p).state = row.state
         /\ Overlay(row, p).section = IF p.section = None THEN row.section ELSE p.section
         /\ Overlay(row, p).canon = IF p.canon = None THEN row.canon ELSE p.canon
         /\ Overlay(row, p).version = IF p.version = None THEN row.version ELSE p.version
BY DEF Overlay, Record, Pending

LEMMA FlushedType ==
  ASSUME TypeInv, NEW w \in Workers
  PROVE  /\ Flushed(w) \in [Records -> Record]
         /\ \A r \in Records : Flushed(w)[r] = Overlay(rec[r], request[w].pend[r])
<1>1. request[w].pend \in [Records -> Pending] /\ rec \in [Records -> Record]
  BY DEF TypeInv, TypeOK, Request
<1> QED
  BY <1>1, OverlayType DEF Flushed

LEMMA RowType ==
  ASSUME TypeInv, NEW w \in Workers, NEW r \in Records
  PROVE  /\ Row(w, r) \in Record
         /\ \E row \in Record :
              /\ row = IF request[w].seen = None THEN rec[r] ELSE request[w].seen[r]
              /\ Row(w, r) = Overlay(row, request[w].pend[r])
<1> DEFINE row == IF request[w].seen = None THEN rec[r] ELSE request[w].seen[r]
<1>1. /\ request[w].pend \in [Records -> Pending] /\ rec \in [Records -> Record]
      /\ request[w].seen \in [Records -> Record] \cup {None}
  BY DEF TypeInv, TypeOK, Request
<1>2. row \in Record /\ request[w].pend[r] \in Pending
  BY <1>1
<1>3. Row(w, r) = Overlay(row, request[w].pend[r])
  BY DEF Row
<1> HIDE DEF row
<1>4. Row(w, r) \in Record
  BY <1>2, <1>3, OverlayType
<1> QED
  BY <1>2, <1>3, <1>4 DEF row

LEMMA ItemType ==
  ASSUME TypeInv, NEW w \in Workers, request[w].todo # <<>>
  PROVE  /\ Item(w) \in BatchItem /\ Tail(request[w].todo) \in Seq(BatchItem)
         /\ Item(w).data \in Data /\ Item(w).item \in ItemIds \cup {None}
         /\ Item(w).id \in Records \cup {None}
         /\ Item(w).asserts \in Seq(AssertEntry) /\ Item(w).presets \in Seq(PresetEntry)
         /\ [data |-> Item(w).data, item |-> Item(w).item] \in Section
<1>1. request[w].todo \in Seq(BatchItem)
  BY DEF TypeInv, TypeOK, Request
<1>2. Item(w) \in BatchItem /\ Tail(request[w].todo) \in Seq(BatchItem)
  BY <1>1, HeadTail DEF Item
<1> HIDE DEF Item
<1> QED
  BY <1>2 DEF BatchItem, Section

LEMMA NextItemType ==
  ASSUME NEW s \in Request, SaneSession(s), s.todo # <<>>
  PROVE  /\ NextItem(s) \in Request /\ SaneSession(NextItem(s))
         /\ NextItem(s).stage = "item" /\ NextItem(s).pend = s.pend
         /\ NextItem(s).seen = s.seen /\ NextItem(s).canon = None
         /\ NextItem(s).row = None /\ ~NextItem(s).contributed /\ ~NextItem(s).applied
<1>1. Tail(s.todo) \in Seq(BatchItem)
  BY HeadTail DEF Request
<1>2. <<>> \in Seq(AssertEntry) /\ <<>> \in Seq(PresetEntry)
  OBVIOUS
<1>3. NextItem(s) \in Request
  BY <1>1, <1>2 DEF NextItem, Request
<1>4. /\ NextItem(s).stage = "item" /\ NextItem(s).pend = s.pend
      /\ NextItem(s).seen = s.seen /\ NextItem(s).canon = None
      /\ NextItem(s).row = None /\ ~NextItem(s).contributed /\ ~NextItem(s).applied
  BY DEF NextItem, Request
<1>5. SaneSession(NextItem(s))
  BY <1>4 DEF SaneSession, Sane
<1> QED
  BY <1>3, <1>4, <1>5

LEMMA OpenedRecord ==
  ASSUME NEW s \in Request, NEW r \in Records, NEW canon \in Canonical, NEW changed \in BOOLEAN,
         NEW asserts \in Seq(AssertEntry), NEW entries \in Seq(PresetEntry), NEW t,
         t = [s EXCEPT !.stage = "assert", !.row = r, !.changed = changed, !.canon = canon,
                       !.base = canon, !.asserts = asserts, !.presets = entries]
  PROVE  t \in Request
BY DEF Request

\* t comes after s in the same batch.
Onward(s, t) ==
  /\ t.batch = s.batch /\ t.can = s.can /\ t.quiet = s.quiet /\ t.again = s.again

\* s is about to open the next item of w, and t has opened it on r.
Opening(w, s) ==
  /\ s \in Request /\ SaneSession(s) /\ ~s.contributed
  /\ s.todo = request[w].todo /\ s.todo # <<>>

OpenedOn(w, r, s, canon, t) ==
  /\ t \in Request /\ SaneSession(t) /\ Onward(s, t)
  /\ t.pend = s.pend /\ t.seen = s.seen /\ t.row = r /\ t.canon = canon
  /\ t.stage = "assert" /\ ~t.contributed
  /\ t.applied = s.applied /\ t.index = s.index /\ t.todo = s.todo /\ t.known = s.known
  /\ t.asserts = (IF s.can THEN Item(w).asserts ELSE <<>>)
  /\ t.presets = (IF s.can THEN Item(w).presets ELSE <<>>)

LEMMA OpenedType ==
  ASSUME TypeInv, NEW w \in Workers, NEW s, Opening(w, s),
         NEW r \in Records, NEW canon \in Canonical, NEW changed \in BOOLEAN,
         NEW t, t = Opened(w, r, s, canon, changed)
  PROVE  OpenedOn(w, r, s, canon, t)
<1> USE DEF Opening
<1> DEFINE asserts == IF s.can THEN Item(w).asserts ELSE <<>>
           entries == IF s.can THEN Item(w).presets ELSE <<>>
<1>1. Item(w).asserts \in Seq(AssertEntry) /\ Item(w).presets \in Seq(PresetEntry)
  BY ItemType
<1>2. asserts \in Seq(AssertEntry) /\ entries \in Seq(PresetEntry)
  BY <1>1
<1>3. t = [s EXCEPT !.stage = "assert", !.row = r, !.changed = changed, !.canon = canon,
                    !.base = canon, !.asserts = asserts, !.presets = entries]
  BY DEF Opened
<1> HIDE DEF asserts, entries
<1>5. /\ t \in Request
      /\ t.pend = s.pend /\ t.seen = s.seen /\ t.row = r /\ t.canon = canon /\ t.base = canon
      /\ t.stage = "assert" /\ t.contributed = s.contributed /\ t.can = s.can
      /\ t.batch = s.batch /\ t.todo = s.todo
      /\ t.applied = s.applied /\ t.index = s.index
      /\ t.quiet = s.quiet /\ t.known = s.known /\ t.again = s.again
      /\ t.asserts = asserts /\ t.presets = entries
  <2>1. t \in Request
    BY ONLY <1>2, <1>3, OpenedRecord, s \in Request, r \in Records, canon \in Canonical,
       changed \in BOOLEAN
  <2>2. /\ t.pend = s.pend /\ t.seen = s.seen /\ t.row = r /\ t.canon = canon /\ t.base = canon
        /\ t.stage = "assert" /\ t.contributed = s.contributed /\ t.can = s.can
        /\ t.batch = s.batch /\ t.todo = s.todo
    BY <1>3 DEF Request
  <2>3. /\ t.applied = s.applied /\ t.index = s.index
        /\ t.quiet = s.quiet /\ t.known = s.known /\ t.again = s.again
        /\ t.asserts = asserts /\ t.presets = entries
    BY <1>3 DEF Request
  <2> QED
    BY <2>1, <2>2, <2>3
<1>6. SaneSession(t)
  BY <1>5 DEF SaneSession, Sane
<1> QED
  BY <1>5, <1>6 DEF asserts, entries, OpenedOn, Onward

\* The session after a commit of w: what it had loaded is expired.
LEMMA ExpiredType ==
  ASSUME NEW s \in Request, SaneSession(s), s.stage # "upload"
  PROVE  LET t == [s EXCEPT !.seen = None] IN
         /\ t \in Request /\ SaneSession(t) /\ t.seen = None
         /\ t.pend = s.pend /\ t.row = s.row /\ t.canon = s.canon /\ t.stage = s.stage
         /\ t.contributed = s.contributed /\ t.can = s.can /\ t.batch = s.batch
         /\ t.asserts = s.asserts /\ t.presets = s.presets /\ t.applied = s.applied
         /\ t.index = s.index /\ t.todo = s.todo /\ t.quiet = s.quiet
         /\ t.known = s.known /\ t.again = s.again /\ t.base = s.base
<1> DEFINE t == [s EXCEPT !.seen = None]
<1>1. /\ t \in Request /\ t.seen = None
      /\ t.pend = s.pend /\ t.row = s.row /\ t.canon = s.canon /\ t.stage = s.stage
      /\ t.contributed = s.contributed /\ t.can = s.can /\ t.batch = s.batch
      /\ t.asserts = s.asserts /\ t.presets = s.presets /\ t.applied = s.applied
      /\ t.index = s.index /\ t.todo = s.todo /\ t.quiet = s.quiet
      /\ t.known = s.known /\ t.again = s.again /\ t.base = s.base
  BY DEF Request
<1>2. SaneSession(t)
  BY <1>1 DEF SaneSession, Sane
<1> QED
  BY <1>1, <1>2 DEF t

\* A session from which everything pending has been flushed.
LEMMA FlushedSession ==
  ASSUME NEW s \in Request, SaneSession(s)
  PROVE  LET t == [s EXCEPT !.pend = [q \in Records |-> Clean]] IN
         /\ t \in Request /\ SaneSession(t) /\ t.pend = NothingPending
         /\ t.seen = s.seen /\ t.row = s.row /\ t.canon = s.canon /\ t.stage = s.stage
         /\ t.contributed = s.contributed /\ t.can = s.can /\ t.batch = s.batch
         /\ t.asserts = s.asserts /\ t.presets = s.presets /\ t.applied = s.applied
         /\ t.index = s.index /\ t.todo = s.todo /\ t.quiet = s.quiet
         /\ t.known = s.known /\ t.again = s.again /\ t.base = s.base
<1> DEFINE t == [s EXCEPT !.pend = NothingPending]
<1>1. NothingPending \in [Records -> Pending] /\ \A q \in Records : NothingPending[q] = Clean
  BY CleanType DEF NothingPending
<1> HIDE DEF NothingPending
<1>2. /\ t \in Request /\ t.pend = NothingPending
      /\ t.seen = s.seen /\ t.row = s.row /\ t.canon = s.canon /\ t.stage = s.stage
      /\ t.contributed = s.contributed /\ t.can = s.can /\ t.batch = s.batch
      /\ t.asserts = s.asserts /\ t.presets = s.presets /\ t.applied = s.applied
      /\ t.index = s.index /\ t.todo = s.todo /\ t.quiet = s.quiet
      /\ t.known = s.known /\ t.again = s.again /\ t.base = s.base
  BY <1>1 DEF Request
<1>3. SaneSession(t)
  BY <1>1, <1>2, CleanType DEF SaneSession, Sane
<1> QED
  BY <1>2, <1>3 DEF t, NothingPending

-----------------------------------------------------------------------------
(* What each step does to the session that takes it, and to the rows. *)

LEMMA SessionType ==
  ASSUME TypeInv, NEW w \in Workers
  PROVE  /\ request[w] \in Request /\ SaneSession(request[w])
         /\ request \in [Workers -> Request]
BY DEF TypeInv, TypeOK

\* t is at the next item, with what s had assigned or loaded.
Skipped(s, t) ==
  /\ SaneSession(t) /\ Onward(s, t)
  /\ t.stage = "item" /\ t.canon = None /\ t.row = None /\ ~t.contributed /\ ~t.applied
  /\ t.index = s.index /\ t.known = s.known /\ t.todo = Tail(s.todo)
  /\ t.asserts = <<>> /\ t.presets = <<>>

LEMMA Skips ==
  ASSUME TypeInv, NEW s \in Request, SaneSession(s), s.todo # <<>>
  PROVE  /\ NextItem(s) \in Request /\ Skipped(s, NextItem(s))
         /\ NextItem(s).pend = s.pend /\ NextItem(s).seen = s.seen
<1>1. /\ Onward(s, NextItem(s))
      /\ NextItem(s).index = s.index /\ NextItem(s).known = s.known
      /\ NextItem(s).todo = Tail(s.todo)
      /\ NextItem(s).asserts = <<>> /\ NextItem(s).presets = <<>>
  BY DEF NextItem, Onward, Request
<1> QED
  BY <1>1, NextItemType DEF Skipped

LEMMA SkipItemEffect ==
  ASSUME TypeInv, NEW w \in Workers, SkipItem(w)
  PROVE  \E t \in Request :
           /\ request' = [request EXCEPT ![w] = t] /\ Skipped(request[w], t)
           /\ t.pend = request[w].pend /\ t.seen = request[w].seen
<1>1. request[w].todo # <<>> /\ request' = [request EXCEPT ![w] = NextItem(request[w])]
  BY DEF SkipItem, Continue
<1> QED
  BY <1>1, Skips, SessionType

Created(w, r, section, t) ==
  LET s == request[w]
      i == Item(w) IN
  /\ request' = [request EXCEPT ![w] = t] /\ SaneSession(t) /\ Onward(s, t)
  /\ s.stage = "item" /\ s.can /\ s.todo # <<>> /\ CanFlush(w)
  /\ GuardsPass(i) /\ MayCreate(w, i)
  /\ section = [data |-> i.data, item |-> i.item]
  /\ rec[r] = Unborn
  /\ rec' = [Flushed(w) EXCEPT ![r] = New(section)]
  /\ torn' = torn \cup Overwritten(w)
  /\ t.stage = "assert" /\ t.pend = NothingPending /\ t.seen = None
  /\ t.row = r /\ t.canon = Blank /\ ~t.contributed
  /\ t.applied = s.applied /\ t.todo = s.todo
  /\ t.known = s.known \cup {r}
  /\ t.index = [s.index EXCEPT ![i.item] = @ \cup {r}]
  /\ t.asserts = i.asserts /\ t.presets = i.presets

LEMMA CreateItemEffect ==
  ASSUME TypeInv, NEW w \in Workers, CreateItem(w)
  PROVE  \E r \in Records, t \in Request, section \in Section : Created(w, r, section, t)
<1> DEFINE s == request[w]
           i == Item(w)
           clean == [s EXCEPT !.pend = [q \in Records |-> Clean]]
<1>1. PICK r \in Records :
        /\ rec[r] = Unborn
        /\ Commit(w, [Flushed(w) EXCEPT ![r] = New([data |-> i.data, item |-> i.item])],
                  Opened(w, r, Indexed(clean, r, i.item), Blank, TRUE))
  BY DEF CreateItem
<1>2. /\ s.stage = "item" /\ s.todo # <<>> /\ GuardsPass(i) /\ MayCreate(w, i)
  BY DEF CreateItem, At
<1>3. s \in Request /\ SaneSession(s) /\ s.can /\ i.item \in ItemIds
  BY <1>2, SessionType, ItemType DEF MayCreate
<1>4. ~s.contributed
  BY <1>2, <1>3 DEF SaneSession, Sane
<1> DEFINE new == Indexed(clean, r, i.item)
           opened == Opened(w, r, new, Blank, TRUE)
           t == [opened EXCEPT !.seen = None]
<1> HIDE DEF s, i
<1>5. /\ clean \in Request /\ SaneSession(clean) /\ clean.pend = NothingPending
      /\ clean.row = s.row /\ clean.stage = s.stage /\ clean.contributed = s.contributed
      /\ clean.todo = s.todo /\ clean.index = s.index /\ clean.known = s.known
      /\ clean.applied = s.applied /\ Onward(s, clean)
  BY <1>3, FlushedSession DEF Onward
<1> HIDE DEF clean
<1>6. /\ new \in Request /\ new.pend = NothingPending
      /\ new.row = s.row /\ new.stage = "item" /\ ~new.contributed
      /\ new.todo = s.todo /\ new.known = s.known \cup {r}
      /\ new.index = [s.index EXCEPT ![i.item] = @ \cup {r}]
      /\ new.applied = s.applied /\ Onward(s, new)
  BY <1>2, <1>3, <1>4, <1>5 DEF Indexed, Request, Onward
<1>7. SaneSession(new)
  BY <1>5, <1>6 DEF SaneSession, Sane
<1> HIDE DEF new
<1>8. /\ opened \in Request /\ SaneSession(opened) /\ opened.pend = NothingPending
      /\ opened.row = r /\ opened.canon = Blank /\ opened.stage = "assert"
      /\ ~opened.contributed /\ opened.applied = s.applied /\ opened.todo = s.todo
      /\ opened.known = s.known \cup {r} /\ Onward(s, opened)
      /\ opened.index = [s.index EXCEPT ![i.item] = @ \cup {r}]
      /\ opened.asserts = i.asserts /\ opened.presets = i.presets
  <2> DEFINE flag == TRUE
  <2>1. opened = Opened(w, r, new, Blank, flag) /\ flag \in BOOLEAN
    BY DEF opened
  <2> HIDE DEF opened, flag
  <2>2. Opening(w, new) /\ new.can
    BY <1>2, <1>3, <1>6, <1>7 DEF s, Onward, Opening
  <2>3. OpenedOn(w, r, new, Blank, opened)
    BY <2>1, <2>2, BlankType, OpenedType
  <2> QED
    BY <1>6, <2>2, <2>3 DEF i, Onward, OpenedOn
<1> HIDE DEF opened
<1>9. /\ t \in Request /\ SaneSession(t) /\ t.pend = NothingPending /\ t.seen = None
      /\ t.row = r /\ t.canon = Blank /\ t.stage = "assert"
      /\ ~t.contributed /\ t.applied = s.applied /\ t.todo = s.todo
      /\ t.known = s.known \cup {r} /\ Onward(s, t)
      /\ t.index = [s.index EXCEPT ![i.item] = @ \cup {r}]
      /\ t.asserts = i.asserts /\ t.presets = i.presets
  BY <1>8, ExpiredType DEF Onward
<1>10. /\ CanFlush(w) /\ torn' = torn \cup Overwritten(w)
       /\ rec' = [Flushed(w) EXCEPT ![r] = New([data |-> i.data, item |-> i.item])]
       /\ request' = [request EXCEPT ![w] = t]
  BY <1>1 DEF Commit, t, opened, new, clean, s, i
<1>11. [data |-> i.data, item |-> i.item] \in Section
  BY <1>2, ItemType DEF i, s
<1> HIDE DEF t
<1>12. Created(w, r, [data |-> i.data, item |-> i.item], t)
  BY <1>1, <1>2, <1>3, <1>9, <1>10, <1>11 DEF s, i, Created
<1> QED
  BY <1>9, <1>11, <1>12

Wrote(w, r, section, t) ==
  LET s == request[w]
      i == Item(w) IN
  /\ request' = [request EXCEPT ![w] = t] /\ SaneSession(t) /\ Onward(s, t)
  /\ s.stage = "item" /\ s.todo # <<>> /\ GuardsPass(i)
  /\ Targets(w, i) = {r} /\ Reachable(w, r)
  /\ section = [data |-> i.data, item |-> i.item]
  /\ t.stage = "assert" /\ t.row = r /\ ~t.contributed
  /\ t.applied = s.applied /\ t.todo = s.todo
  /\ t.known = s.known /\ t.index = s.index
  /\ t.asserts = (IF s.can THEN i.asserts ELSE <<>>)
  /\ t.presets = (IF s.can THEN i.presets ELSE <<>>)
  /\ \/ /\ CanFlush(w) /\ Live(r)
        /\ rec' = [Flushed(w) EXCEPT ![r].section = section]
        /\ torn' = torn \cup Overwritten(w)
        /\ t.pend = NothingPending /\ t.seen = None
        /\ t.canon = Flushed(w)[r].canon
     \/ /\ UNCHANGED <<rec, torn>>
        /\ Row(w, r).section.data = i.data
        /\ t.seen = s.seen /\ t.canon = Row(w, r).canon
        /\ \/ t.pend = s.pend /\ Row(w, r).section = section
           \/ t.pend = [s.pend EXCEPT ![r].section = section]

LEMMA WriteSectionEffect ==
  ASSUME TypeInv, NEW w \in Workers, WriteSection(w)
  PROVE  \E r \in Records, t \in Request, section \in Section : Wrote(w, r, section, t)
<1> DEFINE s == request[w]
           i == Item(w)
           section == [data |-> i.data, item |-> i.item]
           clean == [s EXCEPT !.pend = [q \in Records |-> Clean]]
<1>1. PICK r \in Targets(w, i) :
       /\ Targets(w, i) = {r} /\ Reachable(w, r)
       /\ \/ /\ Row(w, r).section.data # i.data /\ Live(r)
             /\ LET rows == [Flushed(w) EXCEPT ![r].section = section] IN
                Commit(w, rows, Opened(w, r, clean, rows[r].canon, TRUE))
          \/ /\ Row(w, r).section.data = i.data
             /\ Continue(w, Opened(w, r,
                  IF Row(w, r).section = section THEN request[w]
                  ELSE [request[w] EXCEPT !.pend[r].section = section],
                  Row(w, r).canon, FALSE))
             /\ UNCHANGED <<rec, torn>>
  BY DEF WriteSection
<1>2. s.stage = "item" /\ s.todo # <<>> /\ GuardsPass(i)
  BY DEF WriteSection, At
<1>3. /\ s \in Request /\ SaneSession(s) /\ section \in Section
      /\ i.item \in ItemIds \cup {None} /\ i.id \in Records \cup {None}
  BY <1>2, SessionType, ItemType
<1>4. ~s.contributed
  BY <1>2, <1>3 DEF SaneSession, Sane
<1>5. r \in Records
  BY <1>3 DEF Targets, Request
<1>6. Row(w, r) \in Record /\ Flushed(w) \in [Records -> Record]
  BY <1>5, RowType, FlushedType
<1> HIDE DEF s, i, section
<1>7. CASE /\ Row(w, r).section.data # i.data /\ Live(r)
           /\ LET rows == [Flushed(w) EXCEPT ![r].section = section] IN
              Commit(w, rows, Opened(w, r, clean, rows[r].canon, TRUE))
  <2> DEFINE rows == [Flushed(w) EXCEPT ![r].section = section]
             opened == Opened(w, r, clean, rows[r].canon, TRUE)
             t == [opened EXCEPT !.seen = None]
  <2>1. rows[r].canon = Flushed(w)[r].canon /\ rows[r].canon \in Canonical
    BY <1>5, <1>6 DEF Record
  <2>2. /\ clean \in Request /\ SaneSession(clean) /\ clean.pend = NothingPending
        /\ clean.contributed = s.contributed /\ clean.can = s.can
        /\ clean.todo = s.todo /\ clean.index = s.index /\ clean.known = s.known
        /\ clean.applied = s.applied /\ Onward(s, clean)
    BY <1>3, FlushedSession DEF Onward
  <2>3. /\ CanFlush(w) /\ torn' = torn \cup Overwritten(w) /\ rec' = rows
        /\ request' = [request EXCEPT ![w] = t]
    BY <1>7 DEF Commit, t, opened, rows, clean
  <2> HIDE DEF clean, rows
  <2>4. /\ opened \in Request /\ SaneSession(opened) /\ opened.pend = NothingPending
        /\ opened.row = r /\ opened.canon = Flushed(w)[r].canon /\ opened.stage = "assert"
        /\ ~opened.contributed /\ opened.applied = s.applied /\ opened.todo = s.todo
        /\ opened.known = s.known /\ opened.index = s.index /\ Onward(s, opened)
        /\ opened.asserts = (IF s.can THEN i.asserts ELSE <<>>)
        /\ opened.presets = (IF s.can THEN i.presets ELSE <<>>)
    <3> DEFINE flag == TRUE
    <3>1. opened = Opened(w, r, clean, rows[r].canon, flag) /\ flag \in BOOLEAN
      BY DEF opened
    <3> HIDE DEF opened, flag
    <3>2. Opening(w, clean)
      BY <1>2, <1>4, <2>2 DEF s, Opening
    <3>3. OpenedOn(w, r, clean, rows[r].canon, opened)
      BY <1>5, <2>1, <3>1, <3>2, OpenedType
    <3> QED
      BY <2>1, <2>2, <3>3 DEF i, Onward, OpenedOn
  <2> HIDE DEF opened
  <2>5. /\ t \in Request /\ SaneSession(t) /\ t.pend = NothingPending /\ t.seen = None
        /\ t.row = r /\ t.canon = Flushed(w)[r].canon /\ t.stage = "assert"
        /\ ~t.contributed /\ t.applied = s.applied /\ t.todo = s.todo
        /\ t.known = s.known /\ t.index = s.index /\ Onward(s, t)
        /\ t.asserts = (IF s.can THEN i.asserts ELSE <<>>)
        /\ t.presets = (IF s.can THEN i.presets ELSE <<>>)
    BY <2>4, ExpiredType DEF Onward
  <2> HIDE DEF t
  <2>6. Wrote(w, r, section, t)
    BY <1>1, <1>2, <1>7, <2>3, <2>5 DEF s, i, section, rows, Wrote
  <2> QED
    BY <1>3, <1>5, <2>5, <2>6
<1>8. CASE /\ Row(w, r).section.data = i.data
           /\ Continue(w, Opened(w, r,
                IF Row(w, r).section = section THEN request[w]
                ELSE [request[w] EXCEPT !.pend[r].section = section],
                Row(w, r).canon, FALSE))
           /\ UNCHANGED <<rec, torn>>
  <2> DEFINE more == IF Row(w, r).section = section THEN s
                     ELSE [s EXCEPT !.pend[r].section = section]
             t == Opened(w, r, more, Row(w, r).canon, FALSE)
  <2>1. Row(w, r).canon \in Canonical
    BY <1>6 DEF Record
  <2>2. /\ more \in Request /\ more.contributed = s.contributed /\ more.can = s.can
        /\ more.todo = s.todo /\ more.index = s.index /\ more.known = s.known
        /\ more.applied = s.applied /\ more.seen = s.seen /\ more.stage = s.stage
        /\ \/ more.pend = s.pend /\ Row(w, r).section = section
           \/ more.pend = [s.pend EXCEPT ![r].section = section]
        /\ Onward(s, more)
    <3>1. CASE Row(w, r).section = section
      BY <1>3, <3>1 DEF Onward
    <3>2. CASE Row(w, r).section # section
      <4>1. s.pend \in [Records -> Pending]
        BY <1>3 DEF Request
      <4>2. [s.pend EXCEPT ![r].section = section] \in [Records -> Pending]
        BY <1>3, <1>5, <4>1 DEF Pending
      <4>3. more = [s EXCEPT !.pend = [s.pend EXCEPT ![r].section = section]]
        BY <1>3, <3>2 DEF Request
      <4> HIDE DEF more
      <4> QED
        BY <1>3, <4>2, <4>3 DEF Request, Onward
    <3> QED
      BY <3>1, <3>2
  <2>3. SaneSession(more)
    <3>1. Sane(more)
      BY <1>2, <1>4, <2>2 DEF Sane
    <3>2. ASSUME NEW q \in Records PROVE Waiting(more.pend[q])
      <4>1. s.pend \in [Records -> Pending] /\ Waiting(s.pend[q])
        BY <1>3 DEF Request, SaneSession
      <4>2. /\ more.pend[q].canon = s.pend[q].canon /\ more.pend[q].base = s.pend[q].base
            /\ more.pend[q].version = s.pend[q].version
        BY <1>5, <2>2, <4>1 DEF Pending
      <4> QED
        BY <4>1, <4>2 DEF Waiting
    <3> QED
      BY <3>1, <3>2 DEF SaneSession
  <2>4. request' = [request EXCEPT ![w] = t]
    BY <1>8 DEF Continue, t, more, s
  <2> HIDE DEF more
  <2>5. /\ t \in Request /\ SaneSession(t) /\ t.pend = more.pend /\ t.seen = s.seen
        /\ t.row = r /\ t.canon = Row(w, r).canon /\ t.stage = "assert"
        /\ ~t.contributed /\ t.applied = s.applied /\ t.todo = s.todo
        /\ t.known = s.known /\ t.index = s.index /\ Onward(s, t)
        /\ t.asserts = (IF s.can THEN i.asserts ELSE <<>>)
        /\ t.presets = (IF s.can THEN i.presets ELSE <<>>)
    <3> DEFINE flag == FALSE
    <3>1. t = Opened(w, r, more, Row(w, r).canon, flag) /\ flag \in BOOLEAN
      BY DEF t
    <3> HIDE DEF t, flag
    <3>2. Opening(w, more)
      BY <1>2, <1>4, <2>2, <2>3 DEF s, Opening
    <3>3. OpenedOn(w, r, more, Row(w, r).canon, t)
      BY <1>5, <2>1, <3>1, <3>2, OpenedType
    <3> QED
      BY <2>2, <3>3 DEF i, Onward, OpenedOn
  <2> HIDE DEF t
  <2>6. \/ t.pend = s.pend /\ Row(w, r).section = section
        \/ t.pend = [s.pend EXCEPT ![r].section = section]
    BY <2>2, <2>5
  <2>7. Row(w, r).section.data = i.data /\ UNCHANGED <<rec, torn>>
    BY <1>8
  <2>8. Wrote(w, r, section, t)
    BY <1>1, <1>2, <2>4, <2>5, <2>6, <2>7 DEF s, i, section, Wrote
  <2> QED
    BY <1>3, <1>5, <2>5, <2>8
<1> QED
  BY <1>1, <1>7, <1>8

\* What s and t agree on while an item is worked at.
SameItem(s, t) ==
  /\ Onward(s, t) /\ t.row = s.row /\ t.todo = s.todo
  /\ t.known = s.known /\ t.index = s.index

\* The three outcomes of an assert.
Refused(w, t) ==
  /\ request[w].asserts # <<>> /\ Head(request[w].asserts).path \in Unknown
  /\ Skipped(request[w], t)
  /\ t.pend = request[w].pend /\ t.seen = request[w].seen
  /\ UNCHANGED <<rec, torn, audit>>

Repeated(w, t) ==
  LET s == request[w]
      e == Head(s.asserts) IN
  /\ s.asserts # <<>> /\ e.path \in Paths /\ e.value \in Values /\ SameValue(s, e)
  /\ SameItem(s, t) /\ t.stage = "assert"
  /\ t.asserts = Tail(s.asserts) /\ t.presets = s.presets
  /\ t.pend = s.pend /\ t.seen = s.seen /\ t.canon = s.canon /\ t.base = s.base
  /\ t.applied = s.applied
  /\ UNCHANGED <<rec, torn, audit>>

Asserted(w, t) ==
  LET s == request[w]
      e == Head(s.asserts) IN
  /\ s.asserts # <<>> /\ e.path \in Paths /\ e.value \in Values /\ Live(s.row)
  /\ SameItem(s, t) /\ t.stage = "assert"
  /\ t.asserts = Tail(s.asserts) /\ t.presets = s.presets
  /\ \A q \in Records : /\ t.pend[q].canon = None /\ t.pend[q].section = None
                        /\ t.pend[q].version = None
  /\ t.seen = None /\ t.base = s.base /\ t.applied
  /\ t.canon \in Canonical /\ t.canon.media = s.canon.media
  /\ \A p \in Paths : t.canon.leaf[p] = IF p = e.path THEN e.value ELSE s.canon.leaf[p]
  /\ CanFlush(w) /\ rec' = Flushed(w) /\ torn' = torn \cup Overwritten(w)
  /\ audit' = audit \cup {<<s.row, e.path, e.value>>}

LEMMA AssertEntryType ==
  ASSUME NEW s \in Request, s.asserts # <<>>
  PROVE  /\ Head(s.asserts).path \in Paths \cup Derived \cup Unknown
         /\ Head(s.asserts).value \in Values
         /\ Head(s.asserts) \in AssertEntry /\ Tail(s.asserts) \in Seq(AssertEntry)
<1>1. s.asserts \in Seq(AssertEntry)
  BY DEF Request
<1>2. Head(s.asserts) \in AssertEntry /\ Tail(s.asserts) \in Seq(AssertEntry)
  BY <1>1, HeadTail
<1> QED
  BY <1>2 DEF AssertEntry

LEMMA AssertsRecord ==
  ASSUME NEW s \in Request, NEW asserts \in Seq(AssertEntry), NEW t,
         t = [s EXCEPT !.asserts = asserts]
  PROVE  t \in Request
BY DEF Request

LEMMA AssertedRecord ==
  ASSUME NEW s \in Request, NEW asserts \in Seq(AssertEntry), NEW canon \in Canonical,
         NEW pend \in [Records -> Pending], NEW t,
         t = [s EXCEPT !.asserts = asserts, !.applied = TRUE, !.canon = canon, !.pend = pend,
                       !.seen = None]
  PROVE  t \in Request
BY DEF Request

LEMMA AssertOneEffect ==
  ASSUME TypeInv, NEW w \in Workers, AssertOne(w)
  PROVE  /\ request[w].stage = "assert"
         /\ \E t \in Request :
              /\ request' = [request EXCEPT ![w] = t] /\ SaneSession(t)
              /\ Refused(w, t) \/ Repeated(w, t) \/ Asserted(w, t)
<1> DEFINE s == request[w]
           e == Head(s.asserts)
<1>1. /\ s.stage = "assert" /\ s.asserts # <<>>
      /\ \/ /\ e.path \in Unknown
            /\ Continue(w, NextItem(s))
            /\ UNCHANGED <<rec, torn, audit>>
         \/ /\ e.path \in Paths /\ SameValue(s, e)
            /\ Continue(w, [s EXCEPT !.asserts = Tail(@)])
            /\ UNCHANGED <<rec, torn, audit>>
         \/ /\ e.path \in Paths /\ ~SameValue(s, e) /\ Live(s.row)
            /\ Commit(w, Flushed(w),
                 [s EXCEPT !.asserts = Tail(@), !.applied = TRUE,
                           !.canon.leaf[e.path] = e.value,
                           !.pend = [q \in Records |->
                             IF q = s.row /\ e.path = LinkPath
                             THEN [Clean EXCEPT !.link = e.value] ELSE Clean]])
            /\ audit' = audit \cup {<<s.row, e.path, e.value>>}
  BY DEF AssertOne, At
<1>2. s \in Request /\ SaneSession(s)
  BY SessionType
<1>3. /\ s.row \in Records /\ s.todo # <<>> /\ ~s.contributed
      /\ s.canon \in Canonical /\ s.base \in Canonical /\ s.canon.union = s.base.union
  BY <1>1, <1>2 DEF SaneSession, Sane
<1>4. e.value \in Values /\ Tail(s.asserts) \in Seq(AssertEntry)
  BY <1>1, <1>2, AssertEntryType
<1> HIDE DEF s, e
<1>5. CASE /\ e.path \in Unknown
           /\ Continue(w, NextItem(s))
           /\ UNCHANGED <<rec, torn, audit>>
  <2>1. request' = [request EXCEPT ![w] = NextItem(s)]
    BY <1>5 DEF Continue
  <2>2. /\ NextItem(s) \in Request /\ Skipped(s, NextItem(s))
        /\ NextItem(s).pend = s.pend /\ NextItem(s).seen = s.seen
    BY <1>2, <1>3, Skips
  <2>3. Refused(w, NextItem(s)) /\ SaneSession(NextItem(s))
    BY <1>1, <1>5, <2>2 DEF Refused, s, e, Skipped
  <2> QED
    BY <1>1, <2>1, <2>2, <2>3 DEF s
<1>6. CASE /\ e.path \in Paths /\ SameValue(s, e)
           /\ Continue(w, [s EXCEPT !.asserts = Tail(@)])
           /\ UNCHANGED <<rec, torn, audit>>
  <2> DEFINE t == [s EXCEPT !.asserts = Tail(s.asserts)]
  <2>1. request' = [request EXCEPT ![w] = t]
    BY <1>6 DEF Continue
  <2>2. t \in Request
    BY <1>2, <1>4, AssertsRecord
  <2>3. /\ SameItem(s, t) /\ t.stage = "assert"
        /\ t.asserts = Tail(s.asserts) /\ t.presets = s.presets
        /\ t.pend = s.pend /\ t.seen = s.seen /\ t.canon = s.canon /\ t.base = s.base
        /\ t.applied = s.applied /\ t.contributed = s.contributed
    BY <1>1, <1>2 DEF Request, SameItem, Onward
  <2> HIDE DEF t
  <2>4. SaneSession(t)
    BY <1>2, <1>3, <2>3 DEF SaneSession, Sane, SameItem
  <2>5. Repeated(w, t)
    BY <1>1, <1>4, <1>6, <2>3 DEF Repeated, s, e
  <2> QED
    BY <1>1, <2>1, <2>2, <2>4, <2>5 DEF s
<1>7. CASE /\ e.path \in Paths /\ ~SameValue(s, e) /\ Live(s.row)
           /\ Commit(w, Flushed(w),
                 [s EXCEPT !.asserts = Tail(@), !.applied = TRUE,
                           !.canon.leaf[e.path] = e.value,
                           !.pend = [q \in Records |->
                             IF q = s.row /\ e.path = LinkPath
                             THEN [Clean EXCEPT !.link = e.value] ELSE Clean]])
           /\ audit' = audit \cup {<<s.row, e.path, e.value>>}
  <2> DEFINE canon == [s.canon EXCEPT !.leaf[e.path] = e.value]
             pend == [q \in Records |-> IF q = s.row /\ e.path = LinkPath
                                        THEN [Clean EXCEPT !.link = e.value] ELSE Clean]
             t == [s EXCEPT !.asserts = Tail(s.asserts), !.applied = TRUE, !.canon = canon,
                            !.pend = pend, !.seen = None]
  <2>1. /\ canon \in Canonical /\ canon.media = s.canon.media
        /\ canon.union = s.canon.union
        /\ \A p \in Paths : canon.leaf[p] = IF p = e.path THEN e.value ELSE s.canon.leaf[p]
    BY <1>3, <1>4, <1>7 DEF Canonical
  <2>2. /\ pend \in [Records -> Pending]
        /\ \A q \in Records : /\ pend[q].canon = None /\ pend[q].section = None
                              /\ pend[q].version = None
    <3>1. [Clean EXCEPT !.link = e.value] \in Pending
      BY <1>4 DEF Clean, Pending
    <3> QED
      BY <3>1, CleanType DEF Clean
  <2>3. [s EXCEPT !.asserts = Tail(@), !.applied = TRUE, !.canon.leaf[e.path] = e.value,
                  !.pend = pend, !.seen = None] = t
    BY <1>2 DEF Request
  <2>4. /\ CanFlush(w) /\ rec' = Flushed(w) /\ torn' = torn \cup Overwritten(w)
        /\ request' = [request EXCEPT ![w] = t]
    BY <1>7, <2>3 DEF Commit
  <2> HIDE DEF canon, pend
  <2>5. t \in Request
    BY <1>2, <1>4, <2>1, <2>2, AssertedRecord
  <2>6. /\ SameItem(s, t) /\ t.stage = "assert"
        /\ t.asserts = Tail(s.asserts) /\ t.presets = s.presets
        /\ t.pend = pend /\ t.seen = None /\ t.canon = canon /\ t.base = s.base
        /\ t.applied /\ t.contributed = s.contributed
    BY <1>1, <1>2 DEF Request, SameItem, Onward
  <2> HIDE DEF t
  <2>7. SaneSession(t)
    <3>1. Sane(t)
      BY <1>3, <2>1, <2>6 DEF Sane, SameItem
    <3> QED
      BY <2>2, <2>6, <3>1 DEF SaneSession, Waiting
  <2>8. Asserted(w, t)
    BY <1>1, <1>4, <1>7, <2>1, <2>2, <2>4, <2>6 DEF Asserted, s, e
  <2> QED
    BY <1>1, <2>4, <2>5, <2>7, <2>8 DEF s
<1> QED
  BY <1>1, <1>5, <1>6, <1>7 DEF s, e

\* What an item leaves to be flushed when its asserts are done.
Closed(w, t) ==
  LET s == request[w]
      p == s.pend[s.row]
      q == t.pend[s.row] IN
  /\ s.stage = "assert" /\ s.asserts = <<>> /\ Reachable(w, s.row)
  /\ SameItem(s, t) /\ t.stage = "preset" /\ t.presets = s.presets
  /\ t.seen = s.seen /\ t.canon = None /\ t.applied = s.applied
  /\ t.asserts = <<>> /\ ~t.contributed
  /\ \A r \in Records \ {s.row} : t.pend[r] = s.pend[r]
  /\ q.section = p.section
  /\ q.canon = (IF s.applied THEN s.canon ELSE p.canon)
  /\ q.base = (IF s.applied THEN s.base ELSE p.base)
  /\ UNCHANGED <<rec, torn>>

LEMMA ClosedRecord ==
  ASSUME NEW s \in Request, NEW pend \in [Records -> Pending], NEW t,
         t = [s EXCEPT !.stage = "preset", !.canon = None, !.base = None, !.pend = pend]
  PROVE  t \in Request
BY DEF Request

LEMMA CloseAssertsEffect ==
  ASSUME TypeInv, NEW w \in Workers, CloseAsserts(w)
  PROVE  \E t \in Request :
           request' = [request EXCEPT ![w] = t] /\ SaneSession(t) /\ Closed(w, t)
<1> DEFINE s == request[w]
           p == s.pend[s.row]
           q == [p EXCEPT !.canon = IF s.applied THEN s.canon ELSE @,
                          !.base = IF s.applied THEN s.base ELSE @,
                          !.version = IF Bumps(s) THEN Row(w, s.row).version + 1 ELSE @]
           pend == [s.pend EXCEPT ![s.row] = q]
           t == [s EXCEPT !.stage = "preset", !.canon = None, !.base = None, !.pend = pend]
<1>1. /\ s.stage = "assert" /\ s.asserts = <<>> /\ Reachable(w, s.row)
      /\ UNCHANGED <<rec, torn>>
      /\ Continue(w, [s EXCEPT !.stage = "preset", !.canon = None, !.base = None,
                               !.pend[s.row] = q])
  BY DEF CloseAsserts, At
<1>2. s \in Request /\ SaneSession(s)
  BY SessionType
<1>3. /\ s.row \in Records /\ s.todo # <<>> /\ ~s.contributed
      /\ s.canon \in Canonical /\ s.base \in Canonical /\ s.canon.union = s.base.union
  BY <1>1, <1>2 DEF SaneSession, Sane
<1>4. /\ s.pend \in [Records -> Pending] /\ p \in Pending /\ Waiting(p)
      /\ s.applied \in BOOLEAN /\ s.changed \in BOOLEAN
  BY <1>2, <1>3 DEF Request, SaneSession
<1>5. Row(w, s.row).version + 1 \in Nat
  BY <1>3, RowType DEF Record
<1>6. [s EXCEPT !.stage = "preset", !.canon = None, !.base = None, !.pend[s.row] = q] = t
  BY <1>2 DEF Request
<1> HIDE DEF s, p
<1>7. /\ q \in Pending /\ q.section = p.section
      /\ q.canon = (IF s.applied THEN s.canon ELSE p.canon)
      /\ q.base = (IF s.applied THEN s.base ELSE p.base)
      /\ q.version = (IF Bumps(s) THEN Row(w, s.row).version + 1 ELSE p.version)
  BY <1>3, <1>4, <1>5 DEF Pending
<1>8. request' = [request EXCEPT ![w] = t]
  BY <1>1, <1>6 DEF Continue
<1> HIDE DEF q
<1>9. Waiting(q)
  <2>1. CASE s.applied
    BY <1>3, <1>5, <1>7, <2>1, NoneAssumption DEF Waiting, Bumps
  <2>2. CASE ~s.applied
    <3>1. q.version = p.version \/ q.version \in Nat
      BY <1>5, <1>7
    <3> QED
      BY <1>4, <1>7, <2>2, <3>1, NoneAssumption DEF Waiting
  <2> QED
    BY <2>1, <2>2
<1>10. /\ pend \in [Records -> Pending] /\ pend[s.row] = q
       /\ \A r \in Records \ {s.row} : pend[r] = s.pend[r]
  BY <1>3, <1>4, <1>7
<1> HIDE DEF pend
<1>11. t \in Request
  BY <1>2, <1>10, ClosedRecord
<1>12. /\ SameItem(s, t) /\ t.stage = "preset" /\ t.presets = s.presets
       /\ t.seen = s.seen /\ t.canon = None /\ t.applied = s.applied
       /\ t.pend = pend /\ t.contributed = s.contributed /\ t.asserts = <<>>
  BY <1>1, <1>2 DEF Request, SameItem, Onward
<1> HIDE DEF t
<1>13. SaneSession(t)
  <2>1. Sane(t)
    BY <1>3, <1>12 DEF Sane, SameItem
  <2>2. \A r \in Records : Waiting(t.pend[r])
    BY <1>2, <1>9, <1>10, <1>12 DEF SaneSession
  <2> QED
    BY <2>1, <2>2 DEF SaneSession
<1>14. Closed(w, t)
  BY <1>1, <1>3, <1>7, <1>10, <1>12 DEF Closed, s, p
<1> QED
  BY <1>8, <1>11, <1>13, <1>14

\* The two outcomes of a preset.
BelowFloor(w, t) ==
  LET s == request[w] IN
  /\ s.presets # <<>> /\ Head(s.presets).mark = None
  /\ SameItem(s, t) /\ t.stage = "preset"
  /\ t.presets = Tail(s.presets) /\ t.pend = s.pend /\ t.seen = s.seen
  /\ t.canon = s.canon /\ t.contributed = s.contributed
  /\ UNCHANGED <<rec, torn, presets>>

Contributed(w, t) ==
  LET s == request[w]
      e == Head(s.presets) IN
  /\ s.presets # <<>> /\ e.mark \in Marks /\ e.key \in Keys /\ Reachable(w, s.row)
  /\ SameItem(s, t) /\ t.stage = "preset"
  /\ t.presets = Tail(s.presets) /\ t.pend = NothingPending /\ t.seen = None
  /\ t.canon = s.canon /\ t.contributed
  /\ CanFlush(w) /\ rec' = Flushed(w) /\ torn' = torn \cup Overwritten(w)
  /\ presets' = [presets EXCEPT ![s.row] = ReplaceOwn(@, e)]

LEMMA PresetsRecord ==
  ASSUME NEW s \in Request, NEW entries \in Seq(PresetEntry), NEW t,
         t = [s EXCEPT !.presets = entries]
  PROVE  t \in Request
BY DEF Request

LEMMA ContributedRecord ==
  ASSUME NEW s \in Request, NEW entries \in Seq(PresetEntry),
         NEW pend \in [Records -> Pending], NEW t,
         t = [s EXCEPT !.presets = entries, !.contributed = TRUE, !.pend = pend, !.seen = None]
  PROVE  t \in Request
BY DEF Request

LEMMA ContributeEffect ==
  ASSUME TypeInv, NEW w \in Workers, Contribute(w)
  PROVE  /\ request[w].stage = "preset"
         /\ \E t \in Request :
              /\ request' = [request EXCEPT ![w] = t] /\ SaneSession(t)
              /\ BelowFloor(w, t) \/ Contributed(w, t)
<1> DEFINE s == request[w]
           e == Head(s.presets)
<1>1. /\ s.stage = "preset" /\ s.presets # <<>>
      /\ \/ /\ e.mark = None
            /\ Continue(w, [s EXCEPT !.presets = Tail(@)])
            /\ UNCHANGED <<rec, torn, presets>>
         \/ /\ e.mark # None /\ Reachable(w, s.row)
            /\ Commit(w, Flushed(w),
                 [s EXCEPT !.presets = Tail(@), !.contributed = TRUE,
                           !.pend = [q \in Records |-> Clean]])
            /\ presets' = [presets EXCEPT ![s.row] = ReplaceOwn(@, e)]
  BY DEF Contribute, At
<1>2. s \in Request /\ SaneSession(s)
  BY SessionType
<1>3. s.row \in Records /\ s.todo # <<>>
  BY <1>1, <1>2 DEF SaneSession, Sane
<1>4. e \in PresetEntry /\ Tail(s.presets) \in Seq(PresetEntry)
  <2>1. s.presets \in Seq(PresetEntry)
    BY <1>2 DEF Request
  <2> QED
    BY <1>1, <2>1, HeadTail
<1> HIDE DEF s, e
<1>5. CASE /\ e.mark = None
           /\ Continue(w, [s EXCEPT !.presets = Tail(@)])
           /\ UNCHANGED <<rec, torn, presets>>
  <2> DEFINE t == [s EXCEPT !.presets = Tail(s.presets)]
  <2>1. request' = [request EXCEPT ![w] = t]
    BY <1>5 DEF Continue
  <2>2. t \in Request
    BY <1>2, <1>4, PresetsRecord
  <2>3. /\ SameItem(s, t) /\ t.stage = "preset"
        /\ t.presets = Tail(s.presets) /\ t.pend = s.pend /\ t.seen = s.seen
        /\ t.canon = s.canon /\ t.contributed = s.contributed
    BY <1>1, <1>2 DEF Request, SameItem, Onward
  <2> HIDE DEF t
  <2>4. SaneSession(t)
    BY <1>2, <1>3, <2>3 DEF SaneSession, Sane, SameItem
  <2>5. BelowFloor(w, t)
    BY <1>1, <1>5, <2>3 DEF BelowFloor, s, e
  <2> QED
    BY <1>1, <2>1, <2>2, <2>4, <2>5 DEF s
<1>6. CASE /\ e.mark # None /\ Reachable(w, s.row)
           /\ Commit(w, Flushed(w),
                [s EXCEPT !.presets = Tail(@), !.contributed = TRUE,
                          !.pend = [q \in Records |-> Clean]])
           /\ presets' = [presets EXCEPT ![s.row] = ReplaceOwn(@, e)]
  <2> DEFINE t == [s EXCEPT !.presets = Tail(s.presets), !.contributed = TRUE,
                            !.pend = NothingPending, !.seen = None]
  <2>1. [s EXCEPT !.presets = Tail(@), !.contributed = TRUE,
                  !.pend = [q \in Records |-> Clean], !.seen = None] = t
    BY <1>2 DEF Request, NothingPending
  <2>2. /\ CanFlush(w) /\ rec' = Flushed(w) /\ torn' = torn \cup Overwritten(w)
        /\ request' = [request EXCEPT ![w] = t]
    BY <1>6, <2>1 DEF Commit
  <2>3. t \in Request
    BY <1>2, <1>4, CleanType, ContributedRecord
  <2>4. /\ SameItem(s, t) /\ t.stage = "preset"
        /\ t.presets = Tail(s.presets) /\ t.pend = NothingPending /\ t.seen = None
        /\ t.canon = s.canon /\ t.contributed
    BY <1>1, <1>2 DEF Request, SameItem, Onward
  <2> HIDE DEF t
  <2>5. SaneSession(t)
    <3>1. Sane(t)
      BY <1>3, <2>4 DEF Sane, SameItem
    <3>2. \A r \in Records : NothingPending[r] = Clean
      BY DEF NothingPending
    <3> QED
      BY <2>4, <3>1, <3>2, CleanType DEF SaneSession
  <2>6. e.mark \in Marks /\ e.key \in Keys
    BY <1>4, <1>6 DEF PresetEntry
  <2>7. Contributed(w, t)
    BY <1>1, <1>6, <2>2, <2>4, <2>6 DEF Contributed, s, e
  <2> QED
    BY <1>1, <2>2, <2>3, <2>5, <2>7 DEF s
<1> QED
  BY <1>1, <1>5, <1>6 DEF s, e

\* The two ends of an item.
Unioned(w, t) ==
  LET s == request[w] IN
  /\ s.contributed /\ Live(s.row) /\ CanFlush(w)
  /\ rec' = [Flushed(w) EXCEPT ![s.row] = Materialized(@, presets[s.row])]
  /\ torn' = (torn \cup Overwritten(w)) \ {s.row}
  /\ Skipped(s, t) /\ t.pend = NothingPending /\ t.seen = None

Ended(w, t) ==
  LET s == request[w] IN
  /\ ~s.contributed /\ UNCHANGED <<rec, torn>>
  /\ Skipped(s, t) /\ t.pend = s.pend /\ t.seen = s.seen

LEMMA CloseItemEffect ==
  ASSUME TypeInv, NEW w \in Workers, CloseItem(w)
  PROVE  /\ request[w].stage = "preset" /\ request[w].presets = <<>>
         /\ \E t \in Request :
              /\ request' = [request EXCEPT ![w] = t] /\ SaneSession(t)
              /\ Unioned(w, t) \/ Ended(w, t)
<1> DEFINE s == request[w]
           next == NextItem(s)
<1>1. /\ s.stage = "preset" /\ s.presets = <<>>
      /\ \/ /\ s.contributed /\ Live(s.row)
            /\ rec' = [Flushed(w) EXCEPT ![s.row] = Materialized(@, presets[s.row])]
            /\ CanFlush(w)
            /\ torn' = (torn \cup Overwritten(w)) \ {s.row}
            /\ Continue(w, [NextItem(s) EXCEPT !.pend = [q \in Records |-> Clean],
                                               !.seen = None])
         \/ /\ ~s.contributed
            /\ Continue(w, NextItem(s))
            /\ UNCHANGED <<rec, torn>>
  BY DEF CloseItem, At
<1>2. s \in Request /\ SaneSession(s)
  BY SessionType
<1>3. s.todo # <<>>
  BY <1>1, <1>2 DEF SaneSession, Sane
<1> HIDE DEF s
<1>4. /\ next \in Request /\ Skipped(s, next)
      /\ next.pend = s.pend /\ next.seen = s.seen
  BY <1>2, <1>3, Skips
<1>5. CASE /\ s.contributed /\ Live(s.row)
           /\ rec' = [Flushed(w) EXCEPT ![s.row] = Materialized(@, presets[s.row])]
           /\ CanFlush(w)
           /\ torn' = (torn \cup Overwritten(w)) \ {s.row}
           /\ Continue(w, [NextItem(s) EXCEPT !.pend = [q \in Records |-> Clean],
                                              !.seen = None])
  <2> DEFINE mid == [next EXCEPT !.pend = [q \in Records |-> Clean]]
             t == [mid EXCEPT !.seen = None]
  <2>1. request' = [request EXCEPT ![w] = t]
    <3>1. t = [NextItem(s) EXCEPT !.pend = [q \in Records |-> Clean], !.seen = None]
      BY <1>4 DEF Request
    <3> QED
      BY <1>5, <3>1 DEF Continue
  <2> HIDE DEF next
  <2>2. /\ mid \in Request /\ SaneSession(mid) /\ mid.pend = NothingPending
        /\ mid.row = next.row /\ mid.canon = next.canon /\ mid.stage = next.stage
        /\ mid.contributed = next.contributed /\ mid.can = next.can /\ mid.batch = next.batch
        /\ mid.asserts = next.asserts /\ mid.presets = next.presets
        /\ mid.applied = next.applied /\ mid.index = next.index /\ mid.todo = next.todo
        /\ mid.quiet = next.quiet /\ mid.known = next.known /\ mid.again = next.again
    BY <1>4, FlushedSession DEF Skipped
  <2> HIDE DEF mid
  <2>3. mid.stage # "upload"
    BY <1>4, <2>2 DEF Skipped
  <2>4. /\ t \in Request /\ SaneSession(t) /\ t.pend = mid.pend /\ t.seen = None
        /\ t.row = mid.row /\ t.canon = mid.canon /\ t.stage = mid.stage
        /\ t.contributed = mid.contributed /\ t.can = mid.can /\ t.batch = mid.batch
        /\ t.asserts = mid.asserts /\ t.presets = mid.presets
        /\ t.applied = mid.applied /\ t.index = mid.index /\ t.todo = mid.todo
        /\ t.quiet = mid.quiet /\ t.known = mid.known /\ t.again = mid.again
    BY <2>2, <2>3, ExpiredType
  <2> HIDE DEF t
  <2>5. Skipped(s, t)
    BY <1>4, <2>2, <2>4 DEF Skipped, Onward
  <2>6. Unioned(w, t)
    BY <1>5, <2>2, <2>4, <2>5 DEF Unioned, s
  <2> QED
    BY <1>1, <2>1, <2>4, <2>6 DEF s
<1>6. CASE /\ ~s.contributed
           /\ Continue(w, NextItem(s))
           /\ UNCHANGED <<rec, torn>>
  <2>1. Ended(w, next) /\ SaneSession(next)
    BY <1>4, <1>6 DEF Ended, s, Skipped
  <2> QED
    BY <1>1, <1>4, <1>6, <2>1 DEF s, Continue
<1> QED
  BY <1>1, <1>5, <1>6 DEF s

LEMMA FinishBatchEffect ==
  ASSUME TypeInv, NEW w \in Workers, FinishBatch(w)
  PROVE  \E t \in Request :
           LET s == request[w] IN
           /\ request' = [request EXCEPT ![w] = t] /\ SaneSession(t)
           /\ s.stage = "item" /\ s.todo = <<>>
           /\ CanFlush(w) /\ rec' = Flushed(w) /\ torn' = torn \cup Overwritten(w)
           /\ last' = (IF s.quiet THEN <<s.batch, s.can>> ELSE None)
           /\ t = [Idle EXCEPT !.again = s.again]
<1> DEFINE s == request[w]
           t == [Idle EXCEPT !.again = s.again]
<1>1. /\ s.stage = "item" /\ s.todo = <<>>
      /\ Commit(w, Flushed(w), t)
      /\ last' = (IF s.quiet THEN <<s.batch, s.can>> ELSE None)
  BY DEF FinishBatch, At
<1>2. Idle \in Request /\ SaneSession(Idle) /\ s.again \in BOOLEAN
  BY IdleType, SessionType DEF Request
<1>4. Idle.stage = "idle" /\ ~Idle.contributed /\ Idle.seen = None
  BY DEF Idle
<1> HIDE DEF Idle
<1>3. t = [t EXCEPT !.seen = None]
  BY <1>2, <1>4 DEF Request
<1>5. /\ t \in Request /\ t.stage = Idle.stage /\ t.contributed = Idle.contributed
      /\ t.pend = Idle.pend
  BY <1>2 DEF Request
<1>6. SaneSession(t)
  BY <1>2, <1>4, <1>5 DEF SaneSession, Sane
<1> QED
  BY <1>1, <1>3, <1>5, <1>6 DEF Commit

\* The session of a batch that starts.
Started(w, b, can, t) ==
  /\ request' = [request EXCEPT ![w] = t] /\ SaneSession(t)
  /\ request[w].stage = "idle"
  /\ t.stage = "item" /\ t.batch = b /\ t.can = can /\ t.todo = b
  /\ t.known = {r \in Records : Live(r)}
  /\ t.index = [i \in ItemIds |-> {r \in t.known : rec[r].section.item = i}]
  /\ t.seen = rec /\ t.pend = NothingPending /\ t.quiet
  /\ t.row = None /\ t.canon = None /\ ~t.contributed /\ ~t.applied
  /\ t.asserts = <<>> /\ t.presets = <<>>
  /\ last' = None
  /\ UNCHANGED <<rec, presets, blobs, audit, torn, failed>>

LEMMA StartBatchEffect ==
  ASSUME TypeInv, NEW w \in Workers, NEW b \in Batches, NEW can,
         can \in BOOLEAN /\ StartBatch(w, b, can)
  PROVE  \E t \in Request : Started(w, b, can, t)
<1> DEFINE mine == {r \in Records : Live(r)}
           index == [i \in ItemIds |-> {r \in mine : rec[r].section.item = i}]
           again == Repeats(b, can)
           t == [Idle EXCEPT !.stage = "item", !.batch = b, !.can = can, !.todo = b,
                             !.known = mine, !.index = index, !.seen = rec,
                             !.quiet = TRUE, !.again = again]
<1>1. /\ request' = [request EXCEPT ![w] = t] /\ request[w].stage = "idle" /\ last' = None
      /\ UNCHANGED <<rec, presets, blobs, audit, torn, failed>>
  BY DEF StartBatch, At, Continue
<1>2. b \in Seq(BatchItem) /\ rec \in [Records -> Record]
  BY BatchesAssumption DEF TypeInv, TypeOK
<1>3. mine \in SUBSET Records /\ index \in [ItemIds -> SUBSET Records]
  OBVIOUS
<1>4. again \in BOOLEAN
  BY DEF Repeats, WithoutPresets
<1>5. Idle \in Request /\ SaneSession(Idle)
  BY IdleType
<1>6. /\ Idle.pend = NothingPending /\ Idle.row = None /\ Idle.canon = None
      /\ ~Idle.contributed /\ ~Idle.applied /\ Idle.asserts = <<>> /\ Idle.presets = <<>>
  BY DEF Idle, NothingPending
<1> HIDE DEF mine, index, again, Idle
<1>7. /\ t \in Request
      /\ t.stage = "item" /\ t.batch = b /\ t.can = can /\ t.todo = b
      /\ t.known = mine /\ t.index = index /\ t.seen = rec /\ t.quiet
      /\ t.pend = Idle.pend /\ t.row = Idle.row /\ t.canon = Idle.canon
      /\ t.contributed = Idle.contributed /\ t.applied = Idle.applied
      /\ t.asserts = Idle.asserts /\ t.presets = Idle.presets
  <2>1. t \in Request
    BY <1>2, <1>3, <1>4, <1>5 DEF Request
  <2>2. /\ t.stage = "item" /\ t.batch = b /\ t.can = can /\ t.todo = b
        /\ t.known = mine /\ t.index = index /\ t.seen = rec /\ t.quiet
    BY <1>5 DEF Request
  <2>3. /\ t.pend = Idle.pend /\ t.row = Idle.row /\ t.canon = Idle.canon
        /\ t.contributed = Idle.contributed /\ t.applied = Idle.applied
        /\ t.asserts = Idle.asserts /\ t.presets = Idle.presets
    BY <1>5 DEF Request
  <2> QED
    BY <2>1, <2>2, <2>3
<1> HIDE DEF t
<1>8. SaneSession(t)
  BY <1>5, <1>6, <1>7 DEF SaneSession, Sane
<1> QED
  BY <1>1, <1>6, <1>7, <1>8 DEF mine, index, Started

\* The session of a door that returns to its record later.
DoorRequest(r, t, stage, seen) ==
  /\ t \in Request /\ SaneSession(t)
  /\ t.stage = stage /\ t.row = r /\ t.seen = seen
  /\ t.contributed = (stage = "door") /\ t.pend = NothingPending
  /\ t.canon = None /\ t.batch = None /\ ~t.can
  /\ t.asserts = <<>> /\ t.presets = <<>> /\ ~t.applied /\ ~t.quiet /\ t.todo = <<>>

LEMMA StartUploadEffect ==
  ASSUME TypeInv, NEW w \in Workers, NEW r \in Records, StartUpload(w, r)
  PROVE  \E t \in Request :
           /\ request' = [request EXCEPT ![w] = t] /\ DoorRequest(r, t, "upload", rec)
           /\ request[w].stage = "idle" /\ Live(r)
           /\ UNCHANGED <<rec, presets, blobs, audit, torn, last, failed>>
<1> DEFINE t == [Idle EXCEPT !.stage = "upload", !.row = r, !.seen = rec]
<1>1. /\ request' = [request EXCEPT ![w] = t] /\ request[w].stage = "idle" /\ Live(r)
      /\ UNCHANGED <<rec, presets, blobs, audit, torn, last, failed>>
  BY DEF StartUpload, At, Continue, Grow
<1>2. rec \in [Records -> Record]
  BY DEF TypeInv, TypeOK
<1>3. Idle \in Request /\ SaneSession(Idle)
  BY IdleType
<1>4. /\ Idle.pend = NothingPending /\ Idle.canon = None /\ Idle.batch = None
      /\ ~Idle.can /\ Idle.todo = <<>> /\ ~Idle.quiet
      /\ Idle.contributed = FALSE /\ ~Idle.applied /\ Idle.asserts = <<>> /\ Idle.presets = <<>>
  BY DEF Idle, NothingPending
<1> HIDE DEF Idle
<1>5. /\ t \in Request
      /\ t.stage = "upload" /\ t.row = r /\ t.seen = rec
      /\ t.pend = Idle.pend /\ t.canon = Idle.canon /\ t.batch = Idle.batch
      /\ t.can = Idle.can /\ t.todo = Idle.todo /\ t.quiet = Idle.quiet
      /\ t.contributed = Idle.contributed /\ t.applied = Idle.applied
      /\ t.asserts = Idle.asserts /\ t.presets = Idle.presets
  BY <1>2, <1>3 DEF Request
<1> HIDE DEF t
<1>6. SaneSession(t)
  BY <1>2, <1>3, <1>4, <1>5 DEF SaneSession, Sane
<1>7. t.contributed = ("upload" = "door")
  BY <1>4, <1>5
<1>8. DoorRequest(r, t, "upload", rec)
  BY <1>4, <1>5, <1>6, <1>7 DEF DoorRequest
<1> QED
  BY <1>1, <1>5, <1>8

LEMMA StartContributionEffect ==
  ASSUME TypeInv, NEW w \in Workers, NEW r \in Records, NEW e \in PresetEntry,
         StartContribution(w, r, e)
  PROVE  \E t \in Request :
           /\ request' = [Disturbed EXCEPT ![w] = t] /\ DoorRequest(r, t, "door", None)
           /\ request[w].stage = "idle" /\ Live(r) /\ e.mark \in Marks /\ e.key \in Keys
           /\ presets' = [presets EXCEPT ![r] = ReplaceOwn(@, e)]
           /\ last' = None
           /\ UNCHANGED <<rec, blobs, audit, torn, failed>>
<1> DEFINE t == [Idle EXCEPT !.stage = "door", !.row = r, !.contributed = TRUE]
<1>1. /\ request' = [Disturbed EXCEPT ![w] = t] /\ request[w].stage = "idle" /\ Live(r)
      /\ e.mark # None /\ presets' = [presets EXCEPT ![r] = ReplaceOwn(@, e)]
      /\ last' = None
      /\ UNCHANGED <<rec, blobs, audit, torn, failed>>
  BY DEF StartContribution, At, Grow
<1>2. e.mark \in Marks /\ e.key \in Keys
  BY <1>1 DEF PresetEntry
<1>3. Idle \in Request /\ SaneSession(Idle)
  BY IdleType
<1>4. /\ Idle.pend = NothingPending /\ Idle.canon = None /\ Idle.batch = None
      /\ ~Idle.can /\ Idle.todo = <<>> /\ ~Idle.quiet /\ Idle.seen = None
      /\ ~Idle.applied /\ Idle.asserts = <<>> /\ Idle.presets = <<>>
  BY DEF Idle, NothingPending
<1> HIDE DEF Idle
<1>5. /\ t \in Request
      /\ t.stage = "door" /\ t.row = r /\ t.contributed
      /\ t.pend = Idle.pend /\ t.canon = Idle.canon /\ t.batch = Idle.batch
      /\ t.can = Idle.can /\ t.todo = Idle.todo /\ t.quiet = Idle.quiet
      /\ t.seen = Idle.seen /\ t.applied = Idle.applied
      /\ t.asserts = Idle.asserts /\ t.presets = Idle.presets
  BY <1>3 DEF Request
<1> HIDE DEF t
<1>6. SaneSession(t)
  BY <1>3, <1>4, <1>5 DEF SaneSession, Sane
<1>7. DoorRequest(r, t, "door", None)
  BY <1>4, <1>5, <1>6 DEF DoorRequest
<1> QED
  BY <1>1, <1>2, <1>5, <1>7

\* A session that somebody else disturbed: history apart, it is the same.
Alike(s, t) ==
  /\ t \in Request /\ SaneSession(t)
  /\ t.stage = s.stage /\ t.batch = s.batch /\ t.can = s.can /\ t.todo = s.todo
  /\ t.known = s.known /\ t.index = s.index /\ t.seen = s.seen /\ t.pend = s.pend
  /\ t.row = s.row /\ t.asserts = s.asserts /\ t.presets = s.presets
  /\ t.canon = s.canon /\ t.base = s.base /\ t.applied = s.applied
  /\ t.contributed = s.contributed

LEMMA DisturbedType ==
  ASSUME TypeInv
  PROVE  /\ Disturbed \in [Workers -> Request]
         /\ \A v \in Workers : /\ Alike(request[v], Disturbed[v]) /\ ~Disturbed[v].quiet
                               /\ ~Disturbed[v].again
<1>1. ASSUME NEW v \in Workers
      PROVE  /\ Disturbed[v] \in Request /\ Alike(request[v], Disturbed[v])
             /\ ~Disturbed[v].quiet /\ ~Disturbed[v].again
  <2> DEFINE s == request[v]
             t == [s EXCEPT !.quiet = FALSE, !.again = FALSE]
  <2>1. s \in Request /\ SaneSession(s) /\ Disturbed[v] = t
    BY SessionType DEF Disturbed
  <2> HIDE DEF s
  <2>2. /\ t \in Request
        /\ t.stage = s.stage /\ t.batch = s.batch /\ t.can = s.can /\ t.todo = s.todo
        /\ t.known = s.known /\ t.index = s.index /\ t.seen = s.seen /\ t.pend = s.pend
        /\ t.row = s.row /\ t.asserts = s.asserts /\ t.presets = s.presets
        /\ t.canon = s.canon /\ t.base = s.base /\ t.applied = s.applied
        /\ t.contributed = s.contributed /\ ~t.quiet /\ ~t.again
    BY <2>1 DEF Request
  <2> HIDE DEF t
  <2>3. SaneSession(t)
    BY <2>1, <2>2 DEF SaneSession, Sane
  <2> QED
    BY <2>1, <2>2, <2>3 DEF Alike, s
<1>2. Disturbed \in [Workers -> Request]
  BY <1>1 DEF Disturbed
<1> QED
  BY <1>1, <1>2

-----------------------------------------------------------------------------
(* Types. *)

LEMMA OneSession ==
  ASSUME TypeInv, NEW w \in Workers, NEW t \in Request, SaneSession(t),
         request' = [request EXCEPT ![w] = t]
  PROVE  /\ request' \in [Workers -> Request] /\ request'[w] = t
         /\ \A v \in Workers \ {w} : request'[v] = request[v]
         /\ \A v \in Workers : SaneSession(request'[v])
BY SessionType

LEMMA AllSessions ==
  ASSUME TypeInv, request' = Disturbed
  PROVE  /\ request' \in [Workers -> Request]
         /\ \A v \in Workers : Alike(request[v], request'[v]) /\ SaneSession(request'[v])
BY DisturbedType DEF Alike

LEMMA DoorSession ==
  ASSUME TypeInv, NEW w \in Workers, NEW t \in Request, SaneSession(t),
         request' = [Disturbed EXCEPT ![w] = t]
  PROVE  /\ request' \in [Workers -> Request] /\ request'[w] = t
         /\ \A v \in Workers \ {w} : Alike(request[v], request'[v])
         /\ \A v \in Workers : SaneSession(request'[v])
BY DisturbedType DEF Alike

LEMMA MaterializedType ==
  ASSUME NEW row \in Record, NEW entries \in SUBSET Preset
  PROVE  LET m == Materialized(row, entries) IN
         /\ m \in Record /\ m.state = row.state /\ m.section = row.section
         /\ m.canon.leaf = row.canon.leaf /\ m.canon.media = row.canon.media
         /\ m.canon.union = entries /\ m.version = row.version + 1
         /\ m.canon \in Canonical /\ m.link = row.link
<1> DEFINE canon == [row.canon EXCEPT !.union = entries]
           version == row.version + 1
           m == [row EXCEPT !.canon = canon, !.version = version]
<1>1. /\ canon \in Canonical /\ canon.leaf = row.canon.leaf
      /\ canon.media = row.canon.media /\ canon.union = entries
  BY DEF Record, Canonical
<1>2. Materialized(row, entries) = m
  BY DEF Materialized, Record
<1>3. version \in Nat
  BY DEF Record
<1> HIDE DEF canon, version
<1>4. /\ m \in Record /\ m.state = row.state /\ m.section = row.section
      /\ m.canon = canon /\ m.version = version /\ m.link = row.link
  BY <1>1, <1>3 DEF Record
<1> QED
  BY <1>1, <1>2, <1>4 DEF version

LEMMA ReplaceOwnType ==
  ASSUME NEW rows \in SUBSET Preset, NEW e, e.key \in Keys, e.mark \in Marks
  PROVE  ReplaceOwn(rows, e) \in SUBSET Preset
BY DEF ReplaceOwn, Preset

LEMMA OverwrittenType == ASSUME NEW w PROVE Overwritten(w) \subseteq Records
BY DEF Overwritten

\* The steps of a batch.
LEMMA StepTyped ==
  ASSUME TypeInv, NEW w \in Workers, Step(w)
  PROVE  TypeInv'
<1> USE DEF TypeInv, TypeOK
<1> SUFFICES /\ rec' \in [Records -> Record] /\ presets' \in [Records -> SUBSET Preset]
             /\ blobs' \subseteq Blobs /\ audit' \subseteq Records \X Paths \X Values
             /\ request' \in [Workers -> Request] /\ torn' \subseteq Records
             /\ failed' \in 0 .. Failures
             /\ \A v \in Workers : SaneSession(request'[v])
  OBVIOUS
<1> USE OverwrittenType
<1>1. CASE SkipItem(w)
  BY <1>1, SkipItemEffect, OneSession DEF SkipItem, Skipped
<1>2. CASE CreateItem(w)
  <2>1. PICK r \in Records, t \in Request, section \in Section : Created(w, r, section, t)
    BY <1>2, CreateItemEffect
  <2>2. New(section) \in Record /\ Flushed(w) \in [Records -> Record]
    BY NewType, FlushedType
  <2> QED
    BY <1>2, <2>1, <2>2, OneSession DEF Created, CreateItem
<1>3. CASE WriteSection(w)
  <2>1. PICK r \in Records, t \in Request, section \in Section : Wrote(w, r, section, t)
    BY <1>3, WriteSectionEffect
  <2>2. Flushed(w) \in [Records -> Record] /\ Flushed(w)[r] \in Record
    BY FlushedType
  <2>3. [Flushed(w)[r] EXCEPT !.section = section] \in Record
    BY <2>2 DEF Record
  <2>4. [Flushed(w) EXCEPT ![r].section = section] \in [Records -> Record]
    BY <2>2, <2>3
  <2>5. rec' \in [Records -> Record] /\ torn' \subseteq Records
    BY <2>1, <2>4 DEF Wrote
  <2> QED
    BY <1>3, <2>1, <2>5, OneSession DEF Wrote, WriteSection
<1>4. CASE AssertOne(w)
  <2>1. PICK t \in Request :
          /\ request' = [request EXCEPT ![w] = t] /\ SaneSession(t)
          /\ Refused(w, t) \/ Repeated(w, t) \/ Asserted(w, t)
    BY <1>4, AssertOneEffect
  <2>2. request[w].row \in Records
    BY <1>4, AssertOneEffect DEF SaneSession, Sane
  <2>3. Flushed(w) \in [Records -> Record]
    BY FlushedType
  <2>4. /\ rec' \in [Records -> Record] /\ audit' \subseteq Records \X Paths \X Values
        /\ torn' \subseteq Records
    BY <2>1, <2>2, <2>3 DEF Refused, Repeated, Asserted
  <2> QED
    BY <1>4, <2>1, <2>4, OneSession DEF AssertOne
<1>5. CASE CloseAsserts(w)
  BY <1>5, CloseAssertsEffect, OneSession DEF CloseAsserts
<1>6. CASE Contribute(w)
  <2>1. PICK t \in Request :
          /\ request' = [request EXCEPT ![w] = t] /\ SaneSession(t)
          /\ BelowFloor(w, t) \/ Contributed(w, t)
    BY <1>6, ContributeEffect
  <2>2. request[w].row \in Records
    BY <1>6, ContributeEffect DEF SaneSession, Sane
  <2>3. Flushed(w) \in [Records -> Record]
    BY FlushedType
  <2>4. /\ rec' \in [Records -> Record] /\ presets' \in [Records -> SUBSET Preset]
        /\ torn' \subseteq Records
    <3>1. CASE BelowFloor(w, t)
      BY <3>1 DEF BelowFloor
    <3>2. CASE Contributed(w, t)
      <4>1. ReplaceOwn(presets[request[w].row], Head(request[w].presets)) \in SUBSET Preset
        BY <2>2, <3>2, ReplaceOwnType DEF Contributed
      <4> QED
        BY <2>2, <2>3, <3>2, <4>1 DEF Contributed
    <3> QED
      BY <2>1, <3>1, <3>2
  <2> QED
    BY <1>6, <2>1, <2>4, OneSession DEF Contribute
<1>7. CASE CloseItem(w)
  <2>1. PICK t \in Request :
          /\ request' = [request EXCEPT ![w] = t] /\ SaneSession(t)
          /\ Unioned(w, t) \/ Ended(w, t)
    BY <1>7, CloseItemEffect
  <2>2. request[w].row \in Records
    BY <1>7, CloseItemEffect DEF SaneSession, Sane
  <2>3. Flushed(w) \in [Records -> Record]
    BY FlushedType
  <2>4. Materialized(Flushed(w)[request[w].row], presets[request[w].row]) \in Record
    BY <2>2, <2>3, MaterializedType
  <2>5. rec' \in [Records -> Record] /\ torn' \subseteq Records
    BY <2>1, <2>2, <2>3, <2>4 DEF Unioned, Ended
  <2> QED
    BY <1>7, <2>1, <2>5, OneSession DEF CloseItem
<1>8. CASE FinishBatch(w)
  <2>1. Flushed(w) \in [Records -> Record]
    BY FlushedType
  <2>2. PICK t \in Request :
          /\ request' = [request EXCEPT ![w] = t] /\ SaneSession(t)
          /\ rec' = Flushed(w) /\ torn' = torn \cup Overwritten(w)
    BY <1>8, FinishBatchEffect
  <2> QED
    BY <1>8, <2>1, <2>2, OneSession DEF FinishBatch
<1>9. CASE CutOff(w)
  <2>1. /\ request' = [request EXCEPT ![w] = Idle]
        /\ torn' = (IF request[w].contributed THEN torn \cup {request[w].row} ELSE torn)
        /\ UNCHANGED <<rec, presets, blobs, audit>>
        /\ (failed < Failures /\ failed' = failed + 1) \/ UNCHANGED failed
    BY <1>9 DEF CutOff, Continue
  <2>2. request[w].contributed => request[w].row \in Records
    BY DEF SaneSession, Sane
  <2> QED
    BY <2>1, <2>2, IdleType, OneSession, BoundsAssumption
<1>10. CASE FinishContribution(w)
  <2> DEFINE r == request[w].row
  <2>1. /\ request[w].stage = "door"
        /\ request' = [Disturbed EXCEPT ![w] = Idle]
        /\ rec' = [rec EXCEPT ![r] = Materialized(@, presets[r])]
        /\ torn' = torn \ {r} /\ UNCHANGED <<presets, blobs, audit, failed>>
    BY <1>10 DEF FinishContribution, At
  <2>2. r \in Records
    BY <2>1 DEF SaneSession, Sane
  <2>3. Materialized(rec[r], presets[r]) \in Record
    BY <2>2, MaterializedType
  <2> QED
    BY <2>1, <2>2, <2>3, IdleType, DoorSession
<1> QED
  BY <1>1, <1>2, <1>3, <1>4, <1>5, <1>6, <1>7, <1>8, <1>9, <1>10 DEF Step

\* A door rewrites the canonical document and the version of one record.
Rewritten(row, canon, version, m) ==
  /\ m \in Record /\ m.state = row.state /\ m.section = row.section
  /\ m.canon = canon /\ m.version = version

LEMMA LeafWritten ==
  ASSUME TypeInv, NEW r \in Records, NEW p \in Paths, NEW v \in Values, SetLeaf(r, p, v)
  PROVE  \E m \in Record, canon \in Canonical :
           /\ rec' = [rec EXCEPT ![r] = m]
           /\ Rewritten(rec[r], canon, rec[r].version + 1, m)
           /\ canon.media = rec[r].canon.media /\ canon.union = rec[r].canon.union
           /\ \A q \in Paths : canon.leaf[q] = IF q = p THEN v ELSE rec[r].canon.leaf[q]
<1> DEFINE row == rec[r]
           canon == [row.canon EXCEPT !.leaf[p] = v]
           version == row.version + 1
           link == IF p = LinkPath THEN v ELSE row.link
           m == [row EXCEPT !.canon = canon, !.version = version, !.link = link]
<1>1. rec \in [Records -> Record] /\ row \in Record
  BY DEF TypeInv, TypeOK
<1>2. rec' = [rec EXCEPT ![r].canon.leaf[p] = v, ![r].version = @ + 1,
                         ![r].link = IF p = LinkPath THEN v ELSE @]
  BY DEF SetLeaf, Write
<1>3. rec' = [rec EXCEPT ![r] = m]
  BY <1>1, <1>2 DEF Record
<1> HIDE DEF row
<1>4. /\ canon \in Canonical /\ canon.media = row.canon.media /\ canon.union = row.canon.union
      /\ \A q \in Paths : canon.leaf[q] = IF q = p THEN v ELSE row.canon.leaf[q]
  BY <1>1 DEF Record, Canonical
<1>5. version \in Nat /\ link \in Values \cup {None}
  BY <1>1 DEF Record
<1> HIDE DEF canon, version, link
<1>6. Rewritten(row, canon, version, m)
  BY <1>1, <1>4, <1>5 DEF Record, Rewritten
<1> HIDE DEF m
<1>7. m \in Record
  BY <1>6 DEF Rewritten
<1> QED
  BY <1>3, <1>4, <1>6, <1>7 DEF row, version

LEMMA MediaDropped ==
  ASSUME TypeInv, NEW r \in Records, NEW b, DeleteMedia(r, b)
  PROVE  \E m \in Record, canon \in Canonical :
           /\ rec' = [rec EXCEPT ![r] = m]
           /\ Rewritten(rec[r], canon, rec[r].version + 1, m)
           /\ canon.leaf = rec[r].canon.leaf /\ canon.union = rec[r].canon.union
           /\ canon.media \subseteq rec[r].canon.media
<1> DEFINE row == rec[r]
           canon == [row.canon EXCEPT !.media = @ \ {b}]
           version == row.version + 1
           m == [row EXCEPT !.canon = canon, !.version = version]
<1>1. rec \in [Records -> Record] /\ row \in Record
  BY DEF TypeInv, TypeOK
<1>2. rec' = [rec EXCEPT ![r].canon.media = @ \ {b}, ![r].version = @ + 1]
  BY DEF DeleteMedia, Write
<1>3. rec' = [rec EXCEPT ![r] = m]
  BY <1>1, <1>2 DEF Record
<1> HIDE DEF row
<1>4. /\ canon \in Canonical /\ canon.leaf = row.canon.leaf /\ canon.union = row.canon.union
      /\ canon.media \subseteq row.canon.media
  BY <1>1 DEF Record, Canonical
<1>5. version \in Nat
  BY <1>1 DEF Record
<1> HIDE DEF canon, version
<1>6. Rewritten(row, canon, version, m)
  BY <1>1, <1>4, <1>5 DEF Record, Rewritten
<1> HIDE DEF m
<1>7. m \in Record
  BY <1>6 DEF Rewritten
<1> QED
  BY <1>3, <1>4, <1>6, <1>7 DEF row, version

LEMMA SectionWritten ==
  ASSUME TypeInv, NEW r \in Records, NEW data \in Data, WriteClientSection(r, data)
  PROVE  \E m \in Record :
           /\ rec' = [rec EXCEPT ![r] = m] /\ m.state = rec[r].state
           /\ m.canon = rec[r].canon /\ m.section.item = rec[r].section.item
<1> DEFINE row == rec[r]
           section == [row.section EXCEPT !.data = data]
           version == row.version + 1
           m == [row EXCEPT !.section = section, !.version = version]
<1>1. rec \in [Records -> Record] /\ row \in Record
  BY DEF TypeInv, TypeOK
<1>2. rec' = [rec EXCEPT ![r].section.data = data, ![r].version = @ + 1]
  BY DEF WriteClientSection, Write
<1>3. rec' = [rec EXCEPT ![r] = m]
  BY <1>1, <1>2 DEF Record
<1> HIDE DEF row
<1>4. section \in Section /\ section.item = row.section.item
  BY <1>1 DEF Record, Section
<1>5. version \in Nat
  BY <1>1 DEF Record
<1> HIDE DEF section, version
<1>6. /\ m \in Record /\ m.state = row.state /\ m.canon = row.canon
      /\ m.section = section
  BY <1>1, <1>4, <1>5 DEF Record
<1> QED
  BY <1>3, <1>4, <1>6 DEF row

\* What an upload leaves: it writes back the document it loaded before the bytes.
Uploaded(w, b) ==
  LET r == request[w].row
      seen == request[w].seen[r] IN
  \E m \in Record, canon \in Canonical :
    /\ Live(r) /\ rec' = [rec EXCEPT ![r] = m]
    /\ m.state = rec[r].state /\ m.section = rec[r].section
    /\ m.canon = canon /\ m.version = seen.version + 1
    /\ canon.leaf = seen.canon.leaf /\ canon.union = seen.canon.union
    /\ canon.media = seen.canon.media \cup {b}
    /\ torn' = IF rec[r] = seen THEN torn ELSE torn \cup {r}

LEMMA FinishUploadEffect ==
  ASSUME TypeInv, NEW w \in Workers, NEW b \in Blobs, FinishUpload(w, b)
  PROVE  /\ request[w].stage = "upload" /\ request[w].row \in Records
         /\ request[w].seen \in [Records -> Record]
         /\ blobs' = blobs \cup {b} /\ request' = [Disturbed EXCEPT ![w] = Idle]
         /\ last' = None /\ UNCHANGED <<presets, audit, failed>>
         /\ Uploaded(w, b) \/ UNCHANGED <<rec, torn>>
<1> DEFINE r == request[w].row
           seen == request[w].seen[r]
           row == rec[r]
           canon == [seen.canon EXCEPT !.media = @ \cup {b}]
           version == seen.version + 1
           m == [row EXCEPT !.canon = canon, !.version = version]
<1>1. /\ request[w].stage = "upload"
      /\ blobs' = blobs \cup {b} /\ request' = [Disturbed EXCEPT ![w] = Idle]
      /\ last' = None /\ UNCHANGED <<presets, audit, failed>>
      /\ \/ /\ Live(r)
            /\ rec' = [rec EXCEPT ![r].canon = [seen.canon EXCEPT !.media = @ \cup {b}],
                                  ![r].version = seen.version + 1]
            /\ torn' = IF rec[r] = seen THEN torn ELSE torn \cup {r}
         \/ UNCHANGED <<rec, torn>>
  BY DEF FinishUpload, At
<1>2. r \in Records /\ request[w].seen \in [Records -> Record]
  BY <1>1 DEF TypeInv, SaneSession, Sane
<1>3. rec \in [Records -> Record] /\ row \in Record /\ seen \in Record
  BY <1>2 DEF TypeInv, TypeOK
<1>4. CASE /\ Live(r)
           /\ rec' = [rec EXCEPT ![r].canon = [seen.canon EXCEPT !.media = @ \cup {b}],
                                 ![r].version = seen.version + 1]
           /\ torn' = IF rec[r] = seen THEN torn ELSE torn \cup {r}
  <2>1. rec' = [rec EXCEPT ![r] = m]
    BY <1>2, <1>3, <1>4 DEF Record
  <2> HIDE DEF seen, row, r
  <2>2. /\ canon \in Canonical /\ canon.leaf = seen.canon.leaf
        /\ canon.union = seen.canon.union /\ canon.media = seen.canon.media \cup {b}
    BY <1>3 DEF Record, Canonical
  <2>3. version \in Nat
    BY <1>3 DEF Record
  <2> HIDE DEF canon, version
  <2>4. m \in Record /\ m.state = row.state /\ m.section = row.section
        /\ m.canon = canon /\ m.version = version
    BY <1>3, <2>2, <2>3 DEF Record
  <2> HIDE DEF m
  <2>5. Uploaded(w, b)
    BY <1>4, <2>1, <2>2, <2>4 DEF Uploaded, seen, row, r, version
  <2> QED
    BY <1>1, <1>2, <2>5 DEF r
<1> QED
  BY <1>1, <1>2, <1>4

LEMMA GoneType ==
  LET gone == [Unborn EXCEPT !.state = "gone"] IN
  gone \in Record /\ gone.state = "gone"
<1>1. Unborn \in Record
  BY UnbornType
<1> HIDE DEF Unborn
<1> QED
  BY <1>1 DEF Record

LEMMA PresetDeleted ==
  ASSUME TypeInv, NEW r \in Records, NEW p, DeletePreset(r, p)
  PROVE  /\ presets' \in [Records -> SUBSET Preset]
         /\ presets' = [presets EXCEPT ![r] = @ \ {p}]
         /\ rec' = [rec EXCEPT ![r] = Materialized(rec[r], presets'[r])]
         /\ rec[r] \in Record /\ presets'[r] \in SUBSET Preset
         /\ Live(r) /\ request' = Disturbed /\ last' = None /\ torn' = torn \ {r}
BY DEF DeletePreset, Write, TypeInv, TypeOK

LEMMA DoorTyped ==
  ASSUME TypeInv, Door
  PROVE  TypeInv'
<1> USE DEF TypeInv, TypeOK
<1> SUFFICES /\ rec' \in [Records -> Record] /\ presets' \in [Records -> SUBSET Preset]
             /\ blobs' \subseteq Blobs /\ audit' \subseteq Records \X Paths \X Values
             /\ request' \in [Workers -> Request] /\ torn' \subseteq Records
             /\ failed' \in 0 .. Failures
             /\ \A v \in Workers : SaneSession(request'[v])
  OBVIOUS
<1>1. CASE CreateInstance
  <2>1. PICK r \in Records : rec' = [rec EXCEPT ![r] = New(NoSection)] /\ request' = Disturbed
    BY <1>1 DEF CreateInstance, Write
  <2>2. New(NoSection) \in Record
    BY NewType DEF NoSection, Section
  <2> QED
    BY <1>1, <2>1, <2>2, AllSessions DEF CreateInstance
<1>2. ASSUME NEW r \in Records, DeleteInstance(r) PROVE TypeInv'
  <2>1. rec' = [rec EXCEPT ![r] = [Unborn EXCEPT !.state = "gone"]] /\ request' = Disturbed
    BY <1>2 DEF DeleteInstance, Write
  <2>2. audit' \subseteq audit /\ torn' \subseteq torn /\ presets' = [presets EXCEPT ![r] = {}]
        /\ UNCHANGED <<blobs, failed>>
    BY <1>2 DEF DeleteInstance
  <2> QED
    BY <2>1, <2>2, GoneType, AllSessions
<1>3. ASSUME NEW r \in Records, NEW data \in Data, WriteClientSection(r, data) PROVE TypeInv'
  <2>1. request' = Disturbed /\ UNCHANGED <<presets, blobs, audit, torn, failed>>
    BY <1>3 DEF WriteClientSection, Write
  <2>2. PICK m \in Record : rec' = [rec EXCEPT ![r] = m]
    BY <1>3, SectionWritten
  <2> QED
    BY <2>1, <2>2, AllSessions
<1>4. ASSUME NEW r \in Records, NEW p \in Paths, NEW v \in Values,
             AssertCanonical(r, p, v) \/ ObserveCanonical(r, p, v)
      PROVE TypeInv'
  <2>1. SetLeaf(r, p, v) /\ UNCHANGED <<presets, blobs, torn, failed>>
    BY <1>4 DEF AssertCanonical, ObserveCanonical
  <2>2. request' = Disturbed /\ audit' = audit \cup {<<r, p, v>>}
    BY <2>1 DEF SetLeaf, Write
  <2>3. PICK m \in Record : rec' = [rec EXCEPT ![r] = m]
    BY <2>1, LeafWritten
  <2> QED
    BY <2>1, <2>2, <2>3, AllSessions
<1>5. ASSUME NEW r \in Records, NEW p, DeletePreset(r, p) PROVE TypeInv'
  <2>1. UNCHANGED <<blobs, audit, failed>>
    BY <1>5 DEF DeletePreset
  <2>2. Materialized(rec[r], presets'[r]) \in Record
    BY <1>5, PresetDeleted, MaterializedType
  <2> QED
    BY <1>5, <2>1, <2>2, PresetDeleted, AllSessions
<1>6. ASSUME NEW r \in Records, NEW b \in Blobs, DeleteMedia(r, b) PROVE TypeInv'
  <2>1. request' = Disturbed /\ UNCHANGED <<presets, blobs, audit, torn, failed>>
    BY <1>6 DEF DeleteMedia, Write, BytesAfterDelete
  <2>2. PICK m \in Record : rec' = [rec EXCEPT ![r] = m]
    BY <1>6, MediaDropped
  <2> QED
    BY <2>1, <2>2, AllSessions
<1> QED
  BY <1>1, <1>2, <1>3, <1>4, <1>5, <1>6 DEF Door

LEMMA NextTyped ==
  ASSUME TypeInv, [Next]_vars
  PROVE  TypeInv'
<1>0. ASSUME NEW w \in Workers, NEW b \in Batches, NEW can,
             can \in BOOLEAN /\ StartBatch(w, b, can)
      PROVE  \E t \in Request :
               /\ request' = [request EXCEPT ![w] = t] /\ SaneSession(t)
               /\ UNCHANGED <<rec, presets, blobs, audit, torn, failed>>
  BY <1>0, StartBatchEffect DEF Started
<1> USE DEF TypeInv, TypeOK
<1> SUFFICES /\ rec' \in [Records -> Record] /\ presets' \in [Records -> SUBSET Preset]
             /\ blobs' \subseteq Blobs /\ audit' \subseteq Records \X Paths \X Values
             /\ request' \in [Workers -> Request] /\ torn' \subseteq Records
             /\ failed' \in 0 .. Failures
             /\ \A v \in Workers : SaneSession(request'[v])
  OBVIOUS
<1>1. CASE UNCHANGED vars
  BY <1>1 DEF vars
<1>2. CASE Door
  BY <1>2, DoorTyped
<1>3. ASSUME NEW w \in Workers, NEW b \in Batches, NEW can,
             can \in BOOLEAN /\ StartBatch(w, b, can)
      PROVE TypeInv'
  <2>1. PICK t \in Request :
          /\ request' = [request EXCEPT ![w] = t] /\ SaneSession(t)
          /\ UNCHANGED <<rec, presets, blobs, audit, torn, failed>>
    BY <1>0, <1>3
  <2> QED
    BY <2>1, OneSession
<1>4. ASSUME NEW w \in Workers, NEW r \in Records, StartUpload(w, r) PROVE TypeInv'
  BY <1>4, StartUploadEffect, OneSession DEF DoorRequest
<1>5. ASSUME NEW w \in Workers, NEW r \in Records, NEW e \in PresetEntry,
             StartContribution(w, r, e)
      PROVE TypeInv'
  <2>1. PICK t \in Request :
           /\ request' = [Disturbed EXCEPT ![w] = t] /\ SaneSession(t)
           /\ e.mark \in Marks /\ e.key \in Keys
           /\ presets' = [presets EXCEPT ![r] = ReplaceOwn(@, e)]
           /\ UNCHANGED <<rec, blobs, audit, torn, failed>>
    BY <1>5, StartContributionEffect DEF DoorRequest
  <2>2. presets \in [Records -> SUBSET Preset]
    OBVIOUS
  <2>3. ReplaceOwn(presets[r], e) \in SUBSET Preset
    <3> DEFINE rows == presets[r]
    <3>1. rows \in SUBSET Preset
      BY <2>2
    <3> HIDE DEF rows
    <3>2. ReplaceOwn(rows, e) \in SUBSET Preset
      BY <2>1, <3>1, ReplaceOwnType
    <3> QED
      BY <3>2 DEF rows
  <2> QED
    BY <2>1, <2>3, DoorSession
<1>6. ASSUME NEW w \in Workers, NEW b \in Blobs, FinishUpload(w, b) PROVE TypeInv'
  <2>1. /\ request' = [Disturbed EXCEPT ![w] = Idle] /\ blobs' = blobs \cup {b}
        /\ UNCHANGED <<presets, audit, failed>>
        /\ Uploaded(w, b) \/ UNCHANGED <<rec, torn>>
        /\ request[w].row \in Records
    BY <1>6, FinishUploadEffect
  <2>2. rec' \in [Records -> Record] /\ torn' \subseteq Records
    <3>1. rec \in [Records -> Record] /\ torn \subseteq Records
      BY DEF TypeInv, TypeOK
    <3>2. CASE UNCHANGED <<rec, torn>>
      BY <3>1, <3>2
    <3>3. CASE Uploaded(w, b)
      BY <2>1, <3>1, <3>3 DEF Uploaded
    <3> QED
      BY <2>1, <3>2, <3>3
  <2> QED
    BY <2>1, <2>2, IdleType, DoorSession
<1>7. ASSUME NEW w \in Workers, Step(w) PROVE TypeInv'
  BY <1>7, StepTyped
<1> QED
  BY <1>1, <1>2, <1>3, <1>4, <1>5, <1>6, <1>7 DEF Next

LEMMA InitTyped == Init => TypeInv
<1> SUFFICES ASSUME Init PROVE TypeInv
  OBVIOUS
<1>1. TypeOK
  BY UnbornType, IdleType, BoundsAssumption DEF Init, TypeOK
<1>2. \A w \in Workers : SaneSession(request[w])
  BY IdleType DEF Init
<1> QED
  BY <1>1, <1>2 DEF TypeInv

LEMMA AlwaysTyped == Spec => []TypeInv
<1>1. Init => TypeInv
  BY InitTyped
<1>2. TypeInv /\ [Next]_vars => TypeInv'
  BY NextTyped
<1> QED
  BY <1>1, <1>2, PTL DEF Spec

\* Every row, blob, audit row and session has its type, whatever batches and
\* doors interleave and wherever they are cut.
THEOREM TypeCorrect == Spec => []TypeOK
<1>1. TypeInv => TypeOK
  BY DEF TypeInv
<1> QED
  BY <1>1, AlwaysTyped, PTL

-----------------------------------------------------------------------------
(* What reaches a canonical document. *)

\* Each leaf of c, a copy of the canonical of r, has its row in log, and each
\* reference its bytes in kept.
Sound(r, c, kept, log) ==
  /\ c.media \subseteq kept
  /\ \A p \in Paths : c.leaf[p] # None => <<r, p, c.leaf[p]>> \in log

SoundRows(rows, kept, log) ==
  \A r \in Records : rows[r].state # "gone" => Sound(r, rows[r].canon, kept, log)

\* The same for every copy that a session holds: what it has assigned, what it
\* has loaded, and what it is asserting on.
SoundSession(s, rows, kept, log) ==
  \A r \in Records : rows[r].state # "gone" =>
    /\ s.pend[r].canon # None => Sound(r, s.pend[r].canon, kept, log)
    /\ s.seen # None \/ s.stage = "upload" => Sound(r, s.seen[r].canon, kept, log)
    /\ s.stage = "assert" /\ s.row = r => Sound(r, s.canon, kept, log)

AuditInv ==
  /\ TypeInv
  /\ SoundRows(rec, blobs, audit)
  /\ \A w \in Workers : SoundSession(request[w], rec, blobs, audit)

\* No step loses bytes, revives a record, or loses the rows of one that stays.
Kept ==
  /\ blobs \subseteq blobs'
  /\ \A r \in Records : rec'[r].state # "gone" =>
       /\ rec[r].state # "gone"
       /\ \A p, v : <<r, p, v>> \in audit => <<r, p, v>> \in audit'

LEMMA StillSound ==
  ASSUME Kept, NEW r \in Records, rec'[r].state # "gone", NEW c, Sound(r, c, blobs, audit)
  PROVE  Sound(r, c, blobs', audit')
BY DEF Kept, Sound

LEMMA SessionStillSound ==
  ASSUME Kept, NEW s, SoundSession(s, rec, blobs, audit)
  PROVE  SoundSession(s, rec', blobs', audit')
<1> SUFFICES ASSUME NEW r \in Records, rec'[r].state # "gone"
             PROVE  /\ s.pend[r].canon # None => Sound(r, s.pend[r].canon, blobs', audit')
                    /\ s.seen # None \/ s.stage = "upload"
                         => Sound(r, s.seen[r].canon, blobs', audit')
                    /\ s.stage = "assert" /\ s.row = r => Sound(r, s.canon, blobs', audit')
  BY DEF SoundSession
<1>1. rec[r].state # "gone"
  BY DEF Kept
<1> QED
  BY <1>1, StillSound DEF SoundSession

LEMMA AlikeSound ==
  ASSUME NEW s, NEW t, Alike(s, t), NEW rows, NEW kept, NEW log,
         SoundSession(s, rows, kept, log)
  PROVE  SoundSession(t, rows, kept, log)
BY DEF Alike, SoundSession

LEMMA BlankSound ==
  ASSUME NEW r, NEW kept, NEW log
  PROVE  Sound(r, Blank, kept, log)
BY DEF Blank, Sound

\* What a session flushes or reads is as sound as what it holds.
LEMMA FlushSound ==
  ASSUME AuditInv, NEW w \in Workers, NEW r \in Records, rec[r].state # "gone"
  PROVE  /\ Flushed(w)[r] \in Record /\ Flushed(w)[r].state = rec[r].state
         /\ Sound(r, Flushed(w)[r].canon, blobs, audit)
         /\ Sound(r, Row(w, r).canon, blobs, audit)
<1> DEFINE p == request[w].pend[r]
<1>1. /\ Sound(r, rec[r].canon, blobs, audit)
      /\ p.canon # None => Sound(r, p.canon, blobs, audit)
      /\ request[w].seen # None => Sound(r, request[w].seen[r].canon, blobs, audit)
  BY DEF AuditInv, SoundRows, SoundSession
<1>2. TypeInv /\ p \in Pending /\ rec[r] \in Record
  BY DEF AuditInv, TypeInv, TypeOK, Request
<1>3. Flushed(w)[r] = Overlay(rec[r], p)
  BY <1>2, FlushedType
<1>4. PICK row \in Record :
        /\ row = IF request[w].seen = None THEN rec[r] ELSE request[w].seen[r]
        /\ Row(w, r) = Overlay(row, p)
  BY <1>2, RowType
<1>5. Sound(r, row.canon, blobs, audit)
  BY <1>1, <1>4
<1> HIDE DEF p
<1>6. Flushed(w)[r] \in Record /\ Flushed(w)[r].state = rec[r].state
      /\ Flushed(w)[r].canon = IF p.canon = None THEN rec[r].canon ELSE p.canon
  BY <1>2, <1>3, OverlayType
<1>7. Row(w, r).canon = IF p.canon = None THEN row.canon ELSE p.canon
  BY <1>2, <1>4, OverlayType
<1> QED
  BY <1>1, <1>5, <1>6, <1>7

\* A session goes on with copies that are as sound as before.
LEMMA GoesOnSound ==
  ASSUME AuditInv, Kept, NEW w \in Workers, NEW t \in Request, SaneSession(t),
         request' = [request EXCEPT ![w] = t],
         SoundRows(rec', blobs', audit'), SoundSession(t, rec', blobs', audit')
  PROVE  /\ SoundRows(rec', blobs', audit')
         /\ \A v \in Workers : SoundSession(request'[v], rec', blobs', audit')
<1>1. request'[w] = t /\ \A v \in Workers \ {w} : request'[v] = request[v]
  BY OneSession DEF AuditInv
<1>2. \A v \in Workers : SoundSession(request[v], rec', blobs', audit')
  BY SessionStillSound DEF AuditInv
<1> QED
  BY <1>1, <1>2

LEMMA SameRowsSound ==
  ASSUME AuditInv, UNCHANGED <<rec, blobs, audit>>
  PROVE  Kept /\ SoundRows(rec', blobs', audit')
BY DEF AuditInv, Kept

LEMMA FlushedRowsSound ==
  ASSUME AuditInv, NEW w \in Workers, rec' = Flushed(w), blobs' = blobs, audit \subseteq audit'
  PROVE  Kept /\ SoundRows(rec', blobs', audit')
<1>1. \A r \in Records : rec'[r].state = rec[r].state
  BY FlushedType, OverlayType DEF AuditInv, TypeInv, TypeOK, Request
<1>2. Kept
  BY <1>1 DEF Kept
<1>3. ASSUME NEW r \in Records, rec'[r].state # "gone"
      PROVE  Sound(r, rec'[r].canon, blobs', audit')
  BY <1>1, <1>2, <1>3, FlushSound, StillSound
<1> QED
  BY <1>2, <1>3 DEF SoundRows

\* A session with nothing loaded and nothing pending is sound outside an item.
LEMMA EmptySound ==
  ASSUME NEW t, t.stage \notin {"assert", "upload"}, t.seen = None, t.pend = NothingPending,
         NEW rows, NEW kept, NEW log
  PROVE  SoundSession(t, rows, kept, log)
<1>1. \A r \in Records : t.pend[r].canon = None
  BY DEF NothingPending, Clean
<1> QED
  BY <1>1 DEF SoundSession

\* A session that has assigned and loaded nothing new is sound outside an item.
LEMMA SameHeldSound ==
  ASSUME NEW s, NEW t, NEW rows, NEW kept, NEW log, SoundSession(s, rows, kept, log),
         t.stage \notin {"assert", "upload"}, t.seen = s.seen, t.pend = s.pend
  PROVE  SoundSession(t, rows, kept, log)
BY DEF SoundSession

LEMMA FlushedState ==
  ASSUME TypeInv, NEW w \in Workers
  PROVE  \A r \in Records : Flushed(w)[r].state = rec[r].state
BY FlushedType, OverlayType DEF TypeInv, TypeOK, Request

LEMMA CreatedSound ==
  ASSUME AuditInv, NEW w \in Workers, CreateItem(w)
  PROVE  /\ Kept /\ SoundRows(rec', blobs', audit')
         /\ \A v \in Workers : SoundSession(request'[v], rec', blobs', audit')
<1> USE DEF AuditInv
<1>1. PICK r \in Records, t \in Request, section \in Section : Created(w, r, section, t)
  BY CreateItemEffect
<1>2. blobs' = blobs /\ audit' = audit
  BY DEF CreateItem
<1>3. /\ request' = [request EXCEPT ![w] = t] /\ SaneSession(t) /\ rec[r] = Unborn
      /\ rec' = [Flushed(w) EXCEPT ![r] = New(section)]
      /\ t.stage = "assert" /\ t.seen = None /\ t.pend = NothingPending
      /\ t.row = r /\ t.canon = Blank
  BY <1>1 DEF Created
<1>4. /\ New(section).canon = Blank /\ New(section).state = "live"
      /\ rec[r].state = "unborn"
  BY <1>3, NewType, UnbornType
<1>5. /\ Flushed(w) \in [Records -> Record]
      /\ \A q \in Records : rec'[q] = IF q = r THEN New(section) ELSE Flushed(w)[q]
  BY <1>3, FlushedType
<1>6. \A q \in Records : q # r => rec'[q].state = rec[q].state
  BY <1>5, FlushedState
<1>7. Kept
  BY <1>2, <1>4, <1>6 DEF Kept
<1>8. SoundRows(rec', blobs', audit')
  <2>1. ASSUME NEW q \in Records, rec'[q].state # "gone"
        PROVE  Sound(q, rec'[q].canon, blobs', audit')
    <3>1. CASE q = r
      BY <1>4, <1>5, <3>1, BlankSound
    <3>2. CASE q # r
      BY <1>2, <1>5, <1>6, <2>1, <3>2, FlushSound
    <3> QED
      BY <3>1, <3>2
  <2> QED
    BY <2>1 DEF SoundRows
<1>9. SoundSession(t, rec', blobs', audit')
  <2>1. \A q \in Records : t.pend[q].canon = None
    BY <1>3 DEF NothingPending, Clean
  <2> QED
    BY <1>3, <2>1, BlankSound DEF SoundSession
<1> QED
  BY <1>3, <1>7, <1>8, <1>9, GoesOnSound

LEMMA WroteSound ==
  ASSUME AuditInv, NEW w \in Workers, WriteSection(w)
  PROVE  /\ Kept /\ SoundRows(rec', blobs', audit')
         /\ \A v \in Workers : SoundSession(request'[v], rec', blobs', audit')
<1> USE DEF AuditInv
<1> DEFINE s == request[w]
<1>1. PICK r \in Records, t \in Request, section \in Section : Wrote(w, r, section, t)
  BY WriteSectionEffect
<1>2. blobs' = blobs /\ audit' = audit
  BY DEF WriteSection
<1>3. request' = [request EXCEPT ![w] = t] /\ SaneSession(t) /\ t.row = r /\ t.stage = "assert"
  BY <1>1 DEF Wrote
<1>4. CASE /\ rec' = [Flushed(w) EXCEPT ![r].section = section]
           /\ t.pend = NothingPending /\ t.seen = None
           /\ t.canon = Flushed(w)[r].canon
  <2>1. \A q \in Records : /\ rec'[q].canon = Flushed(w)[q].canon
                           /\ rec'[q].state = rec[q].state
    <3>1. Flushed(w) \in [Records -> Record]
          /\ \A q \in Records : Flushed(w)[q].state = rec[q].state
      BY FlushedType, FlushedState
    <3> QED
      BY <1>4, <3>1 DEF Record
  <2>2. Kept
    BY <1>2, <2>1 DEF Kept
  <2>3. SoundRows(rec', blobs', audit')
    BY <1>2, <2>1, FlushSound DEF SoundRows
  <2>4. SoundSession(t, rec', blobs', audit')
    <3>1. \A q \in Records : t.pend[q].canon = None
      BY <1>4 DEF NothingPending, Clean
    <3> QED
      BY <1>2, <1>3, <1>4, <2>1, <3>1, FlushSound DEF SoundSession
  <2> QED
    BY <1>3, <2>2, <2>3, <2>4, GoesOnSound
<1>5. CASE /\ UNCHANGED <<rec, torn>>
           /\ t.seen = s.seen /\ t.canon = Row(w, r).canon
           /\ t.pend = s.pend \/ t.pend = [s.pend EXCEPT ![r].section = section]
  <2>1. Kept /\ SoundRows(rec', blobs', audit')
    BY <1>2, <1>5, SameRowsSound
  <2>2. \A q \in Records : t.pend[q].canon = s.pend[q].canon
    <3>1. s.pend \in [Records -> Pending]
      BY SessionType DEF Request
    <3> QED
      BY <1>5, <3>1 DEF Pending
  <2>3. SoundSession(s, rec, blobs, audit)
    OBVIOUS
  <2> HIDE DEF s
  <2>4. SoundSession(t, rec', blobs', audit')
    BY <1>2, <1>3, <1>5, <2>2, <2>3, FlushSound DEF SoundSession
  <2> QED
    BY <1>3, <2>1, <2>4, GoesOnSound
<1> QED
  BY <1>1, <1>4, <1>5 DEF Wrote

LEMMA AssertedSound ==
  ASSUME AuditInv, NEW w \in Workers, AssertOne(w)
  PROVE  /\ Kept /\ SoundRows(rec', blobs', audit')
         /\ \A v \in Workers : SoundSession(request'[v], rec', blobs', audit')
<1> USE DEF AuditInv
<1> DEFINE s == request[w]
           e == Head(s.asserts)
<1>1. PICK t \in Request :
        /\ request' = [request EXCEPT ![w] = t] /\ SaneSession(t)
        /\ Refused(w, t) \/ Repeated(w, t) \/ Asserted(w, t)
  BY AssertOneEffect
<1>2. blobs' = blobs /\ s.stage = "assert" /\ SoundSession(s, rec, blobs, audit)
  BY AssertOneEffect DEF AssertOne
<1>3. CASE Refused(w, t)
  <2>1. /\ UNCHANGED <<rec, blobs, audit>> /\ t.pend = s.pend /\ t.seen = s.seen
        /\ t.stage = "item"
    BY <1>2, <1>3 DEF Refused, Skipped
  <2>2. SoundSession(t, rec', blobs', audit')
    BY <1>2, <2>1, SameHeldSound
  <2> QED
    BY <1>1, <2>1, <2>2, SameRowsSound, GoesOnSound
<1>4. CASE Repeated(w, t)
  <2>1. /\ UNCHANGED <<rec, blobs, audit>> /\ t.pend = s.pend /\ t.seen = s.seen
        /\ t.stage = "assert" /\ t.canon = s.canon /\ t.row = s.row
    BY <1>2, <1>4 DEF Repeated, SameItem
  <2> HIDE DEF s
  <2>2. SoundSession(t, rec', blobs', audit')
    BY <1>2, <2>1 DEF SoundSession
  <2> QED
    BY <1>1, <2>1, <2>2, SameRowsSound, GoesOnSound
<1>5. CASE Asserted(w, t)
  <2>1. /\ rec' = Flushed(w) /\ audit' = audit \cup {<<s.row, e.path, e.value>>}
        /\ t.seen = None /\ t.row = s.row /\ t.stage = "assert"
        /\ \A q \in Records : t.pend[q].canon = None
        /\ t.canon.media = s.canon.media /\ e.path \in Paths
        /\ \A p \in Paths : t.canon.leaf[p] = IF p = e.path THEN e.value ELSE s.canon.leaf[p]
    BY <1>5 DEF Asserted, SameItem
  <2> HIDE DEF s, e
  <2>2. Kept /\ SoundRows(rec', blobs', audit')
    BY <1>2, <2>1, FlushedRowsSound
  <2>3. SoundSession(t, rec', blobs', audit')
    <3>1. ASSUME NEW r \in Records, rec'[r].state # "gone", t.row = r
          PROVE  Sound(r, t.canon, blobs', audit')
      <4>1. rec[r].state # "gone"
        BY <2>2, <3>1 DEF Kept
      <4>2. Sound(r, s.canon, blobs, audit)
        BY <1>2, <2>1, <3>1, <4>1 DEF SoundSession
      <4> QED
        BY <1>2, <2>1, <3>1, <4>2 DEF Sound
    <3> QED
      BY <2>1, <3>1 DEF SoundSession
  <2> QED
    BY <1>1, <2>2, <2>3, GoesOnSound
<1> QED
  BY <1>1, <1>3, <1>4, <1>5

LEMMA ClosedSound ==
  ASSUME AuditInv, NEW w \in Workers, CloseAsserts(w)
  PROVE  /\ Kept /\ SoundRows(rec', blobs', audit')
         /\ \A v \in Workers : SoundSession(request'[v], rec', blobs', audit')
<1> USE DEF AuditInv
<1> DEFINE s == request[w]
<1>1. PICK t \in Request :
        /\ request' = [request EXCEPT ![w] = t] /\ SaneSession(t) /\ Closed(w, t)
  BY CloseAssertsEffect
<1>2. UNCHANGED <<rec, blobs, audit>> /\ SoundSession(s, rec, blobs, audit)
  BY DEF CloseAsserts
<1>3. /\ t.stage = "preset" /\ t.seen = s.seen /\ s.stage = "assert"
      /\ \A r \in Records \ {s.row} : t.pend[r] = s.pend[r]
      /\ t.pend[s.row].canon = s.canon \/ t.pend[s.row].canon = s.pend[s.row].canon
  BY <1>1 DEF Closed
<1> HIDE DEF s
<1>4. SoundSession(t, rec', blobs', audit')
  <2> SUFFICES ASSUME NEW r \in Records, rec[r].state # "gone"
               PROVE  /\ t.pend[r].canon # None => Sound(r, t.pend[r].canon, blobs, audit)
                      /\ t.seen # None => Sound(r, t.seen[r].canon, blobs, audit)
    BY <1>2, <1>3 DEF SoundSession
  <2>1. CASE r = s.row
    BY <1>2, <1>3, <2>1 DEF SoundSession
  <2>2. CASE r # s.row
    BY <1>2, <1>3, <2>2 DEF SoundSession
  <2> QED
    BY <2>1, <2>2
<1> QED
  BY <1>1, <1>2, <1>4, SameRowsSound, GoesOnSound

LEMMA ContributedSound ==
  ASSUME AuditInv, NEW w \in Workers, Contribute(w)
  PROVE  /\ Kept /\ SoundRows(rec', blobs', audit')
         /\ \A v \in Workers : SoundSession(request'[v], rec', blobs', audit')
<1> USE DEF AuditInv
<1> DEFINE s == request[w]
<1>1. PICK t \in Request :
        /\ request' = [request EXCEPT ![w] = t] /\ SaneSession(t)
        /\ BelowFloor(w, t) \/ Contributed(w, t)
  BY ContributeEffect
<1>2. UNCHANGED <<blobs, audit>> /\ SoundSession(s, rec, blobs, audit)
  BY DEF Contribute
<1>3. CASE BelowFloor(w, t)
  <2>1. UNCHANGED rec /\ t.stage = "preset" /\ t.pend = s.pend /\ t.seen = s.seen
    BY <1>3 DEF BelowFloor
  <2>2. SoundSession(t, rec', blobs', audit')
    BY <1>2, <2>1, SameHeldSound
  <2> QED
    BY <1>1, <1>2, <2>1, <2>2, SameRowsSound, GoesOnSound
<1>4. CASE Contributed(w, t)
  <2>1. rec' = Flushed(w) /\ t.stage = "preset" /\ t.pend = NothingPending /\ t.seen = None
    BY <1>4 DEF Contributed
  <2>2. SoundSession(t, rec', blobs', audit')
    BY <2>1, EmptySound
  <2> QED
    BY <1>1, <1>2, <2>1, <2>2, FlushedRowsSound, GoesOnSound
<1> QED
  BY <1>1, <1>3, <1>4

LEMMA EndedSound ==
  ASSUME AuditInv, NEW w \in Workers, CloseItem(w)
  PROVE  /\ Kept /\ SoundRows(rec', blobs', audit')
         /\ \A v \in Workers : SoundSession(request'[v], rec', blobs', audit')
<1> USE DEF AuditInv
<1> DEFINE s == request[w]
<1>1. /\ s.stage = "preset"
      /\ \E t \in Request :
           /\ request' = [request EXCEPT ![w] = t] /\ SaneSession(t)
           /\ Unioned(w, t) \/ Ended(w, t)
  BY CloseItemEffect
<1>2. PICK t \in Request :
        /\ request' = [request EXCEPT ![w] = t] /\ SaneSession(t)
        /\ Unioned(w, t) \/ Ended(w, t)
  BY <1>1
<1>3. UNCHANGED <<presets, blobs, audit>> /\ SoundSession(s, rec, blobs, audit)
  BY DEF CloseItem
<1>4. s.row \in Records
  BY <1>1 DEF TypeInv, SaneSession, Sane
<1>5. CASE Ended(w, t)
  <2>1. UNCHANGED rec /\ t.stage = "item" /\ t.pend = s.pend /\ t.seen = s.seen
    BY <1>5 DEF Ended, Skipped
  <2>2. SoundSession(t, rec', blobs', audit')
    BY <1>3, <2>1, SameHeldSound
  <2> QED
    BY <1>2, <1>3, <2>1, <2>2, SameRowsSound, GoesOnSound
<1>6. CASE Unioned(w, t)
  <2> DEFINE r == s.row
             m == Materialized(Flushed(w)[r], presets[r])
  <2>1. /\ rec' = [Flushed(w) EXCEPT ![r] = m]
        /\ t.stage = "item" /\ t.pend = NothingPending /\ t.seen = None
    BY <1>6 DEF Unioned, Skipped
  <2>2. Flushed(w) \in [Records -> Record] /\ presets[r] \in SUBSET Preset
    BY <1>4, FlushedType DEF TypeInv, TypeOK
  <2>3. /\ m.state = Flushed(w)[r].state /\ m.canon.leaf = Flushed(w)[r].canon.leaf
        /\ m.canon.media = Flushed(w)[r].canon.media
    BY <1>4, <2>2, MaterializedType
  <2> HIDE DEF m, r
  <2>4. \A q \in Records : /\ rec'[q].state = rec[q].state
                           /\ rec'[q].canon.leaf = Flushed(w)[q].canon.leaf
                           /\ rec'[q].canon.media = Flushed(w)[q].canon.media
    BY <2>1, <2>2, <2>3, FlushedState
  <2>5. Kept
    BY <1>3, <2>4 DEF Kept
  <2>6. SoundRows(rec', blobs', audit')
    BY <1>3, <2>4, FlushSound DEF SoundRows, Sound
  <2>7. SoundSession(t, rec', blobs', audit')
    BY <2>1, EmptySound
  <2> QED
    BY <1>2, <2>5, <2>6, <2>7, GoesOnSound
<1> QED
  BY <1>2, <1>5, <1>6

LEMMA StepSound ==
  ASSUME AuditInv, NEW w \in Workers, Step(w)
  PROVE  /\ SoundRows(rec', blobs', audit')
         /\ \A v \in Workers : SoundSession(request'[v], rec', blobs', audit')
<1>1. CASE SkipItem(w)
  <2>1. PICK t \in Request :
          /\ request' = [request EXCEPT ![w] = t] /\ Skipped(request[w], t)
          /\ t.pend = request[w].pend /\ t.seen = request[w].seen
    BY <1>1, SkipItemEffect DEF AuditInv
  <2>2. UNCHANGED <<rec, blobs, audit>> /\ SaneSession(t) /\ t.stage = "item"
        /\ SoundSession(request[w], rec, blobs, audit)
    BY <1>1, <2>1 DEF SkipItem, Skipped, AuditInv
  <2>3. SoundSession(t, rec', blobs', audit')
    BY <2>1, <2>2, SameHeldSound
  <2> QED
    BY <2>1, <2>2, <2>3, SameRowsSound, GoesOnSound
<1>2. CASE FinishBatch(w)
  <2>1. PICK t \in Request :
          /\ request' = [request EXCEPT ![w] = t] /\ SaneSession(t)
          /\ rec' = Flushed(w) /\ t = [Idle EXCEPT !.again = request[w].again]
    BY <1>2, FinishBatchEffect DEF AuditInv
  <2>2. UNCHANGED <<blobs, audit>>
    BY <1>2 DEF FinishBatch
  <2>3. t.stage = "idle" /\ t.seen = None /\ t.pend = NothingPending
    BY <2>1 DEF Idle, NothingPending
  <2>4. SoundSession(t, rec', blobs', audit')
    BY <2>3, EmptySound
  <2> QED
    BY <2>1, <2>2, <2>4, FlushedRowsSound, GoesOnSound
<1>3. CASE CutOff(w)
  <2>1. request' = [request EXCEPT ![w] = Idle] /\ UNCHANGED <<rec, blobs, audit>>
    BY <1>3 DEF CutOff, Continue
  <2>2. Idle.stage = "idle" /\ Idle.seen = None /\ Idle.pend = NothingPending
    BY DEF Idle, NothingPending
  <2>3. SoundSession(Idle, rec', blobs', audit')
    BY <2>2, EmptySound
  <2> QED
    BY <2>1, <2>3, IdleType, SameRowsSound, GoesOnSound
<1>4. CASE FinishContribution(w)
  <2> DEFINE r == request[w].row
             m == Materialized(rec[r], presets[r])
  <2>1. /\ request[w].stage = "door"
        /\ request' = [Disturbed EXCEPT ![w] = Idle]
        /\ rec' = [rec EXCEPT ![r] = m] /\ UNCHANGED <<blobs, audit>>
    BY <1>4 DEF FinishContribution, At
  <2>2. r \in Records /\ rec \in [Records -> Record] /\ presets[r] \in SUBSET Preset
    BY <2>1 DEF AuditInv, TypeInv, TypeOK, SaneSession, Sane
  <2>3. /\ m.state = rec[r].state /\ m.canon.leaf = rec[r].canon.leaf
        /\ m.canon.media = rec[r].canon.media
    BY <2>2, MaterializedType
  <2> HIDE DEF m, r
  <2>4. \A q \in Records : /\ rec'[q].state = rec[q].state
                           /\ rec'[q].canon.leaf = rec[q].canon.leaf
                           /\ rec'[q].canon.media = rec[q].canon.media
    BY <2>1, <2>2, <2>3
  <2>5. Kept
    BY <2>1, <2>4 DEF Kept
  <2>6. SoundRows(rec', blobs', audit')
    BY <2>1, <2>4 DEF AuditInv, SoundRows, Sound
  <2>7. Idle.stage = "idle" /\ Idle.seen = None /\ Idle.pend = NothingPending
    BY DEF Idle, NothingPending
  <2>8. SoundSession(Idle, rec', blobs', audit')
    BY <2>7, EmptySound
  <2>9. /\ request'[w] = Idle
        /\ \A v \in Workers \ {w} : Alike(request[v], request'[v])
    BY <2>1, IdleType, DoorSession DEF AuditInv
  <2> QED
    BY <2>5, <2>6, <2>8, <2>9, AlikeSound, SessionStillSound DEF AuditInv
<1> QED
  BY <1>1, <1>2, <1>3, <1>4, CreatedSound, WroteSound, AssertedSound, ClosedSound,
     ContributedSound, EndedSound DEF Step

\* A door that disturbs the sessions and loses nothing of what stays.
LEMMA DisturbedSound ==
  ASSUME AuditInv, Kept, request' = Disturbed, SoundRows(rec', blobs', audit')
  PROVE  /\ SoundRows(rec', blobs', audit')
         /\ \A v \in Workers : SoundSession(request'[v], rec', blobs', audit')
BY AllSessions, AlikeSound, SessionStillSound DEF AuditInv

\* A door that replaces one row by m.
LEMMA ReplacedSound ==
  ASSUME AuditInv, NEW r \in Records, NEW m, rec' = [rec EXCEPT ![r] = m],
         m.state = rec[r].state \/ rec[r].state # "gone",
         blobs \subseteq blobs', audit \subseteq audit',
         m.state # "gone" => Sound(r, m.canon, blobs', audit')
  PROVE  Kept /\ SoundRows(rec', blobs', audit')
<1>1. \A q \in Records : rec'[q] = IF q = r THEN m ELSE rec[q]
  BY DEF AuditInv, TypeInv, TypeOK
<1>2. Kept
  BY <1>1 DEF Kept
<1>3. ASSUME NEW q \in Records, rec'[q].state # "gone"
      PROVE  Sound(q, rec'[q].canon, blobs', audit')
  BY <1>1, <1>2, <1>3, StillSound DEF AuditInv, SoundRows
<1> QED
  BY <1>2, <1>3 DEF SoundRows

LEMMA DoorSound ==
  ASSUME AuditInv, Door
  PROVE  /\ SoundRows(rec', blobs', audit')
         /\ \A v \in Workers : SoundSession(request'[v], rec', blobs', audit')
<1> DEFINE Goal == /\ SoundRows(rec', blobs', audit')
                   /\ \A v \in Workers : SoundSession(request'[v], rec', blobs', audit')
<1>1. CASE CreateInstance
  <2>1. PICK r \in Records : /\ rec[r] = Unborn /\ rec' = [rec EXCEPT ![r] = New(NoSection)]
                             /\ request' = Disturbed
    BY <1>1 DEF CreateInstance, Write
  <2>2. NoSection \in Section
    BY DEF NoSection, Section
  <2>3. /\ New(NoSection).canon = Blank /\ rec[r].state = "unborn"
    BY <2>1, <2>2, NewType, UnbornType
  <2>4. UNCHANGED <<blobs, audit>>
    BY <1>1 DEF CreateInstance
  <2> QED
    BY <2>1, <2>3, <2>4, BlankSound, ReplacedSound, DisturbedSound
<1>2. ASSUME NEW r \in Records, DeleteInstance(r) PROVE Goal
  <2> DEFINE gone == [Unborn EXCEPT !.state = "gone"]
  <2>1. /\ rec' = [rec EXCEPT ![r] = gone] /\ request' = Disturbed
        /\ audit' = {a \in audit : a[1] # r} /\ blobs' = blobs
    BY <1>2 DEF DeleteInstance, Write
  <2>2. gone.state = "gone"
    BY GoneType
  <2> HIDE DEF gone
  <2>3. \A q \in Records : rec'[q] = IF q = r THEN gone ELSE rec[q]
    BY <2>1 DEF AuditInv, TypeInv, TypeOK
  <2>4. Kept
    BY <2>1, <2>2, <2>3 DEF Kept
  <2>5. SoundRows(rec', blobs', audit')
    BY <2>2, <2>3, <2>4, StillSound DEF AuditInv, SoundRows
  <2> QED
    BY <2>1, <2>4, <2>5, DisturbedSound
<1>3. ASSUME NEW r \in Records, NEW data \in Data, WriteClientSection(r, data) PROVE Goal
  <2>1. request' = Disturbed /\ UNCHANGED <<blobs, audit>> /\ Live(r)
    BY <1>3 DEF WriteClientSection, Write, Grow
  <2>2. PICK m \in Record : /\ rec' = [rec EXCEPT ![r] = m] /\ m.state = rec[r].state
                            /\ m.canon = rec[r].canon
    BY <1>3, SectionWritten DEF AuditInv
  <2>3. Sound(r, m.canon, blobs', audit')
    BY <2>1, <2>2 DEF AuditInv, SoundRows, Live
  <2> QED
    BY <2>1, <2>2, <2>3, ReplacedSound, DisturbedSound
<1>4. ASSUME NEW r \in Records, NEW p \in Paths, NEW v \in Values,
             AssertCanonical(r, p, v) \/ ObserveCanonical(r, p, v)
      PROVE Goal
  <2>1. SetLeaf(r, p, v) /\ UNCHANGED blobs /\ Live(r)
    BY <1>4 DEF AssertCanonical, ObserveCanonical, Grow
  <2>2. request' = Disturbed /\ audit' = audit \cup {<<r, p, v>>}
    BY <2>1 DEF SetLeaf, Write
  <2>3. PICK m \in Record, canon \in Canonical :
           /\ rec' = [rec EXCEPT ![r] = m]
           /\ Rewritten(rec[r], canon, rec[r].version + 1, m)
           /\ canon.media = rec[r].canon.media
           /\ \A q \in Paths : canon.leaf[q] = IF q = p THEN v ELSE rec[r].canon.leaf[q]
    BY <2>1, LeafWritten DEF AuditInv
  <2>4. Sound(r, rec[r].canon, blobs, audit)
    BY <2>1 DEF AuditInv, SoundRows, Live
  <2>5. m.state = rec[r].state /\ Sound(r, m.canon, blobs', audit')
    BY <2>1, <2>2, <2>3, <2>4 DEF Sound, Rewritten
  <2> QED
    BY <2>1, <2>2, <2>3, <2>5, ReplacedSound, DisturbedSound
<1>5. ASSUME NEW r \in Records, NEW p, DeletePreset(r, p) PROVE Goal
  <2> DEFINE m == Materialized(rec[r], presets'[r])
  <2>1. UNCHANGED <<blobs, audit>>
    BY <1>5 DEF DeletePreset
  <2>2. /\ rec' = [rec EXCEPT ![r] = m] /\ request' = Disturbed /\ Live(r)
        /\ m.state = rec[r].state /\ m.canon.leaf = rec[r].canon.leaf
        /\ m.canon.media = rec[r].canon.media
    BY <1>5, PresetDeleted, MaterializedType DEF AuditInv
  <2> HIDE DEF m
  <2>3. Sound(r, m.canon, blobs', audit')
    BY <2>1, <2>2 DEF AuditInv, SoundRows, Live, Sound
  <2> QED
    BY <2>1, <2>2, <2>3, ReplacedSound, DisturbedSound
<1>6. ASSUME NEW r \in Records, NEW b \in Blobs, DeleteMedia(r, b) PROVE Goal
  <2>1. request' = Disturbed /\ UNCHANGED <<blobs, audit>> /\ Live(r)
    BY <1>6 DEF DeleteMedia, Write, BytesAfterDelete
  <2>2. PICK m \in Record, canon \in Canonical :
           /\ rec' = [rec EXCEPT ![r] = m]
           /\ Rewritten(rec[r], canon, rec[r].version + 1, m)
           /\ canon.leaf = rec[r].canon.leaf
           /\ canon.media \subseteq rec[r].canon.media
    BY <1>6, MediaDropped DEF AuditInv
  <2>3. m.state = rec[r].state /\ Sound(r, m.canon, blobs', audit')
    BY <2>1, <2>2 DEF AuditInv, SoundRows, Live, Sound, Rewritten
  <2> QED
    BY <2>1, <2>2, <2>3, ReplacedSound, DisturbedSound
<1> QED
  BY <1>1, <1>2, <1>3, <1>4, <1>5, <1>6 DEF Door

LEMMA NextSound ==
  ASSUME AuditInv, [Next]_vars
  PROVE  AuditInv'
<1>1. TypeInv'
  BY NextTyped DEF AuditInv
<1> DEFINE Goal == /\ SoundRows(rec', blobs', audit')
                   /\ \A v \in Workers : SoundSession(request'[v], rec', blobs', audit')
<1> SUFFICES Goal
  BY <1>1 DEF AuditInv
<1>2. CASE UNCHANGED vars
  BY <1>2 DEF vars, AuditInv
<1>3. CASE Door
  BY <1>3, DoorSound
<1>4. ASSUME NEW w \in Workers, NEW b \in Batches, NEW can,
             can \in BOOLEAN /\ StartBatch(w, b, can)
      PROVE Goal
  <2>1. PICK t \in Request :
          /\ request' = [request EXCEPT ![w] = t] /\ SaneSession(t)
          /\ t.stage = "item" /\ t.seen = rec /\ t.pend = NothingPending
          /\ UNCHANGED <<rec, blobs, audit>>
    BY <1>4, StartBatchEffect DEF AuditInv, Started
  <2>2. \A q \in Records : t.pend[q].canon = None
    BY <2>1 DEF NothingPending, Clean
  <2>3. SoundSession(t, rec', blobs', audit')
    BY <2>1, <2>2 DEF AuditInv, SoundSession, SoundRows
  <2> QED
    BY <2>1, <2>3, SameRowsSound, GoesOnSound
<1>5. ASSUME NEW w \in Workers, NEW r \in Records, StartUpload(w, r) PROVE Goal
  <2>1. PICK t \in Request :
          /\ request' = [request EXCEPT ![w] = t] /\ SaneSession(t)
          /\ t.stage = "upload" /\ t.seen = rec /\ t.pend = NothingPending
          /\ UNCHANGED <<rec, blobs, audit>>
    BY <1>5, StartUploadEffect DEF AuditInv, DoorRequest
  <2>2. \A q \in Records : t.pend[q].canon = None
    BY <2>1 DEF NothingPending, Clean
  <2>3. SoundSession(t, rec', blobs', audit')
    BY <2>1, <2>2 DEF AuditInv, SoundSession, SoundRows
  <2> QED
    BY <2>1, <2>3, SameRowsSound, GoesOnSound
<1>6. ASSUME NEW w \in Workers, NEW r \in Records, NEW e \in PresetEntry,
             StartContribution(w, r, e)
      PROVE Goal
  <2>1. PICK t \in Request :
           /\ request' = [Disturbed EXCEPT ![w] = t] /\ SaneSession(t)
           /\ t.stage = "door" /\ t.seen = None /\ t.pend = NothingPending
           /\ UNCHANGED <<rec, blobs, audit>>
    BY <1>6, StartContributionEffect DEF AuditInv, DoorRequest
  <2>2. SoundSession(t, rec', blobs', audit')
    BY <2>1, EmptySound
  <2>3. request'[w] = t /\ \A v \in Workers \ {w} : Alike(request[v], request'[v])
    BY <2>1, DoorSession DEF AuditInv
  <2> QED
    BY <2>1, <2>2, <2>3, SameRowsSound, AlikeSound, SessionStillSound DEF AuditInv
<1>7. ASSUME NEW w \in Workers, NEW b \in Blobs, FinishUpload(w, b) PROVE Goal
  <2> DEFINE r == request[w].row
             seen == request[w].seen[r]
  <2>1. /\ request' = [Disturbed EXCEPT ![w] = Idle] /\ blobs' = blobs \cup {b}
        /\ UNCHANGED audit /\ r \in Records /\ request[w].seen \in [Records -> Record]
        /\ Uploaded(w, b) \/ UNCHANGED rec
    BY <1>7, FinishUploadEffect DEF AuditInv
  <2>2. Kept /\ SoundRows(rec', blobs', audit')
    <3>1. CASE UNCHANGED rec
      BY <2>1, <3>1 DEF AuditInv, Kept, SoundRows, Sound
    <3>2. CASE Uploaded(w, b)
      <4>1. PICK m \in Record, canon \in Canonical :
              /\ Live(r) /\ rec' = [rec EXCEPT ![r] = m]
              /\ m.state = rec[r].state /\ m.canon = canon
              /\ canon.leaf = seen.canon.leaf
              /\ canon.media = seen.canon.media \cup {b}
        BY <3>2 DEF Uploaded
      <4>2. Sound(r, seen.canon, blobs, audit)
        BY <1>7, <2>1, <4>1 DEF AuditInv, SoundSession, Live, FinishUpload, At
      <4>3. Sound(r, m.canon, blobs', audit')
        BY <2>1, <4>1, <4>2 DEF Sound
      <4> QED
        BY <2>1, <4>1, <4>3, ReplacedSound
    <3> QED
      BY <2>1, <3>1, <3>2
  <2>3. Idle.stage = "idle" /\ Idle.seen = None /\ Idle.pend = NothingPending
    BY DEF Idle, NothingPending
  <2>4. SoundSession(Idle, rec', blobs', audit')
    BY <2>3, EmptySound
  <2>5. /\ request'[w] = Idle
        /\ \A v \in Workers \ {w} : Alike(request[v], request'[v])
    BY <2>1, IdleType, DoorSession DEF AuditInv
  <2> QED
    BY <2>2, <2>4, <2>5, AlikeSound, SessionStillSound DEF AuditInv
<1>8. ASSUME NEW w \in Workers, Step(w) PROVE Goal
  BY <1>8, StepSound
<1> QED
  BY <1>2, <1>3, <1>4, <1>5, <1>6, <1>7, <1>8 DEF Next

LEMMA AlwaysSound == Spec => []AuditInv
<1>1. Init => AuditInv
  <2> SUFFICES ASSUME Init PROVE AuditInv
    OBVIOUS
  <2>1. SoundRows(rec, blobs, audit)
    BY UnbornType, BlankSound DEF Init, SoundRows
  <2>2. Idle.stage = "idle" /\ Idle.seen = None /\ Idle.pend = NothingPending
    BY DEF Idle, NothingPending
  <2>3. \A w \in Workers : SoundSession(request[w], rec, blobs, audit)
    BY <2>2, EmptySound DEF Init
  <2> QED
    BY <2>1, <2>3, InitTyped DEF AuditInv
<1>2. AuditInv /\ [Next]_vars => AuditInv'
  BY NextSound
<1> QED
  BY <1>1, <1>2, PTL DEF Spec

\* No leaf is on a record without its committed audit row, however many batches
\* and doors run at a time, from whatever stale copy it was written, and
\* wherever a batch was cut.
THEOREM LeavesAreAudited == Spec => []AuditedCanon
<1>1. AuditInv => AuditedCanon
  BY DEF AuditInv, SoundRows, Sound, AuditedCanon, Live
<1> QED
  BY <1>1, AlwaysSound, PTL

\* No media reference outlives its bytes, not even one that comes back from a
\* stale copy of a document.
THEOREM BytesStay == Spec => []MediaHasBytes
<1>1. AuditInv => MediaHasBytes
  BY DEF AuditInv, SoundRows, Sound, MediaHasBytes, Live
<1> QED
  BY <1>1, AlwaysSound, PTL

-----------------------------------------------------------------------------
(* Versions. *)

\* Between the two rows of a record: its canonical changed, so its version grew.
Versioned(row, new) == new.canon # row.canon => new.version > row.version

\* What a flush overwrites apart, a canonical is flushed with its version.
LEMMA FlushVersioned ==
  ASSUME TypeInv, NEW w \in Workers, NEW r \in Records
  PROVE  /\ Flushed(w)[r] \in Record /\ rec[r] \in Record
         /\ Versioned(rec[r], Flushed(w)[r]) \/ r \in Overwritten(w)
<1> DEFINE p == request[w].pend[r]
<1>1. p \in Pending /\ rec[r] \in Record /\ Waiting(p)
  BY SessionType DEF TypeInv, TypeOK, Request, SaneSession
<1>2. Flushed(w)[r] = Overlay(rec[r], p)
  BY FlushedType
<1>3. r \notin Overwritten(w) => ~(p.version # None /\ rec[r].version + 1 # p.version)
  BY DEF Overwritten
<1> HIDE DEF p
<1>4. /\ Flushed(w)[r] \in Record
      /\ Flushed(w)[r].canon = IF p.canon = None THEN rec[r].canon ELSE p.canon
      /\ Flushed(w)[r].version = IF p.version = None THEN rec[r].version ELSE p.version
  BY <1>1, <1>2, OverlayType
<1>5. rec[r].version \in Nat
  BY <1>1 DEF Record
<1> QED
  BY <1>1, <1>3, <1>4, <1>5 DEF Versioned, Waiting

LEMMA StepVersioned ==
  ASSUME TypeInv, NEW w \in Workers, Step(w), NEW r \in Records, Live(r)
  PROVE  Versioned(rec[r], rec'[r]) \/ r \in torn'
<1>1. CASE rec' = Flushed(w) /\ torn' = torn \cup Overwritten(w)
  BY <1>1, FlushVersioned
<1>2. CASE rec' = rec
  BY <1>2 DEF Versioned
<1>3. CASE CreateItem(w)
  <2>1. PICK q \in Records, t \in Request, section \in Section : Created(w, q, section, t)
    BY <1>3, CreateItemEffect
  <2>2. /\ rec[q] = Unborn /\ rec' = [Flushed(w) EXCEPT ![q] = New(section)]
        /\ torn' = torn \cup Overwritten(w)
    BY <2>1 DEF Created
  <2>3. r # q
    BY <2>2, UnbornType DEF Live
  <2>4. rec'[r] = Flushed(w)[r]
    BY <2>2, <2>3, FlushedType
  <2> QED
    BY <2>2, <2>4, FlushVersioned
<1>4. CASE WriteSection(w)
  <2>1. PICK q \in Records, t \in Request, section \in Section : Wrote(w, q, section, t)
    BY <1>4, WriteSectionEffect
  <2>2. \/ UNCHANGED rec
        \/ /\ rec' = [Flushed(w) EXCEPT ![q].section = section]
           /\ torn' = torn \cup Overwritten(w)
    BY <2>1 DEF Wrote
  <2>3. Flushed(w) \in [Records -> Record]
    BY FlushedType
  <2>4. CASE /\ rec' = [Flushed(w) EXCEPT ![q].section = section]
             /\ torn' = torn \cup Overwritten(w)
    <3>1. rec'[r].canon = Flushed(w)[r].canon /\ rec'[r].version = Flushed(w)[r].version
      BY <2>3, <2>4 DEF Record
    <3> QED
      BY <2>4, <3>1, FlushVersioned DEF Versioned
  <2> QED
    BY <1>2, <2>2, <2>4
<1>5. CASE CloseItem(w)
  <2>1. PICK t \in Request : Unioned(w, t) \/ Ended(w, t)
    BY <1>5, CloseItemEffect
  <2>2. CASE Unioned(w, t)
    <3> DEFINE q == request[w].row
    <3>1. /\ request[w].contributed
          /\ rec' = [Flushed(w) EXCEPT ![q] = Materialized(@, presets[q])]
          /\ torn' = (torn \cup Overwritten(w)) \ {q}
      BY <2>2 DEF Unioned
    <3>2. q \in Records /\ request[w].pend = NothingPending
      BY <3>1, SessionType DEF SaneSession, Sane
    <3>3. rec \in [Records -> Record] /\ presets[q] \in SUBSET Preset
          /\ Flushed(w) \in [Records -> Record]
      BY <3>2, FlushedType DEF TypeInv, TypeOK
    <3>4. Flushed(w)[q].version = rec[q].version
      <4>1. Flushed(w)[q] = Overlay(rec[q], Clean)
        BY <3>2, FlushedType DEF NothingPending
      <4>2. Clean.version = None /\ Clean \in Pending
        BY CleanType DEF Clean
      <4> HIDE DEF q
      <4> QED
        BY <3>2, <3>3, <4>1, <4>2, OverlayType
    <3>5. CASE r = q
      <4>1. Materialized(Flushed(w)[q], presets[q]).version = Flushed(w)[q].version + 1
        BY <3>2, <3>3, MaterializedType
      <4>2. rec'[r].version = rec[r].version + 1
        BY <3>1, <3>2, <3>3, <3>4, <3>5, <4>1
      <4>3. rec[r].version \in Nat
        BY <3>3 DEF Record
      <4> QED
        BY <4>2, <4>3 DEF Versioned
    <3>6. CASE r # q
      BY <3>1, <3>3, <3>6, FlushVersioned
    <3> QED
      BY <3>5, <3>6
  <2> QED
    BY <1>2, <2>1, <2>2 DEF Ended
<1>6. CASE FinishContribution(w)
  <2> DEFINE q == request[w].row
  <2>1. /\ request[w].stage = "door"
        /\ rec' = [rec EXCEPT ![q] = Materialized(rec[q], presets[q])]
    BY <1>6 DEF FinishContribution, At
  <2>2. q \in Records /\ rec \in [Records -> Record] /\ presets[q] \in SUBSET Preset
    BY <2>1 DEF TypeInv, TypeOK, SaneSession, Sane
  <2>3. Materialized(rec[q], presets[q]).version = rec[q].version + 1
    BY <2>2, MaterializedType
  <2>4. rec[q].version \in Nat
    BY <2>2 DEF Record
  <2> HIDE DEF q
  <2>5. rec'[r] = IF r = q THEN Materialized(rec[q], presets[q]) ELSE rec[r]
    BY <2>1, <2>2
  <2> QED
    BY <2>3, <2>4, <2>5 DEF Versioned
<1>7. CASE AssertOne(w)
  BY <1>1, <1>2, <1>7, AssertOneEffect DEF Refused, Repeated, Asserted
<1>8. CASE Contribute(w)
  BY <1>1, <1>2, <1>8, ContributeEffect DEF BelowFloor, Contributed
<1>9. CASE FinishBatch(w)
  BY <1>1, <1>9, FinishBatchEffect
<1>10. CASE SkipItem(w) \/ CloseAsserts(w) \/ CutOff(w)
  BY <1>2, <1>10 DEF SkipItem, CloseAsserts, CutOff
<1> QED
  BY <1>3, <1>4, <1>5, <1>6, <1>7, <1>8, <1>9, <1>10 DEF Step

\* A door that replaces one row by one with the next version.
LEMMA BumpedVersioned ==
  ASSUME TypeInv, NEW q \in Records, NEW m, rec' = [rec EXCEPT ![q] = m],
         m.version = rec[q].version + 1 \/ m.canon = rec[q].canon, NEW r \in Records
  PROVE  Versioned(rec[r], rec'[r])
<1>1. rec \in [Records -> Record] /\ rec[r].version \in Nat
  BY DEF TypeInv, TypeOK, Record
<1> QED
  BY <1>1 DEF Versioned

LEMMA DoorVersioned ==
  ASSUME TypeInv, Door, NEW r \in Records, Live(r), Live(r)'
  PROVE  Versioned(rec[r], rec'[r]) \/ r \in torn'
<1>1. CASE CreateInstance
  <2>1. PICK q \in Records : rec[q] = Unborn /\ rec' = [rec EXCEPT ![q] = New(NoSection)]
    BY <1>1 DEF CreateInstance, Write
  <2>2. rec'[r] = rec[r]
    BY <2>1, UnbornType DEF TypeInv, TypeOK, Live
  <2> QED
    BY <2>2 DEF Versioned
<1>2. ASSUME NEW q \in Records, DeleteInstance(q) PROVE Versioned(rec[r], rec'[r])
  <2> DEFINE gone == [Unborn EXCEPT !.state = "gone"]
  <2>1. rec' = [rec EXCEPT ![q] = gone] /\ gone.state = "gone"
    BY <1>2, GoneType DEF DeleteInstance, Write
  <2> HIDE DEF gone
  <2>2. rec'[r] = rec[r]
    BY <2>1 DEF TypeInv, TypeOK, Live
  <2> QED
    BY <2>2 DEF Versioned
<1>3. ASSUME NEW q \in Records, NEW data \in Data, WriteClientSection(q, data)
      PROVE  Versioned(rec[r], rec'[r])
  BY <1>3, SectionWritten, BumpedVersioned
<1>4. ASSUME NEW q \in Records, NEW p \in Paths, NEW v \in Values,
             AssertCanonical(q, p, v) \/ ObserveCanonical(q, p, v)
      PROVE  Versioned(rec[r], rec'[r])
  <2>1. SetLeaf(q, p, v)
    BY <1>4 DEF AssertCanonical, ObserveCanonical
  <2>2. PICK m \in Record, canon \in Canonical :
           /\ rec' = [rec EXCEPT ![q] = m]
           /\ Rewritten(rec[q], canon, rec[q].version + 1, m)
    BY <2>1, LeafWritten
  <2> QED
    BY <2>2, BumpedVersioned DEF Rewritten
<1>5. ASSUME NEW q \in Records, NEW p, DeletePreset(q, p) PROVE Versioned(rec[r], rec'[r])
  BY <1>5, PresetDeleted, MaterializedType, BumpedVersioned
<1>6. ASSUME NEW q \in Records, NEW b \in Blobs, DeleteMedia(q, b)
      PROVE  Versioned(rec[r], rec'[r])
  <2>1. PICK m \in Record, canon \in Canonical :
           /\ rec' = [rec EXCEPT ![q] = m]
           /\ Rewritten(rec[q], canon, rec[q].version + 1, m)
    BY <1>6, MediaDropped
  <2> QED
    BY <2>1, BumpedVersioned DEF Rewritten
<1> QED
  BY <1>1, <1>2, <1>3, <1>4, <1>5, <1>6 DEF Door

\* No canonical changes without its version, from any door and in any commit of a
\* batch, unless the commit overwrites what it never saw: then the record is torn.
THEOREM VersionsFollow == Spec => VersionFollowsCanonical
<1>1. ASSUME TypeInv, [Next]_vars, NEW r \in Records, Live(r), Live(r)'
      PROVE  Versioned(rec[r], rec'[r]) \/ r \in torn'
  <2>1. CASE rec' = rec
    BY <2>1 DEF Versioned
  <2>2. CASE Door
    BY <1>1, <2>2, DoorVersioned
  <2>3. ASSUME NEW w \in Workers, Step(w)
        PROVE  Versioned(rec[r], rec'[r]) \/ r \in torn'
    BY <1>1, <2>3, StepVersioned
  <2>4. ASSUME NEW w \in Workers, NEW b \in Blobs, FinishUpload(w, b)
        PROVE  Versioned(rec[r], rec'[r]) \/ r \in torn'
    <3> DEFINE q == request[w].row
               seen == request[w].seen[q]
    <3>1. /\ Uploaded(w, b) \/ UNCHANGED rec
          /\ q \in Records /\ request[w].seen \in [Records -> Record]
      BY <1>1, <2>4, FinishUploadEffect
    <3>2. CASE Uploaded(w, b)
      <4>1. PICK m \in Record :
              /\ rec' = [rec EXCEPT ![q] = m] /\ m.version = seen.version + 1
              /\ torn' = IF rec[q] = seen THEN torn ELSE torn \cup {q}
        BY <3>2 DEF Uploaded
      <4>2. CASE rec[q] = seen
        BY <1>1, <3>1, <4>1, <4>2, BumpedVersioned
      <4>3. CASE rec[q] # seen
        <5>1. r # q => rec'[r] = rec[r]
          BY <1>1, <4>1 DEF TypeInv, TypeOK
        <5> QED
          BY <4>1, <4>3, <5>1 DEF Versioned
      <4> QED
        BY <4>2, <4>3
    <3> QED
      BY <2>1, <3>1, <3>2
  <2>5. CASE \E w \in Workers :
               \/ \E b \in Batches, can \in BOOLEAN : StartBatch(w, b, can)
               \/ \E q \in Records : \/ StartUpload(w, q)
                                     \/ \E e \in PresetEntry : StartContribution(w, q, e)
    BY <2>1, <2>5 DEF StartBatch, StartUpload, StartContribution
  <2>6. CASE UNCHANGED vars
    BY <2>1, <2>6 DEF vars
  <2> QED
    BY <1>1, <2>2, <2>3, <2>4, <2>5, <2>6 DEF Next
<1>2. TypeInv /\ [Next]_vars =>
        [\A r \in Records :
           Live(r) /\ Live(r)' /\ rec'[r].canon # rec[r].canon
             => rec'[r].version > rec[r].version \/ r \in torn']_vars
  BY <1>1 DEF Versioned
<1> QED
  BY <1>2, AlwaysTyped, PTL DEF Spec, VersionFollowsCanonical

-----------------------------------------------------------------------------
(* Lanes. *)

InBatch == {"item", "assert", "preset"}

\* Only a batch has a body, and a batch without the assert door holds no assert,
\* no preset and no canonical to flush.
InLane(s) ==
  /\ s.batch # None => s.stage \in InBatch
  /\ s.stage \in InBatch /\ ~s.can =>
       /\ s.asserts = <<>> /\ s.presets = <<>> /\ ~s.applied /\ ~s.contributed
       /\ \A r \in Records : s.pend[r].canon = None

LaneInv == TypeInv /\ \A w \in Workers : InLane(request[w])

LEMMA IdleInLane == InLane(Idle)
BY DEF Idle, InLane, InBatch

\* What a session goes on with when it writes nothing but its section.
LEMMA SkippedInLane ==
  ASSUME NEW s, NEW t, InLane(s), s.stage \in InBatch, Skipped(s, t),
         \A r \in Records : t.pend[r].canon = None \/ t.pend[r].canon = s.pend[r].canon
  PROVE  InLane(t)
BY DEF InLane, Skipped, Onward, InBatch

\* The next session of the worker that steps, and what it does to the canonicals.
LEMMA StepInLane ==
  ASSUME LaneInv, NEW w \in Workers, Step(w)
  PROVE  InLane(request'[w])
<1> DEFINE s == request[w]
<1>0. TypeInv /\ InLane(s) /\ s \in Request /\ SaneSession(s)
  BY SessionType DEF LaneInv
<1>i. \A r \in Records : NothingPending[r].canon = None
  BY DEF NothingPending, Clean
<1>1. CASE SkipItem(w)
  <2>1. PICK t \in Request :
          /\ request' = [request EXCEPT ![w] = t] /\ Skipped(s, t)
          /\ t.pend = s.pend
    BY <1>0, <1>1, SkipItemEffect
  <2>2. s.stage \in InBatch
    BY <1>1 DEF SkipItem, At, InBatch
  <2>3. request'[w] = t
    BY <1>0, <2>1, OneSession DEF Skipped
  <2> HIDE DEF s
  <2> QED
    BY <1>0, <2>1, <2>2, <2>3, SkippedInLane
<1>2. CASE CreateItem(w)
  <2>1. PICK r \in Records, t \in Request, section \in Section : Created(w, r, section, t)
    BY <1>0, <1>2, CreateItemEffect
  <2>2. /\ request' = [request EXCEPT ![w] = t] /\ SaneSession(t) /\ Onward(s, t)
        /\ s.can /\ t.stage = "assert"
    BY <2>1 DEF Created
  <2>3. request'[w] = t
    BY <1>0, <2>2, OneSession
  <2> HIDE DEF s
  <2> QED
    BY <2>2, <2>3 DEF InLane, Onward, InBatch
<1>3. CASE WriteSection(w)
  <2>1. PICK r \in Records, t \in Request, section \in Section : Wrote(w, r, section, t)
    BY <1>0, <1>3, WriteSectionEffect
  <2>2. /\ request' = [request EXCEPT ![w] = t] /\ SaneSession(t) /\ Onward(s, t)
        /\ s.stage = "item" /\ t.stage = "assert" /\ ~t.contributed /\ t.applied = s.applied
        /\ ~s.can => t.asserts = <<>> /\ t.presets = <<>>
        /\ \/ t.pend = NothingPending \/ t.pend = s.pend
           \/ t.pend = [s.pend EXCEPT ![r].section = section]
    BY <2>1 DEF Wrote
  <2>3. request'[w] = t
    BY <1>0, <2>2, OneSession
  <2>4. s.pend \in [Records -> Pending]
    BY <1>0 DEF Request
  <2> HIDE DEF s
  <2>5. \A q \in Records : t.pend[q].canon = None \/ t.pend[q].canon = s.pend[q].canon
    BY <1>i, <2>2, <2>4 DEF Pending
  <2> QED
    BY <1>0, <2>2, <2>3, <2>5 DEF InLane, Onward, InBatch
<1>4. CASE AssertOne(w)
  <2>1. PICK t \in Request :
          /\ request' = [request EXCEPT ![w] = t] /\ SaneSession(t)
          /\ Refused(w, t) \/ Repeated(w, t) \/ Asserted(w, t)
    BY <1>0, <1>4, AssertOneEffect
  <2>2. s.stage = "assert" /\ s.asserts # <<>> /\ request'[w] = t
    BY <1>0, <1>4, <2>1, OneSession DEF AssertOne, At
  <2>3. s.can
    BY <1>0, <2>2 DEF InLane, InBatch
  <2>4. t.can = s.can /\ t.stage \in InBatch
    BY <2>1 DEF Refused, Repeated, Asserted, SameItem, Skipped, Onward, InBatch
  <2> HIDE DEF s
  <2> QED
    BY <2>2, <2>3, <2>4 DEF InLane
<1>5. CASE CloseAsserts(w)
  <2>1. PICK t \in Request :
          /\ request' = [request EXCEPT ![w] = t] /\ SaneSession(t) /\ Closed(w, t)
    BY <1>0, <1>5, CloseAssertsEffect
  <2>2. /\ s.stage = "assert" /\ s.asserts = <<>> /\ request'[w] = t
        /\ SameItem(s, t) /\ t.stage = "preset" /\ t.presets = s.presets
        /\ t.asserts = <<>> /\ ~t.contributed /\ t.applied = s.applied
        /\ \A r \in Records \ {s.row} : t.pend[r] = s.pend[r]
        /\ ~s.applied => t.pend[s.row].canon = s.pend[s.row].canon
    BY <1>0, <2>1, OneSession DEF Closed, SameItem
  <2> HIDE DEF s
  <2>3. ~s.applied => \A r \in Records : t.pend[r].canon = s.pend[r].canon
    BY <2>2
  <2> QED
    BY <1>0, <2>2, <2>3 DEF InLane, InBatch, SameItem, Onward
<1>6. CASE Contribute(w)
  <2>1. PICK t \in Request :
          /\ request' = [request EXCEPT ![w] = t] /\ SaneSession(t)
          /\ BelowFloor(w, t) \/ Contributed(w, t)
    BY <1>0, <1>6, ContributeEffect
  <2>2. s.stage = "preset" /\ s.presets # <<>> /\ request'[w] = t
    BY <1>0, <1>6, <2>1, OneSession DEF Contribute, At
  <2>3. s.can
    BY <1>0, <2>2 DEF InLane, InBatch
  <2>4. t.can = s.can /\ t.stage \in InBatch
    BY <2>1 DEF BelowFloor, Contributed, SameItem, Onward, InBatch
  <2> HIDE DEF s
  <2> QED
    BY <2>2, <2>3, <2>4 DEF InLane
<1>7. CASE CloseItem(w)
  <2>1. PICK t \in Request :
          /\ request' = [request EXCEPT ![w] = t] /\ SaneSession(t)
          /\ Unioned(w, t) \/ Ended(w, t)
    BY <1>0, <1>7, CloseItemEffect
  <2>2. /\ s.stage \in InBatch /\ request'[w] = t /\ Skipped(s, t)
        /\ t.pend = NothingPending \/ t.pend = s.pend
    BY <1>0, <1>7, <2>1, OneSession DEF CloseItem, At, InBatch, Unioned, Ended
  <2> HIDE DEF s
  <2>3. \A r \in Records : t.pend[r].canon = None \/ t.pend[r].canon = s.pend[r].canon
    BY <1>i, <2>2
  <2> QED
    BY <1>0, <2>2, <2>3, SkippedInLane
<1>8. CASE FinishBatch(w)
  <2>1. PICK t \in Request :
          /\ request' = [request EXCEPT ![w] = t] /\ SaneSession(t)
          /\ t = [Idle EXCEPT !.again = s.again]
    BY <1>0, <1>8, FinishBatchEffect
  <2>2. request'[w] = t
    BY <1>0, <2>1, OneSession
  <2>3. t.stage = "idle" /\ t.batch = None
    BY <2>1 DEF Idle
  <2> QED
    BY <2>2, <2>3 DEF InLane, InBatch
<1>9. CASE CutOff(w)
  <2>1. request'[w] = Idle
    BY <1>0, <1>9, IdleType, OneSession DEF CutOff, Continue
  <2> QED
    BY <2>1, IdleInLane
<1>10. CASE FinishContribution(w)
  <2>1. request'[w] = Idle
    BY <1>0, <1>10, IdleType, DoorSession DEF FinishContribution
  <2> QED
    BY <2>1, IdleInLane
<1> QED
  BY <1>1, <1>2, <1>3, <1>4, <1>5, <1>6, <1>7, <1>8, <1>9, <1>10 DEF Step

LEMMA AlikeInLane ==
  ASSUME NEW s, NEW t, Alike(s, t), InLane(s)
  PROVE  InLane(t)
BY DEF Alike, InLane

LEMMA AlikeItself ==
  ASSUME TypeInv, NEW v \in Workers
  PROVE  Alike(request[v], request[v])
BY SessionType DEF Alike

\* A step of one session leaves the others alone, but for their history.
Others(w) == \A v \in Workers \ {w} : Alike(request[v], request'[v])

LEMMA OneOther ==
  ASSUME TypeInv, NEW w \in Workers, NEW t \in Request, SaneSession(t),
         request' = [request EXCEPT ![w] = t]
  PROVE  Others(w)
BY OneSession, AlikeItself DEF Others

LEMMA StepOthers ==
  ASSUME TypeInv, NEW w \in Workers, Step(w)
  PROVE  Others(w)
<1>1. CASE SkipItem(w)
  BY <1>1, OneOther, SkipItemEffect DEF Skipped
<1>2. CASE CreateItem(w)
  BY <1>2, OneOther, CreateItemEffect DEF Created
<1>3. CASE WriteSection(w)
  BY <1>3, OneOther, WriteSectionEffect DEF Wrote
<1>4. CASE AssertOne(w)
  BY <1>4, OneOther, AssertOneEffect
<1>5. CASE CloseAsserts(w)
  BY <1>5, OneOther, CloseAssertsEffect
<1>6. CASE Contribute(w)
  BY <1>6, OneOther, ContributeEffect
<1>7. CASE CloseItem(w)
  BY <1>7, OneOther, CloseItemEffect
<1>8. CASE FinishBatch(w)
  BY <1>8, OneOther, FinishBatchEffect
<1>9. CASE CutOff(w)
  BY <1>9, OneOther, IdleType DEF CutOff, Continue
<1>10. CASE FinishContribution(w)
  BY <1>10, IdleType, DoorSession DEF FinishContribution, Others
<1> QED
  BY <1>1, <1>2, <1>3, <1>4, <1>5, <1>6, <1>7, <1>8, <1>9, <1>10 DEF Step

LEMMA DoorOthers ==
  ASSUME TypeInv, Door
  PROVE  \A v \in Workers : Alike(request[v], request'[v])
<1>1. request' = Disturbed
  <2>1. CASE CreateInstance
    BY <2>1 DEF CreateInstance, Write
  <2>2. ASSUME NEW r, DeleteInstance(r) PROVE request' = Disturbed
    BY <2>2 DEF DeleteInstance, Write
  <2>3. ASSUME NEW r, NEW data, WriteClientSection(r, data) PROVE request' = Disturbed
    BY <2>3 DEF WriteClientSection, Write
  <2>4. ASSUME NEW r, NEW p, NEW v, AssertCanonical(r, p, v) \/ ObserveCanonical(r, p, v)
        PROVE  request' = Disturbed
    BY <2>4 DEF AssertCanonical, ObserveCanonical, SetLeaf, Write
  <2>5. ASSUME NEW r, NEW p, DeletePreset(r, p) PROVE request' = Disturbed
    BY <2>5 DEF DeletePreset, Write
  <2>6. ASSUME NEW r, NEW b, DeleteMedia(r, b) PROVE request' = Disturbed
    BY <2>6 DEF DeleteMedia, Write
  <2> QED
    BY <2>1, <2>2, <2>3, <2>4, <2>5, <2>6 DEF Door
<1> QED
  BY <1>1, AllSessions

LEMMA NextInLane ==
  ASSUME LaneInv, [Next]_vars
  PROVE  LaneInv'
<1>0. TypeInv /\ TypeInv'
  BY NextTyped DEF LaneInv
<1> DEFINE Goal == \A v \in Workers : InLane(request'[v])
<1> SUFFICES Goal
  BY <1>0 DEF LaneInv
<1>1. CASE UNCHANGED vars
  BY <1>0, <1>1 DEF LaneInv, vars
<1>2. CASE Door
  BY <1>0, <1>2, DoorOthers, AlikeInLane DEF LaneInv
<1>3. ASSUME NEW w \in Workers, Step(w) PROVE Goal
  BY <1>0, <1>3, StepInLane, StepOthers, AlikeInLane DEF LaneInv, Others
<1>4. ASSUME NEW w \in Workers, NEW b \in Batches, NEW can,
             can \in BOOLEAN /\ StartBatch(w, b, can)
      PROVE Goal
  <2>1. PICK t \in Request : Started(w, b, can, t)
    BY <1>0, <1>4, StartBatchEffect
  <2>2. InLane(t)
    BY <2>1 DEF Started, InLane, InBatch, NothingPending, Clean
  <2> QED
    BY <1>0, <2>1, <2>2, OneSession DEF LaneInv, Started
<1>5. ASSUME NEW w \in Workers, NEW r \in Records, StartUpload(w, r) PROVE Goal
  <2>1. PICK t \in Request :
          /\ request' = [request EXCEPT ![w] = t] /\ SaneSession(t)
          /\ t.stage = "upload" /\ t.batch = None
    BY <1>0, <1>5, StartUploadEffect DEF DoorRequest
  <2>2. InLane(t)
    BY <2>1 DEF InLane, InBatch
  <2> QED
    BY <1>0, <2>1, <2>2, OneSession DEF LaneInv
<1>6. ASSUME NEW w \in Workers, NEW r \in Records, NEW e \in PresetEntry,
             StartContribution(w, r, e)
      PROVE Goal
  <2>1. PICK t \in Request :
          /\ request' = [Disturbed EXCEPT ![w] = t] /\ SaneSession(t)
          /\ t.stage = "door" /\ t.batch = None
    BY <1>0, <1>6, StartContributionEffect DEF DoorRequest
  <2>2. InLane(t)
    BY <2>1 DEF InLane, InBatch
  <2>3. request'[w] = t /\ \A v \in Workers \ {w} : Alike(request[v], request'[v])
    BY <1>0, <2>1, DoorSession
  <2> QED
    BY <2>2, <2>3, AlikeInLane DEF LaneInv
<1>7. ASSUME NEW w \in Workers, NEW b \in Blobs, FinishUpload(w, b) PROVE Goal
  <2>1. request' = [Disturbed EXCEPT ![w] = Idle]
    BY <1>7 DEF FinishUpload
  <2>2. request'[w] = Idle /\ \A v \in Workers \ {w} : Alike(request[v], request'[v])
    BY <1>0, <2>1, IdleType, DoorSession
  <2> QED
    BY <2>2, IdleInLane, AlikeInLane DEF LaneInv
<1> QED
  BY <1>1, <1>2, <1>3, <1>4, <1>5, <1>6, <1>7 DEF Next

\* A step of a batch without the assert door leaves every canonical as it is.
LEMMA StepKeepsCanon ==
  ASSUME LaneInv, NEW w \in Workers, Step(w), request[w].batch # None, ~request[w].can,
         NEW r \in Records
  PROVE  rec'[r].canon = rec[r].canon
<1> DEFINE s == request[w]
<1>0. /\ TypeInv /\ s.asserts = <<>> /\ s.presets = <<>> /\ ~s.contributed
      /\ s.stage \in InBatch /\ \A q \in Records : s.pend[q].canon = None
  BY DEF LaneInv, InLane
<1>1. /\ Flushed(w) \in [Records -> Record] /\ rec \in [Records -> Record]
      /\ Flushed(w)[r].canon = rec[r].canon
  <2>1. s.pend \in [Records -> Pending] /\ rec \in [Records -> Record]
    BY <1>0 DEF TypeInv, TypeOK, Request
  <2>2. Flushed(w) \in [Records -> Record] /\ Flushed(w)[r] = Overlay(rec[r], s.pend[r])
    BY <1>0, FlushedType
  <2> HIDE DEF s
  <2>3. rec[r] \in Record /\ s.pend[r] \in Pending /\ s.pend[r].canon = None
    BY <1>0, <2>1
  <2>4. Overlay(rec[r], s.pend[r]).canon = rec[r].canon
    BY <2>3, OverlayType
  <2> QED
    BY <2>1, <2>2, <2>4
<1>2. CASE WriteSection(w)
  <2>1. PICK q \in Records, t \in Request, section \in Section : Wrote(w, q, section, t)
    BY <1>0, <1>2, WriteSectionEffect
  <2>2. rec' = rec \/ rec' = [Flushed(w) EXCEPT ![q].section = section]
    BY <2>1 DEF Wrote
  <2> QED
    BY <1>1, <2>2 DEF Record
<1>3. CASE CreateItem(w)
  BY <1>3 DEF CreateItem, MayCreate
<1>4. CASE CloseItem(w)
  BY <1>0, <1>4 DEF CloseItem
<1>5. CASE FinishBatch(w)
  BY <1>0, <1>1, <1>5, FinishBatchEffect
<1>6. CASE AssertOne(w) \/ Contribute(w) \/ FinishContribution(w)
  BY <1>0, <1>6 DEF AssertOne, Contribute, FinishContribution, At, InBatch
<1>7. CASE SkipItem(w) \/ CloseAsserts(w) \/ CutOff(w)
  BY <1>7 DEF SkipItem, CloseAsserts, CutOff
<1> QED
  BY <1>2, <1>3, <1>4, <1>5, <1>6, <1>7 DEF Step

\* No commit of a batch without the assert door changes any canonical, its own
\* records' or others', also not one left over from an earlier item.
THEOREM LanesHold == Spec => LaneDiscipline
<1>1. Init => LaneInv
  BY InitTyped, IdleInLane DEF Init, LaneInv
<1>2. LaneInv /\ [Next]_vars => LaneInv'
  BY NextInLane
<1>3. LaneInv /\ [Next]_vars =>
        [\A w \in Workers :
           Step(w) /\ request[w].batch # None /\ ~request[w].can
             => \A r \in Records : rec'[r].canon = rec[r].canon]_vars
  BY StepKeepsCanon
<1> QED
  BY <1>1, <1>2, <1>3, PTL DEF Spec, LaneDiscipline

-----------------------------------------------------------------------------
(* Records that no session knows, because they do not exist yet. *)

Ignores(s, r) ==
  /\ r \notin s.known /\ \A i \in ItemIds : r \notin s.index[i]
  /\ s.stage \notin {"idle", "item"} => s.row # r

BornInv ==
  /\ TypeInv
  /\ \A r \in Records : rec[r].state = "unborn" =>
       presets[r] = {} /\ \A w \in Workers : Ignores(request[w], r)

LEMMA AlikeIgnores ==
  ASSUME NEW s, NEW t, Alike(s, t), NEW r, Ignores(s, r)
  PROVE  Ignores(t, r)
BY DEF Alike, Ignores

LEMMA IdleIgnores == \A r : Ignores(Idle, r)
BY DEF Idle, Ignores

LEMMA SkippedIgnores ==
  ASSUME NEW s, NEW t, Skipped(s, t), NEW r, Ignores(s, r)
  PROVE  Ignores(t, r)
BY DEF Skipped, Ignores

LEMMA SameItemIgnores ==
  ASSUME NEW s, NEW t, SameItem(s, t), s.stage \notin {"idle", "item"}, NEW r, Ignores(s, r)
  PROVE  Ignores(t, r)
BY DEF SameItem, Ignores

\* What a step leaves unborn was unborn, has no presets, and stays unknown.
LEMMA StepIgnores ==
  ASSUME BornInv, NEW w \in Workers, Step(w), NEW r \in Records, rec'[r].state = "unborn"
  PROVE  rec[r].state = "unborn" /\ presets'[r] = {} /\ Ignores(request'[w], r)
<1> DEFINE s == request[w]
           Goal == rec[r].state = "unborn" /\ presets'[r] = {} /\ Ignores(request'[w], r)
<1>0. /\ TypeInv /\ s \in Request /\ SaneSession(s)
      /\ rec[r].state = "unborn" => presets[r] = {} /\ Ignores(s, r)
  BY SessionType DEF BornInv
<1>f. Flushed(w) \in [Records -> Record] /\ \A q \in Records : Flushed(w)[q].state = rec[q].state
  BY <1>0, FlushedType, FlushedState
<1>1. CASE SkipItem(w)
  <2>1. PICK t \in Request : request' = [request EXCEPT ![w] = t] /\ Skipped(s, t)
    BY <1>0, <1>1, SkipItemEffect
  <2>2. UNCHANGED <<rec, presets>> /\ request'[w] = t
    BY <1>0, <1>1, <2>1, OneSession DEF SkipItem, Skipped
  <2> HIDE DEF s
  <2> QED
    BY <1>0, <2>1, <2>2, SkippedIgnores
<1>2. CASE CreateItem(w)
  <2>1. PICK q \in Records, t \in Request, section \in Section : Created(w, q, section, t)
    BY <1>0, <1>2, CreateItemEffect
  <2>2. /\ request' = [request EXCEPT ![w] = t] /\ SaneSession(t)
        /\ rec' = [Flushed(w) EXCEPT ![q] = New(section)]
        /\ t.known = s.known \cup {q} /\ t.row = q
        /\ t.index = [s.index EXCEPT ![Item(w).item] = @ \cup {q}]
    BY <2>1 DEF Created
  <2>3. request'[w] = t /\ UNCHANGED presets
    BY <1>0, <1>2, <2>2, OneSession DEF CreateItem
  <2>4. r # q /\ rec'[r] = Flushed(w)[r]
    BY <1>f, <2>2, NewType
  <2>5. s.index \in [ItemIds -> SUBSET Records]
    BY <1>0 DEF Request
  <2>6. rec[r].state = "unborn"
    BY <1>f, <2>4
  <2> HIDE DEF s
  <2>7. Ignores(t, r)
    BY <1>0, <2>2, <2>4, <2>5, <2>6 DEF Ignores
  <2> QED
    BY <1>0, <2>3, <2>6, <2>7
<1>3. CASE WriteSection(w)
  <2>1. PICK q \in Records, t \in Request, section \in Section : Wrote(w, q, section, t)
    BY <1>0, <1>3, WriteSectionEffect
  <2>2. /\ request' = [request EXCEPT ![w] = t] /\ SaneSession(t)
        /\ s.todo # <<>> /\ Targets(w, Item(w)) = {q}
        /\ rec' = rec \/ rec' = [Flushed(w) EXCEPT ![q].section = section]
        /\ t.known = s.known /\ t.row = q /\ t.index = s.index
    BY <2>1 DEF Wrote
  <2>3. request'[w] = t /\ UNCHANGED presets
    BY <1>0, <1>3, <2>2, OneSession DEF WriteSection
  <2>4. rec[r].state = "unborn"
    BY <1>f, <2>2 DEF Record
  <2>5. Item(w).item \in ItemIds \cup {None}
    BY <1>0, <2>2, ItemType
  <2>6. q \in Targets(w, Item(w))
    BY <2>2
  <2>7. r # q
    BY <1>0, <2>4, <2>5, <2>6 DEF Targets, Ignores
  <2> HIDE DEF s
  <2>8. Ignores(t, r)
    BY <1>0, <2>2, <2>4, <2>7 DEF Ignores
  <2> QED
    BY <1>0, <2>3, <2>4, <2>8
<1>4. CASE AssertOne(w)
  <2>1. PICK t \in Request :
          /\ request' = [request EXCEPT ![w] = t] /\ SaneSession(t)
          /\ Refused(w, t) \/ Repeated(w, t) \/ Asserted(w, t)
    BY <1>0, <1>4, AssertOneEffect
  <2>2. s.stage = "assert" /\ UNCHANGED presets /\ request'[w] = t
    BY <1>0, <1>4, <2>1, OneSession DEF AssertOne, At
  <2>3. /\ rec' = rec \/ rec' = Flushed(w)
        /\ Skipped(s, t) \/ SameItem(s, t)
    BY <2>1 DEF Refused, Repeated, Asserted
  <2>4. rec[r].state = "unborn"
    BY <1>f, <2>3
  <2> HIDE DEF s
  <2> QED
    BY <1>0, <2>2, <2>3, <2>4, SkippedIgnores, SameItemIgnores
<1>5. CASE CloseAsserts(w)
  <2>1. PICK t \in Request :
          request' = [request EXCEPT ![w] = t] /\ SaneSession(t) /\ Closed(w, t)
    BY <1>0, <1>5, CloseAssertsEffect
  <2>2. /\ s.stage = "assert" /\ UNCHANGED <<rec, presets>> /\ request'[w] = t
        /\ SameItem(s, t)
    BY <1>0, <1>5, <2>1, OneSession DEF CloseAsserts, Closed
  <2> HIDE DEF s
  <2> QED
    BY <1>0, <2>2, SameItemIgnores
<1>6. CASE Contribute(w)
  <2>1. PICK t \in Request :
          /\ request' = [request EXCEPT ![w] = t] /\ SaneSession(t)
          /\ BelowFloor(w, t) \/ Contributed(w, t)
    BY <1>0, <1>6, ContributeEffect
  <2>2. s.stage = "preset" /\ request'[w] = t
    BY <1>0, <1>6, <2>1, OneSession DEF Contribute, At
  <2>3. /\ rec' = rec \/ rec' = Flushed(w)
        /\ SameItem(s, t)
        /\ presets' = presets \/
             presets' = [presets EXCEPT ![s.row] = ReplaceOwn(@, Head(s.presets))]
    BY <2>1 DEF BelowFloor, Contributed
  <2>4. rec[r].state = "unborn"
    BY <1>f, <2>3
  <2>5. presets \in [Records -> SUBSET Preset]
    BY <1>0 DEF TypeInv, TypeOK
  <2> HIDE DEF s
  <2>6. s.row # r
    BY <1>0, <2>2, <2>4 DEF Ignores
  <2>7. presets'[r] = {}
    BY <1>0, <2>3, <2>4, <2>5, <2>6
  <2> QED
    BY <1>0, <2>2, <2>3, <2>4, <2>7, SameItemIgnores
<1>7. CASE CloseItem(w)
  <2>1. PICK t \in Request :
          /\ request' = [request EXCEPT ![w] = t] /\ SaneSession(t)
          /\ Unioned(w, t) \/ Ended(w, t)
    BY <1>0, <1>7, CloseItemEffect
  <2>2. s.row \in Records /\ UNCHANGED presets /\ request'[w] = t
    BY <1>0, <1>7, <2>1, OneSession DEF CloseItem, At, SaneSession, Sane
  <2>3. /\ \/ rec' = rec
           \/ rec' = [Flushed(w) EXCEPT ![s.row] = Materialized(@, presets[s.row])]
        /\ Skipped(s, t)
    BY <2>1 DEF Unioned, Ended
  <2>4. presets[s.row] \in SUBSET Preset
    BY <1>0, <2>2 DEF TypeInv, TypeOK
  <2>5. Materialized(Flushed(w)[s.row], presets[s.row]).state = Flushed(w)[s.row].state
    BY <1>f, <2>2, <2>4, MaterializedType
  <2> HIDE DEF s
  <2>6. rec[r].state = "unborn"
    BY <1>f, <2>2, <2>3, <2>5
  <2> QED
    BY <1>0, <2>2, <2>3, <2>6, SkippedIgnores
<1>8. CASE FinishBatch(w)
  <2>1. PICK t \in Request :
          /\ request' = [request EXCEPT ![w] = t] /\ SaneSession(t) /\ rec' = Flushed(w)
          /\ t = [Idle EXCEPT !.again = s.again]
    BY <1>0, <1>8, FinishBatchEffect
  <2>2. UNCHANGED presets /\ request'[w] = t /\ rec[r].state = "unborn"
    BY <1>0, <1>f, <1>8, <2>1, OneSession DEF FinishBatch
  <2>3. Ignores(t, r)
    BY <2>1 DEF Idle, Ignores
  <2> QED
    BY <1>0, <2>2, <2>3
<1>9. CASE CutOff(w)
  <2>1. UNCHANGED <<rec, presets>> /\ request'[w] = Idle
    BY <1>0, <1>9, IdleType, OneSession DEF CutOff, Continue
  <2> QED
    BY <1>0, <2>1, IdleIgnores
<1>10. CASE FinishContribution(w)
  <2>1. /\ s.stage = "door" /\ rec' = [rec EXCEPT ![s.row] = Materialized(@, presets[s.row])]
        /\ UNCHANGED presets /\ request' = [Disturbed EXCEPT ![w] = Idle]
    BY <1>10 DEF FinishContribution, At
  <2>2. request'[w] = Idle /\ s.row \in Records
    BY <1>0, <2>1, IdleType, DoorSession DEF SaneSession, Sane
  <2>3. rec \in [Records -> Record] /\ presets[s.row] \in SUBSET Preset
    BY <1>0, <2>2 DEF TypeInv, TypeOK
  <2>4. Materialized(rec[s.row], presets[s.row]).state = rec[s.row].state
    BY <2>2, <2>3, MaterializedType
  <2> HIDE DEF s
  <2>5. rec[r].state = "unborn"
    BY <2>1, <2>2, <2>3, <2>4
  <2> QED
    BY <1>0, <2>1, <2>2, <2>5, IdleIgnores
<1> QED
  BY <1>1, <1>2, <1>3, <1>4, <1>5, <1>6, <1>7, <1>8, <1>9, <1>10 DEF Step

\* A door replaces one row by one that exists.
LEMMA ReplacedUnborn ==
  ASSUME TypeInv, NEW q \in Records, NEW m, rec' = [rec EXCEPT ![q] = m],
         m.state # "unborn" \/ m.state = rec[q].state,
         NEW r \in Records, rec'[r].state = "unborn"
  PROVE  rec[r].state = "unborn"
BY DEF TypeInv, TypeOK

LEMMA DoorUnborn ==
  ASSUME TypeInv, Door, NEW r \in Records, rec'[r].state = "unborn"
  PROVE  rec[r].state = "unborn" /\ (presets[r] = {} => presets'[r] = {})
<1> DEFINE Goal == rec[r].state = "unborn" /\ (presets[r] = {} => presets'[r] = {})
<1>0. presets \in [Records -> SUBSET Preset]
  BY DEF TypeInv, TypeOK
<1>1. CASE CreateInstance
  <2>1. PICK q \in Records : rec' = [rec EXCEPT ![q] = New(NoSection)] /\ UNCHANGED presets
    BY <1>1 DEF CreateInstance, Write
  <2>2. New(NoSection).state = "live"
    BY NewType DEF NoSection, Section
  <2> QED
    BY <2>1, <2>2, ReplacedUnborn
<1>2. ASSUME NEW q \in Records, DeleteInstance(q) PROVE Goal
  <2> DEFINE gone == [Unborn EXCEPT !.state = "gone"]
  <2>1. /\ rec' = [rec EXCEPT ![q] = gone] /\ gone.state = "gone"
        /\ presets' = [presets EXCEPT ![q] = {}]
    BY <1>2, GoneType DEF DeleteInstance, Write
  <2> HIDE DEF gone
  <2> QED
    BY <1>0, <2>1, ReplacedUnborn
<1>3. ASSUME NEW q \in Records, NEW data \in Data, WriteClientSection(q, data) PROVE Goal
  BY <1>3, SectionWritten, ReplacedUnborn DEF WriteClientSection
<1>4. ASSUME NEW q \in Records, NEW p \in Paths, NEW v \in Values,
             AssertCanonical(q, p, v) \/ ObserveCanonical(q, p, v)
      PROVE  Goal
  <2>1. SetLeaf(q, p, v) /\ UNCHANGED presets
    BY <1>4 DEF AssertCanonical, ObserveCanonical
  <2>2. PICK m \in Record : rec' = [rec EXCEPT ![q] = m] /\ m.state = rec[q].state
    BY <2>1, LeafWritten DEF Rewritten
  <2> QED
    BY <2>1, <2>2, ReplacedUnborn
<1>5. ASSUME NEW q \in Records, NEW p, DeletePreset(q, p) PROVE Goal
  <2>1. /\ rec' = [rec EXCEPT ![q] = Materialized(rec[q], presets'[q])]
        /\ presets' = [presets EXCEPT ![q] = @ \ {p}]
        /\ Materialized(rec[q], presets'[q]).state = rec[q].state
    BY <1>5, PresetDeleted, MaterializedType
  <2>2. presets[r] = {} => presets'[r] = {}
    BY <1>0, <2>1
  <2> QED
    BY <2>1, <2>2, ReplacedUnborn
<1>6. ASSUME NEW q \in Records, NEW b \in Blobs, DeleteMedia(q, b) PROVE Goal
  <2>1. PICK m \in Record : rec' = [rec EXCEPT ![q] = m] /\ m.state = rec[q].state
    BY <1>6, MediaDropped DEF Rewritten
  <2> QED
    BY <1>6, <2>1, ReplacedUnborn DEF DeleteMedia
<1> QED
  BY <1>1, <1>2, <1>3, <1>4, <1>5, <1>6 DEF Door

LEMMA NextBorn ==
  ASSUME BornInv, [Next]_vars
  PROVE  BornInv'
<1>0. TypeInv /\ TypeInv'
  BY NextTyped DEF BornInv
<1> SUFFICES ASSUME NEW r \in Records, rec'[r].state = "unborn"
             PROVE  presets'[r] = {} /\ \A v \in Workers : Ignores(request'[v], r)
  BY <1>0 DEF BornInv
<1> DEFINE Before == presets[r] = {} /\ \A v \in Workers : Ignores(request[v], r)
           Goal == presets'[r] = {} /\ \A v \in Workers : Ignores(request'[v], r)
<1>1. CASE UNCHANGED vars
  BY <1>1 DEF BornInv, vars
<1>2. CASE Door
  BY <1>0, <1>2, DoorUnborn, DoorOthers, AlikeIgnores DEF BornInv
<1>3. ASSUME NEW w \in Workers, Step(w) PROVE Goal
  BY <1>0, <1>3, StepIgnores, StepOthers, AlikeIgnores DEF BornInv, Others
<1>4. ASSUME NEW w \in Workers, NEW b \in Batches, NEW can,
             can \in BOOLEAN /\ StartBatch(w, b, can)
      PROVE Goal
  <2>1. PICK t \in Request : Started(w, b, can, t)
    BY <1>0, <1>4, StartBatchEffect
  <2>2. Before
    BY <2>1 DEF Started, BornInv
  <2>3. Ignores(t, r)
    BY <2>1 DEF Started, Ignores, Live
  <2> QED
    BY <1>0, <2>1, <2>2, <2>3, OneSession DEF Started
<1>5. ASSUME NEW w \in Workers, NEW q \in Records, StartUpload(w, q) PROVE Goal
  <2>1. PICK t \in Request :
          request' = [request EXCEPT ![w] = t] /\ DoorRequest(q, t, "upload", rec)
    BY <1>0, <1>5, StartUploadEffect
  <2>2. Before /\ UNCHANGED presets /\ r # q
    BY <1>5 DEF BornInv, StartUpload, Grow, Live
  <2>3. t = [Idle EXCEPT !.stage = "upload", !.row = q, !.seen = rec]
    <3>1. /\ request'[w] = t
          /\ request' = [request EXCEPT ![w] = [Idle EXCEPT !.stage = "upload", !.row = q,
                                                            !.seen = rec]]
      BY <1>0, <1>5, <2>1, OneSession DEF StartUpload, Continue, DoorRequest
    <3>2. request \in [Workers -> Request]
      BY <1>0, SessionType
    <3> QED
      BY <3>1, <3>2
  <2>4. Ignores(t, r)
    BY <2>2, <2>3 DEF Idle, Ignores
  <2> QED
    BY <1>0, <2>1, <2>2, <2>4, OneSession DEF DoorRequest
<1>6. ASSUME NEW w \in Workers, NEW q \in Records, NEW e \in PresetEntry,
             StartContribution(w, q, e)
      PROVE Goal
  <2> DEFINE t == [Idle EXCEPT !.stage = "door", !.row = q, !.contributed = TRUE]
  <2>1. /\ request' = [Disturbed EXCEPT ![w] = t]
        /\ presets' = [presets EXCEPT ![q] = ReplaceOwn(@, e)]
        /\ Before /\ r # q
    BY <1>6 DEF BornInv, StartContribution, Grow, Live
  <2>2. Ignores(t, r)
    BY <2>1 DEF Idle, Ignores
  <2> HIDE DEF t
  <2>3. Disturbed \in [Workers -> Request]
        /\ \A v \in Workers : Alike(request[v], Disturbed[v])
    BY <1>0, DisturbedType
  <2>4. \A v \in Workers : Ignores(request'[v], r)
    BY <2>1, <2>2, <2>3, AlikeIgnores
  <2>5. presets'[r] = presets[r]
    BY <1>0, <2>1 DEF TypeInv, TypeOK
  <2> QED
    BY <2>1, <2>4, <2>5
<1>7. ASSUME NEW w \in Workers, NEW b \in Blobs, FinishUpload(w, b) PROVE Goal
  <2>1. /\ request' = [Disturbed EXCEPT ![w] = Idle] /\ UNCHANGED presets
        /\ Uploaded(w, b) \/ UNCHANGED rec
        /\ request[w].row \in Records
    BY <1>0, <1>7, FinishUploadEffect
  <2>2. rec[r].state = "unborn"
    BY <1>0, <2>1, ReplacedUnborn DEF Uploaded
  <2>3. request'[w] = Idle /\ \A v \in Workers \ {w} : Alike(request[v], request'[v])
    BY <1>0, <2>1, IdleType, DoorSession
  <2> QED
    BY <2>1, <2>2, <2>3, IdleIgnores, AlikeIgnores DEF BornInv
<1> QED
  BY <1>1, <1>2, <1>3, <1>4, <1>5, <1>6, <1>7 DEF Next

LEMMA AlwaysBorn == Spec => []BornInv
<1>1. Init => BornInv
  BY InitTyped, IdleIgnores DEF Init, BornInv
<1>2. BornInv /\ [Next]_vars => BornInv'
  BY NextBorn
<1> QED
  BY <1>1, <1>2, PTL DEF Spec

-----------------------------------------------------------------------------
(* The union of the presets. *)

\* A session that has contributed to r and not yet united.
Owes(s, r) == s.contributed /\ s.row = r

Mirrored(r, rows, entries, rent, sessions) ==
  rows[r].state = "live" /\ r \notin rent /\ (\A w \in Workers : ~Owes(sessions[w], r))
    => rows[r].canon.union = entries[r]

MirrorInv == BornInv /\ \A r \in Records : Mirrored(r, rec, presets, torn, request)

\* A record whose document and presets a step leaves alone, and that it does not
\* acquit of being torn or lagging, stays mirrored.
LEMMA StaysMirrored ==
  ASSUME NEW r \in Records, Mirrored(r, rec, presets, torn, request),
         rec[r].state = "live", rec'[r].canon.union = rec[r].canon.union,
         presets'[r] = presets[r], r \in torn => r \in torn',
         \A v \in Workers : Owes(request[v], r) => Owes(request'[v], r) \/ r \in torn'
  PROVE  Mirrored(r, rec', presets', torn', request')
BY DEF Mirrored

LEMMA AlikeOwes ==
  ASSUME NEW s, NEW t, Alike(s, t), NEW r
  PROVE  Owes(s, r) <=> Owes(t, r)
BY DEF Alike, Owes

\* A flush that overwrites nothing leaves the union as it is.
LEMMA FlushUnion ==
  ASSUME TypeInv, NEW w \in Workers, NEW r \in Records, r \notin Overwritten(w)
  PROVE  Flushed(w)[r].canon.union = rec[r].canon.union
<1> DEFINE p == request[w].pend[r]
<1>1. p \in Pending /\ rec[r] \in Record /\ Waiting(p)
  BY SessionType DEF TypeInv, TypeOK, Request, SaneSession
<1>2. Flushed(w)[r] = Overlay(rec[r], p)
  BY FlushedType
<1>3. ~(p.canon # None /\ rec[r].canon # p.base)
  BY DEF Overwritten
<1> HIDE DEF p
<1>4. Flushed(w)[r].canon = IF p.canon = None THEN rec[r].canon ELSE p.canon
  BY <1>1, <1>2, OverlayType
<1> QED
  BY <1>1, <1>3, <1>4 DEF Waiting

\* The steps of a session that leave the presets alone and whose flush, if any,
\* marks what it overwrites.
LEMMA QuietMirrored ==
  ASSUME MirrorInv, NEW w \in Workers, Others(w), NEW r \in Records,
         rec[r].state = "live", presets'[r] = presets[r],
         \/ rec'[r].canon.union = rec[r].canon.union /\ (r \in torn => r \in torn')
         \/ /\ rec'[r].canon.union = Flushed(w)[r].canon.union
            /\ r \in torn \cup Overwritten(w) => r \in torn',
         Owes(request[w], r) => Owes(request'[w], r) \/ r \in torn'
  PROVE  Mirrored(r, rec', presets', torn', request')
<1>1. \A v \in Workers : Owes(request[v], r) => Owes(request'[v], r) \/ r \in torn'
  BY AlikeOwes DEF Others
<1>2. CASE r \in torn'
  BY <1>2 DEF Mirrored
<1>3. CASE r \notin torn'
  <2>1. rec'[r].canon.union = rec[r].canon.union
    BY <1>3, FlushUnion DEF MirrorInv, BornInv
  <2> QED
    BY <1>1, <1>3, <2>1, StaysMirrored DEF MirrorInv
<1> QED
  BY <1>2, <1>3

LEMMA StepMirrored ==
  ASSUME MirrorInv, NEW w \in Workers, Step(w), NEW r \in Records, rec'[r].state = "live"
  PROVE  Mirrored(r, rec', presets', torn', request')
<1> DEFINE s == request[w]
           Goal == Mirrored(r, rec', presets', torn', request')
<1>0. /\ TypeInv /\ BornInv /\ s \in Request /\ SaneSession(s) /\ Others(w)
      /\ rec \in [Records -> Record] /\ presets \in [Records -> SUBSET Preset]
  BY SessionType, StepOthers DEF MirrorInv, BornInv, TypeInv, TypeOK
<1>f. Flushed(w) \in [Records -> Record] /\ \A q \in Records : Flushed(w)[q].state = rec[q].state
  BY <1>0, FlushedType, FlushedState
<1>o. s.stage \in {"idle", "item", "assert"} => ~Owes(s, r)
  BY <1>0 DEF SaneSession, Sane, Owes
<1>1. CASE SkipItem(w)
  BY <1>0, <1>1, <1>o, QuietMirrored DEF SkipItem, At
<1>2. CASE CreateItem(w)
  <2>1. PICK q \in Records, t \in Request, section \in Section : Created(w, q, section, t)
    BY <1>0, <1>2, CreateItemEffect
  <2>2. /\ s.stage = "item" /\ rec[q] = Unborn
        /\ rec' = [Flushed(w) EXCEPT ![q] = New(section)]
        /\ torn' = torn \cup Overwritten(w)
    BY <2>1 DEF Created
  <2>3. UNCHANGED presets
    BY <1>2 DEF CreateItem
  <2>4. CASE r = q
    <3>1. rec'[r].canon = Blank
      BY <1>f, <2>2, <2>4, NewType
    <3>2. presets'[r] = {}
      BY <1>0, <2>2, <2>3, <2>4, UnbornType DEF BornInv
    <3> QED
      BY <3>1, <3>2 DEF Mirrored, Blank
  <2>5. CASE r # q
    <3>1. rec'[r] = Flushed(w)[r] /\ rec[r].state = "live"
      BY <1>f, <2>2, <2>5
    <3> QED
      BY <1>0, <1>o, <2>2, <2>3, <3>1, QuietMirrored
  <2> QED
    BY <2>4, <2>5
<1>3. CASE WriteSection(w)
  <2>1. PICK q \in Records, t \in Request, section \in Section : Wrote(w, q, section, t)
    BY <1>0, <1>3, WriteSectionEffect
  <2>2. /\ s.stage = "item"
        /\ \/ UNCHANGED <<rec, torn>>
           \/ /\ rec' = [Flushed(w) EXCEPT ![q].section = section]
              /\ torn' = torn \cup Overwritten(w)
    BY <2>1 DEF Wrote
  <2>3. UNCHANGED presets
    BY <1>3 DEF WriteSection
  <2>4. CASE UNCHANGED <<rec, torn>>
    BY <1>0, <1>o, <2>2, <2>3, <2>4, QuietMirrored
  <2>5. CASE /\ rec' = [Flushed(w) EXCEPT ![q].section = section]
             /\ torn' = torn \cup Overwritten(w)
    <3>1. rec'[r].canon = Flushed(w)[r].canon /\ rec[r].state = "live"
      BY <1>f, <2>5 DEF Record
    <3> QED
      BY <1>0, <1>o, <2>2, <2>3, <2>5, <3>1, QuietMirrored
  <2> QED
    BY <2>2, <2>4, <2>5
<1>4. CASE AssertOne(w)
  <2>1. /\ s.stage = "assert" /\ UNCHANGED presets
        /\ \/ UNCHANGED <<rec, torn>>
           \/ rec' = Flushed(w) /\ torn' = torn \cup Overwritten(w)
    BY <1>0, <1>4, AssertOneEffect DEF AssertOne, Refused, Repeated, Asserted
  <2>2. rec[r].state = "live"
    BY <1>f, <2>1
  <2> QED
    BY <1>0, <1>o, <2>1, <2>2, QuietMirrored
<1>5. CASE CloseAsserts(w)
  BY <1>0, <1>5, <1>o, QuietMirrored DEF CloseAsserts, At
<1>6. CASE Contribute(w)
  <2>1. PICK t \in Request :
          /\ request' = [request EXCEPT ![w] = t] /\ SaneSession(t)
          /\ BelowFloor(w, t) \/ Contributed(w, t)
    BY <1>0, <1>6, ContributeEffect
  <2>2. request'[w] = t
    BY <1>0, <2>1, OneSession
  <2>3. CASE BelowFloor(w, t)
    <3>1. UNCHANGED <<rec, torn, presets>> /\ (Owes(s, r) => Owes(t, r))
      BY <2>3 DEF BelowFloor, SameItem, Owes
    <3> QED
      BY <1>0, <2>2, <3>1, QuietMirrored
  <2>4. CASE Contributed(w, t)
    <3>1. /\ rec' = Flushed(w) /\ torn' = torn \cup Overwritten(w)
          /\ presets' = [presets EXCEPT ![s.row] = ReplaceOwn(@, Head(s.presets))]
          /\ t.row = s.row /\ t.contributed
      BY <2>4 DEF Contributed, SameItem
    <3>2. CASE r = s.row
      BY <2>2, <3>1, <3>2 DEF Mirrored, Owes
    <3>3. CASE r # s.row
      <4>1. presets'[r] = presets[r] /\ rec[r].state = "live" /\ ~Owes(s, r)
        BY <1>0, <1>f, <3>1, <3>3 DEF Owes
      <4> QED
        BY <1>0, <3>1, <4>1, QuietMirrored
    <3> QED
      BY <3>2, <3>3
  <2> QED
    BY <2>1, <2>3, <2>4
<1>7. CASE CloseItem(w)
  <2>1. PICK t \in Request : Unioned(w, t) \/ Ended(w, t)
    BY <1>0, <1>7, CloseItemEffect
  <2>2. UNCHANGED presets /\ s.row \in Records
    BY <1>0, <1>7 DEF CloseItem, At, SaneSession, Sane
  <2>3. CASE Ended(w, t)
    BY <1>0, <2>2, <2>3, QuietMirrored DEF Ended, Owes
  <2>4. CASE Unioned(w, t)
    <3> DEFINE m == Materialized(Flushed(w)[s.row], presets[s.row])
    <3>1. /\ rec' = [Flushed(w) EXCEPT ![s.row] = m]
          /\ torn' = (torn \cup Overwritten(w)) \ {s.row}
      BY <2>4 DEF Unioned
    <3>2. m.canon.union = presets[s.row]
      BY <1>0, <1>f, <2>2, MaterializedType
    <3> HIDE DEF m
    <3>3. CASE r = s.row
      BY <1>f, <2>2, <3>1, <3>2, <3>3 DEF Mirrored
    <3>4. CASE r # s.row
      <4>1. rec'[r] = Flushed(w)[r] /\ rec[r].state = "live" /\ ~Owes(s, r)
        BY <1>f, <2>2, <3>1, <3>4 DEF Owes
      <4> QED
        BY <1>0, <2>2, <3>1, <3>4, <4>1, QuietMirrored
    <3> QED
      BY <3>3, <3>4
  <2> QED
    BY <2>1, <2>3, <2>4
<1>8. CASE FinishBatch(w)
  <2>1. /\ s.stage = "item" /\ UNCHANGED presets
        /\ rec' = Flushed(w) /\ torn' = torn \cup Overwritten(w)
    BY <1>0, <1>8, FinishBatchEffect DEF FinishBatch
  <2>2. rec[r].state = "live"
    BY <1>f, <2>1
  <2> QED
    BY <1>0, <1>o, <2>1, <2>2, QuietMirrored
<1>9. CASE CutOff(w)
  <2>1. UNCHANGED <<rec, presets>>
        /\ torn' = IF s.contributed THEN torn \cup {s.row} ELSE torn
    BY <1>9 DEF CutOff
  <2>2. (r \in torn => r \in torn') /\ (Owes(s, r) => r \in torn')
    BY <2>1 DEF Owes
  <2> QED
    BY <1>0, <2>1, <2>2, QuietMirrored
<1>10. CASE FinishContribution(w)
  <2> DEFINE m == Materialized(rec[s.row], presets[s.row])
  <2>1. /\ rec' = [rec EXCEPT ![s.row] = m] /\ torn' = torn \ {s.row}
        /\ UNCHANGED presets /\ s.row \in Records
    BY <1>0, <1>10 DEF FinishContribution, At, SaneSession, Sane
  <2>2. m.canon.union = presets[s.row]
    BY <1>0, <2>1, MaterializedType
  <2> HIDE DEF m
  <2>3. CASE r = s.row
    BY <1>0, <2>1, <2>2, <2>3 DEF Mirrored
  <2>4. CASE r # s.row
    <3>1. rec'[r] = rec[r] /\ ~Owes(s, r)
      BY <1>0, <2>1, <2>4 DEF Owes
    <3> QED
      BY <1>0, <2>1, <2>4, <3>1, QuietMirrored
  <2> QED
    BY <2>3, <2>4
<1> QED
  BY <1>1, <1>2, <1>3, <1>4, <1>5, <1>6, <1>7, <1>8, <1>9, <1>10 DEF Step

\* A door that replaces one row by one with the same union.
LEMMA ReplacedMirrored ==
  ASSUME MirrorInv, NEW q \in Records, NEW m, rec' = [rec EXCEPT ![q] = m],
         m.state = rec[q].state, m.canon.union = rec[q].canon.union,
         UNCHANGED <<presets, torn>>, \A v \in Workers : Alike(request[v], request'[v]),
         NEW r \in Records, rec'[r].state = "live"
  PROVE  Mirrored(r, rec', presets', torn', request')
<1>1. rec \in [Records -> Record]
  BY DEF MirrorInv, BornInv, TypeInv, TypeOK
<1>2. rec[r].state = "live" /\ rec'[r].canon.union = rec[r].canon.union
  BY <1>1
<1>3. \A v \in Workers : Owes(request[v], r) => Owes(request'[v], r)
  BY AlikeOwes
<1> QED
  BY <1>2, <1>3, StaysMirrored DEF MirrorInv

LEMMA DoorMirrored ==
  ASSUME MirrorInv, Door, NEW r \in Records, rec'[r].state = "live"
  PROVE  Mirrored(r, rec', presets', torn', request')
<1> DEFINE Goal == Mirrored(r, rec', presets', torn', request')
<1>0. /\ TypeInv /\ BornInv /\ \A v \in Workers : Alike(request[v], request'[v])
      /\ rec \in [Records -> Record] /\ presets \in [Records -> SUBSET Preset]
      /\ Mirrored(r, rec, presets, torn, request)
  BY DoorOthers DEF MirrorInv, BornInv, TypeInv, TypeOK
<1>s. \A v \in Workers : Owes(request[v], r) => Owes(request'[v], r)
  BY <1>0, AlikeOwes
<1>1. CASE CreateInstance
  <2>1. PICK q \in Records : rec[q] = Unborn /\ rec' = [rec EXCEPT ![q] = New(NoSection)]
    BY <1>1 DEF CreateInstance, Write
  <2>2. UNCHANGED <<presets, torn>>
    BY <1>1 DEF CreateInstance
  <2>3. New(NoSection).canon = Blank
    BY NewType DEF NoSection, Section
  <2>4. CASE r = q
    <3>1. presets'[r] = {}
      BY <1>0, <2>1, <2>2, <2>4, UnbornType DEF BornInv
    <3> QED
      BY <1>0, <2>1, <2>3, <2>4, <3>1 DEF Mirrored, Blank
  <2>5. CASE r # q
    <3>1. rec'[r] = rec[r]
      BY <1>0, <2>1, <2>5
    <3> QED
      BY <1>0, <1>s, <2>2, <3>1, StaysMirrored
  <2> QED
    BY <2>4, <2>5
<1>2. ASSUME NEW q \in Records, DeleteInstance(q) PROVE Goal
  <2> DEFINE gone == [Unborn EXCEPT !.state = "gone"]
  <2>1. /\ rec' = [rec EXCEPT ![q] = gone] /\ gone.state = "gone"
        /\ presets' = [presets EXCEPT ![q] = {}] /\ torn' = torn \ {q}
    BY <1>2, GoneType DEF DeleteInstance, Write
  <2> HIDE DEF gone
  <2>2. r # q /\ rec'[r] = rec[r] /\ presets'[r] = presets[r]
    BY <1>0, <2>1
  <2> QED
    BY <1>0, <1>s, <2>1, <2>2, StaysMirrored
<1>3. ASSUME NEW q \in Records, NEW data \in Data, WriteClientSection(q, data) PROVE Goal
  <2>1. PICK m \in Record : /\ rec' = [rec EXCEPT ![q] = m] /\ m.state = rec[q].state
                            /\ m.canon = rec[q].canon
    BY <1>0, <1>3, SectionWritten
  <2>2. UNCHANGED <<presets, torn>>
    BY <1>3 DEF WriteClientSection
  <2> QED
    BY <1>0, <2>1, <2>2, ReplacedMirrored
<1>4. ASSUME NEW q \in Records, NEW p \in Paths, NEW v \in Values,
             AssertCanonical(q, p, v) \/ ObserveCanonical(q, p, v)
      PROVE  Goal
  <2>1. SetLeaf(q, p, v) /\ UNCHANGED <<presets, torn>>
    BY <1>4 DEF AssertCanonical, ObserveCanonical
  <2>2. PICK m \in Record, canon \in Canonical :
           /\ rec' = [rec EXCEPT ![q] = m]
           /\ Rewritten(rec[q], canon, rec[q].version + 1, m)
           /\ canon.union = rec[q].canon.union
    BY <1>0, <2>1, LeafWritten
  <2> QED
    BY <1>0, <2>1, <2>2, ReplacedMirrored DEF Rewritten
<1>5. ASSUME NEW q \in Records, NEW p, DeletePreset(q, p) PROVE Goal
  <2> DEFINE m == Materialized(rec[q], presets'[q])
  <2>1. /\ rec' = [rec EXCEPT ![q] = m] /\ torn' = torn \ {q}
        /\ presets' = [presets EXCEPT ![q] = @ \ {p}]
        /\ m.canon.union = presets'[q]
    BY <1>0, <1>5, PresetDeleted, MaterializedType
  <2> HIDE DEF m
  <2>2. CASE r = q
    BY <1>0, <2>1, <2>2 DEF Mirrored
  <2>3. CASE r # q
    <3>1. rec'[r] = rec[r] /\ presets'[r] = presets[r]
      BY <1>0, <2>1, <2>3
    <3> QED
      BY <1>0, <1>s, <2>1, <2>3, <3>1, StaysMirrored
  <2> QED
    BY <2>2, <2>3
<1>6. ASSUME NEW q \in Records, NEW b \in Blobs, DeleteMedia(q, b) PROVE Goal
  <2>1. PICK m \in Record, canon \in Canonical :
           /\ rec' = [rec EXCEPT ![q] = m]
           /\ Rewritten(rec[q], canon, rec[q].version + 1, m)
           /\ canon.union = rec[q].canon.union
    BY <1>0, <1>6, MediaDropped
  <2>2. UNCHANGED <<presets, torn>>
    BY <1>6 DEF DeleteMedia
  <2> QED
    BY <1>0, <2>1, <2>2, ReplacedMirrored DEF Rewritten
<1> QED
  BY <1>1, <1>2, <1>3, <1>4, <1>5, <1>6 DEF Door

LEMMA NextMirrored ==
  ASSUME MirrorInv, [Next]_vars
  PROVE  MirrorInv'
<1>0. /\ TypeInv /\ BornInv /\ BornInv'
      /\ rec \in [Records -> Record] /\ presets \in [Records -> SUBSET Preset]
  BY NextBorn DEF MirrorInv, BornInv, TypeInv, TypeOK
<1> SUFFICES ASSUME NEW r \in Records
             PROVE  Mirrored(r, rec', presets', torn', request')
  BY <1>0 DEF MirrorInv
<1> DEFINE Goal == Mirrored(r, rec', presets', torn', request')
<1>m. Mirrored(r, rec, presets, torn, request)
  BY DEF MirrorInv
<1>1. CASE rec'[r].state # "live"
  BY <1>1 DEF Mirrored
<1>2. CASE UNCHANGED vars
  BY <1>m, <1>2 DEF vars
<1>3. CASE Door
  BY <1>1, <1>3, DoorMirrored
<1>4. ASSUME NEW w \in Workers, Step(w) PROVE Goal
  BY <1>1, <1>4, StepMirrored
<1>5. ASSUME NEW w \in Workers, NEW b \in Batches, NEW can,
             can \in BOOLEAN /\ StartBatch(w, b, can)
      PROVE Goal
  <2>1. PICK t \in Request : Started(w, b, can, t)
    BY <1>0, <1>5, StartBatchEffect
  <2>2. Others(w) /\ ~Owes(request[w], r)
    BY <1>0, <2>1, OneOther DEF Started, TypeInv, SaneSession, Sane, Owes
  <2> QED
    BY <1>1, <2>1, <2>2, QuietMirrored DEF Started
<1>6. ASSUME NEW w \in Workers, NEW q \in Records, StartUpload(w, q) PROVE Goal
  <2>1. PICK t \in Request :
          request' = [request EXCEPT ![w] = t] /\ DoorRequest(q, t, "upload", rec)
    BY <1>0, <1>6, StartUploadEffect
  <2>2. Others(w) /\ ~Owes(request[w], r)
    BY <1>0, <1>6, <2>1, OneOther
    DEF DoorRequest, StartUpload, At, TypeInv, SaneSession, Sane, Owes
  <2> QED
    BY <1>1, <1>6, <2>2, QuietMirrored DEF StartUpload
<1>7. ASSUME NEW w \in Workers, NEW q \in Records, NEW e \in PresetEntry,
             StartContribution(w, q, e)
      PROVE Goal
  <2>1. PICK t \in Request :
          /\ request' = [Disturbed EXCEPT ![w] = t] /\ DoorRequest(q, t, "door", None)
          /\ request[w].stage = "idle"
          /\ presets' = [presets EXCEPT ![q] = ReplaceOwn(@, e)]
          /\ UNCHANGED <<rec, torn>>
    BY <1>0, <1>7, StartContributionEffect
  <2>2. request'[w] = t /\ Others(w) /\ ~Owes(request[w], r) /\ t.contributed /\ t.row = q
    BY <1>0, <2>1, DoorSession DEF DoorRequest, Others, TypeInv, SaneSession, Sane, Owes
  <2>3. CASE r = q
    BY <2>2, <2>3 DEF Mirrored, Owes
  <2>4. CASE r # q
    <3>1. presets'[r] = presets[r]
      BY <1>0, <2>1, <2>4
    <3> QED
      BY <1>1, <2>1, <2>2, <3>1, QuietMirrored
  <2> QED
    BY <2>3, <2>4
<1>8. ASSUME NEW w \in Workers, NEW b \in Blobs, FinishUpload(w, b) PROVE Goal
  <2> DEFINE q == request[w].row
             seen == request[w].seen[q]
  <2>1. /\ request' = [Disturbed EXCEPT ![w] = Idle] /\ UNCHANGED presets
        /\ Uploaded(w, b) \/ UNCHANGED <<rec, torn>>
        /\ q \in Records /\ request[w].stage = "upload"
    BY <1>0, <1>8, FinishUploadEffect
  <2>2. Others(w) /\ ~Owes(request[w], r)
    BY <1>0, <2>1, IdleType, DoorSession DEF Others, TypeInv, SaneSession, Sane, Owes
  <2>3. CASE UNCHANGED <<rec, torn>>
    BY <1>1, <2>1, <2>2, <2>3, QuietMirrored
  <2>4. CASE Uploaded(w, b)
    <3>1. PICK m \in Record, canon \in Canonical :
            /\ rec' = [rec EXCEPT ![q] = m]
            /\ m.state = rec[q].state /\ m.canon = canon
            /\ canon.union = seen.canon.union
            /\ torn' = IF rec[q] = seen THEN torn ELSE torn \cup {q}
      BY <2>4 DEF Uploaded
    <3> HIDE DEF seen
    <3>2. CASE r = q /\ rec[q] # seen
      BY <3>1, <3>2 DEF Mirrored
    <3>3. CASE r # q \/ rec[q] = seen
      <4>1. /\ rec'[r].canon.union = rec[r].canon.union /\ rec'[r].state = rec[r].state
            /\ r \in torn => r \in torn'
        BY <1>0, <2>1, <3>1, <3>3
      <4> QED
        BY <1>1, <2>1, <2>2, <4>1, QuietMirrored
    <3> QED
      BY <3>2, <3>3
  <2> QED
    BY <2>1, <2>3, <2>4
<1> QED
  BY <1>2, <1>3, <1>4, <1>5, <1>6, <1>7, <1>8 DEF Next

\* However batches and the preset doors interleave, the union on a record that
\* nobody tore and nobody is contributing to is exactly its contribution rows.
THEOREM UnionsMirror == Spec => []UnionMirrors
<1>1. Init => MirrorInv
  <2> SUFFICES ASSUME Init PROVE MirrorInv
    OBVIOUS
  <2>1. BornInv
    BY InitTyped, IdleIgnores DEF Init, BornInv
  <2>2. \A r \in Records : rec[r].state = "unborn"
    BY UnbornType DEF Init
  <2> QED
    BY <2>1, <2>2 DEF MirrorInv, Mirrored
<1>2. MirrorInv /\ [Next]_vars => MirrorInv'
  BY NextMirrored
<1>3. MirrorInv => UnionMirrors
  BY DEF MirrorInv, Mirrored, Owes, UnionMirrors, Live
<1> QED
  BY <1>1, <1>2, <1>3, PTL DEF Spec

-----------------------------------------------------------------------------
(* Records and items, one batch at a time. *)

\* Items that name their record in one way: by its id or by the client's.
OneName == {i \in BatchItem : None \in {i.id, i.item}}

\* r carries the item i on its row, or will when the session flushes.
Carries(r, i, rows, s) ==
  /\ rows[r].state = "live"
  /\ \/ rows[r].section.item = i
     \/ s.pend[r].section # None /\ s.pend[r].section.item = i

\* No two records carry an item, and a batch has indexed the one that does.
Unique(rows, s) ==
  \A i \in ItemIds : \A r \in Records : Carries(r, i, rows, s) =>
    /\ \A q \in Records : Carries(q, i, rows, s) => q = r
    /\ s.stage \in InBatch => r \in s.index[i]

\* What waits for a flush belongs to a batch and to a record that exists.
Tidy(rows, s) ==
  /\ s.todo \in Seq(OneName)
  /\ s.stage \notin InBatch => s.pend = NothingPending
  /\ \A r \in Records : rows[r].state = "unborn" => s.pend[r].section = None

ItemInv(w) == BornInv /\ Tidy(rec, request[w]) /\ Unique(rec, request[w])

LEMMA NothingSection == \A r \in Records : NothingPending[r].section = None
BY DEF NothingPending, Clean

LEMMA FewerUnique ==
  ASSUME NEW rows, NEW s, Unique(rows, s), NEW new, NEW t,
         \A i \in ItemIds, r \in Records : Carries(r, i, new, t) => Carries(r, i, rows, s),
         t.stage \in InBatch => s.stage \in InBatch /\ t.index = s.index
  PROVE  Unique(new, t)
BY DEF Unique

\* A flush makes no record carry what it was not about to carry.
LEMMA FlushCarries ==
  ASSUME TypeInv, NEW w \in Workers, NEW r \in Records, NEW i, NEW t,
         t.pend[r].section = None, NEW new,
         new[r].state = Flushed(w)[r].state, new[r].section = Flushed(w)[r].section,
         Carries(r, i, new, t)
  PROVE  Carries(r, i, rec, request[w])
<1> DEFINE p == request[w].pend[r]
<1>1. p \in Pending /\ rec[r] \in Record
  BY SessionType DEF TypeInv, TypeOK, Request
<1>2. Flushed(w)[r] = Overlay(rec[r], p)
  BY FlushedType
<1> HIDE DEF p
<1>3. /\ Flushed(w)[r].state = rec[r].state
      /\ Flushed(w)[r].section = IF p.section = None THEN rec[r].section ELSE p.section
  BY <1>1, <1>2, OverlayType
<1> QED
  BY <1>3 DEF Carries, p

\* A session that flushed its batch's work and went on in the same batch, or ended it.
LEMMA FlushedUnique ==
  ASSUME NEW w \in Workers, ItemInv(w), rec' = Flushed(w), NEW t \in Request,
         \A r \in Records : t.pend[r].section = None,
         t.stage \in InBatch => request[w].stage \in InBatch /\ t.index = request[w].index
  PROVE  Unique(rec', t)
<1>1. \A i \in ItemIds, r \in Records : Carries(r, i, rec', t) => Carries(r, i, rec, request[w])
  BY FlushCarries DEF ItemInv, BornInv
<1> QED
  BY <1>1, FewerUnique DEF ItemInv

\* A session that goes on with the sections it had.
LEMMA SameUnique ==
  ASSUME NEW w \in Workers, ItemInv(w), rec' = rec, NEW t \in Request,
         \A r \in Records : t.pend[r].section \in {None, request[w].pend[r].section},
         t.stage \in InBatch => request[w].stage \in InBatch /\ t.index = request[w].index
  PROVE  Unique(rec', t)
<1>1. \A i \in ItemIds, r \in Records : Carries(r, i, rec', t) => Carries(r, i, rec, request[w])
  BY DEF Carries
<1> QED
  BY <1>1, FewerUnique DEF ItemInv

\* The tidiness of what a step leaves pending.
LEMMA StillTidy ==
  ASSUME NEW w \in Workers, ItemInv(w), NEW t \in Request, t.todo \in Seq(OneName),
         t.stage \notin InBatch => t.pend = NothingPending,
         \A r \in Records : rec'[r].state = "unborn" =>
           /\ rec[r].state = "unborn"
           /\ t.pend[r].section \in {None, request[w].pend[r].section}
  PROVE  Tidy(rec', t)
BY DEF Tidy, ItemInv

LEMMA NameOfItem ==
  ASSUME NEW w \in Workers, ItemInv(w), request[w].todo # <<>>
  PROVE  /\ Item(w) \in OneName /\ Tail(request[w].todo) \in Seq(OneName)
         /\ Item(w).id = None \/ Item(w).item = None
         /\ Item(w).item \in ItemIds \cup {None}
<1>1. Item(w) \in OneName /\ Tail(request[w].todo) \in Seq(OneName)
  BY HeadTail DEF ItemInv, Tidy, Item
<1> HIDE DEF Item
<1> QED
  BY <1>1 DEF OneName, BatchItem

\* A batch creates a record only for an item that none carries.
LEMMA CreatedUnique ==
  ASSUME NEW w \in Workers, ItemInv(w), CreateItem(w)
  PROVE  Unique(rec', request'[w]) /\ Tidy(rec', request'[w])
<1> DEFINE s == request[w]
           j == Item(w).item
<1>0. /\ TypeInv /\ BornInv /\ s \in Request /\ Unique(rec, s) /\ Tidy(rec, s)
  BY SessionType DEF ItemInv, BornInv
<1>1. PICK r \in Records, t \in Request, section \in Section : Created(w, r, section, t)
  BY <1>0, CreateItemEffect
<1>2. /\ request' = [request EXCEPT ![w] = t] /\ SaneSession(t)
      /\ s.stage = "item" /\ s.todo # <<>> /\ MayCreate(w, Item(w))
      /\ rec' = [Flushed(w) EXCEPT ![r] = New(section)] /\ rec[r] = Unborn
      /\ section = [data |-> Item(w).data, item |-> j]
      /\ t.index = [s.index EXCEPT ![j] = @ \cup {r}]
      /\ t.pend = NothingPending /\ t.todo = s.todo /\ t.stage = "assert"
  BY <1>1 DEF Created
<1>3. request'[w] = t
  BY <1>0, <1>2, OneSession
<1>4. j \in ItemIds /\ s.index[j] = {} /\ s.index \in [ItemIds -> SUBSET Records]
  BY <1>0, <1>2, NameOfItem DEF MayCreate, Targets, Request
<1>5. Flushed(w) \in [Records -> Record]
  BY <1>0, FlushedType
<1>6. /\ New(section).section = section /\ section.item = j
      /\ \A q \in Records : rec'[q] = IF q = r THEN New(section) ELSE Flushed(w)[q]
      /\ New(section).state = "live"
  BY <1>2, <1>5, NewType
<1>7. ASSUME NEW i \in ItemIds, NEW q \in Records, Carries(q, i, rec', t)
      PROVE  (q = r /\ i = j) \/ (q # r /\ Carries(q, i, rec, s))
  <2>1. t.pend[q].section = None
    BY <1>2, NothingSection
  <2>2. CASE q = r
    BY <1>6, <1>7, <2>1, <2>2 DEF Carries
  <2>3. CASE q # r
    BY <1>0, <1>6, <1>7, <2>1, <2>3, FlushCarries
  <2> QED
    BY <2>2, <2>3
<1> HIDE DEF s, j
<1>8. \A q \in Records : ~Carries(q, j, rec, s)
  BY <1>0, <1>2, <1>4 DEF Unique, InBatch
<1>9. Unique(rec', t)
  <2> SUFFICES ASSUME NEW i \in ItemIds, NEW q \in Records, Carries(q, i, rec', t)
               PROVE  /\ \A p \in Records : Carries(p, i, rec', t) => p = q
                      /\ q \in t.index[i]
    BY DEF Unique
  <2>1. CASE i = j
    BY <1>2, <1>4, <1>7, <1>8, <2>1
  <2>2. CASE i # j
    <3>1. \A p \in Records : Carries(p, i, rec', t) => Carries(p, i, rec, s)
      BY <1>7, <2>2
    <3>2. \A p \in Records : Carries(p, i, rec, s) => p = q
      BY <1>0, <3>1 DEF Unique
    <3>3. q \in s.index[i]
      BY <1>0, <1>2, <3>1 DEF Unique, InBatch
    <3>4. t.index[i] = s.index[i]
      BY <1>2, <1>4, <2>2
    <3> QED
      BY <3>1, <3>2, <3>3, <3>4
  <2> QED
    BY <2>1, <2>2
<1>10. Tidy(rec', t)
  BY <1>0, <1>2, NothingSection DEF Tidy, InBatch
<1> QED
  BY <1>3, <1>9, <1>10

\* A batch that writes the client's section writes it on the one that carries the item.
LEMMA WroteUnique ==
  ASSUME NEW w \in Workers, ItemInv(w), WriteSection(w)
  PROVE  Unique(rec', request'[w]) /\ Tidy(rec', request'[w])
<1> DEFINE s == request[w]
           j == Item(w).item
<1>0. /\ TypeInv /\ BornInv /\ s \in Request /\ Unique(rec, s) /\ Tidy(rec, s)
  BY SessionType DEF ItemInv, BornInv
<1>1. PICK r \in Records, t \in Request, section \in Section : Wrote(w, r, section, t)
  BY <1>0, WriteSectionEffect
<1>2. /\ request' = [request EXCEPT ![w] = t] /\ SaneSession(t)
      /\ s.stage = "item" /\ s.todo # <<>> /\ Targets(w, Item(w)) = {r}
      /\ section = [data |-> Item(w).data, item |-> j]
      /\ t.index = s.index /\ t.todo = s.todo /\ t.stage = "assert"
      /\ \/ /\ rec' = [Flushed(w) EXCEPT ![r].section = section]
            /\ t.pend = NothingPending
         \/ /\ UNCHANGED rec
            /\ t.pend = s.pend \/ t.pend = [s.pend EXCEPT ![r].section = section]
  BY <1>1 DEF Wrote
<1>3. request'[w] = t
  BY <1>0, <1>2, OneSession
<1>4. /\ j \in ItemIds \cup {None} /\ (j # None => s.index[j] = {r})
      /\ section.item = j /\ s.pend \in [Records -> Pending]
      /\ Flushed(w) \in [Records -> Record]
  BY <1>0, <1>2, NameOfItem, FlushedType DEF Targets, Request
<1>5. rec[r].state # "unborn"
  <2>1. r \in Targets(w, Item(w))
    BY <1>2
  <2> QED
    BY <2>1, <1>4 DEF BornInv, Ignores, Targets, ItemInv
<1>6. ASSUME NEW i \in ItemIds, NEW q \in Records, Carries(q, i, rec', t)
      PROVE  (q = r /\ i = j) \/ Carries(q, i, rec, s)
  <2>1. CASE /\ rec' = [Flushed(w) EXCEPT ![r].section = section]
             /\ t.pend = NothingPending
    <3>1. t.pend[q].section = None
      BY <2>1, NothingSection
    <3>2. CASE q = r
      <4>1. rec'[q].section = section
        BY <1>4, <2>1, <3>2 DEF Record
      <4> QED
        BY <1>4, <1>6, <3>1, <3>2, <4>1 DEF Carries
    <3>3. CASE q # r
      <4>1. rec'[q] = Flushed(w)[q]
        BY <1>4, <2>1, <3>3
      <4> QED
        BY <1>0, <1>6, <3>1, <4>1, FlushCarries
    <3> QED
      BY <3>2, <3>3
  <2>2. CASE UNCHANGED rec /\ t.pend = s.pend
    BY <1>6, <2>2 DEF Carries
  <2>3. CASE UNCHANGED rec /\ t.pend = [s.pend EXCEPT ![r].section = section]
    <3>1. /\ q # r => t.pend[q].section = s.pend[q].section
          /\ q = r => t.pend[q].section = section
      BY <1>4, <2>3 DEF Pending
    <3> QED
      BY <1>4, <1>6, <2>3, <3>1 DEF Carries
  <2> QED
    BY <1>2, <2>1, <2>2, <2>3
<1>7. Tidy(rec', t)
  <2>1. ASSUME NEW q \in Records, rec'[q].state = "unborn"
        PROVE  t.pend[q].section = None
    <3>1. rec[q].state = "unborn"
      <4>1. CASE UNCHANGED rec
        BY <2>1, <4>1
      <4>2. CASE rec' = [Flushed(w) EXCEPT ![r].section = section]
        <5>1. rec'[q].state = Flushed(w)[q].state
          BY <1>4, <4>2 DEF Record
        <5> QED
          BY <1>0, <2>1, <5>1, FlushedState
      <4> QED
        BY <1>2, <4>1, <4>2
    <3>2. s.pend[q].section = None /\ q # r
      BY <1>0, <1>5, <3>1 DEF Tidy
    <3> QED
      BY <1>2, <1>4, <3>2, NothingSection
  <2> QED
    BY <1>0, <1>2, <2>1 DEF Tidy, InBatch
<1> HIDE DEF s, j
<1>8. Unique(rec', t)
  <2> SUFFICES ASSUME NEW i \in ItemIds, NEW q \in Records, Carries(q, i, rec', t)
               PROVE  /\ \A p \in Records : Carries(p, i, rec', t) => p = q
                      /\ q \in t.index[i]
    BY DEF Unique
  <2>1. ASSUME NEW p \in Records, Carries(p, i, rec', t) PROVE p \in s.index[i]
    BY <1>0, <1>2, <1>4, <1>6, <2>1, NoneAssumption DEF Unique, InBatch
  <2>2. q \in t.index[i]
    BY <1>2, <2>1
  <2>3. CASE i = j
    BY <1>4, <2>1, <2>2, <2>3, NoneAssumption
  <2>4. CASE i # j
    BY <1>0, <1>6, <2>2, <2>4 DEF Unique
  <2> QED
    BY <2>2, <2>3, <2>4
<1> QED
  BY <1>3, <1>7, <1>8

\* A session that goes on after its flush, or without one, keeps the items unique.
LEMMA FlushKeepsItems ==
  ASSUME NEW w \in Workers, ItemInv(w), NEW t \in Request, request'[w] = t,
         \A r \in Records : /\ rec'[r].state = Flushed(w)[r].state
                            /\ rec'[r].section = Flushed(w)[r].section
                            /\ t.pend[r].section = None,
         t.todo \in Seq(OneName), t.stage \notin InBatch => t.pend = NothingPending,
         t.stage \in InBatch => request[w].stage \in InBatch /\ t.index = request[w].index
  PROVE  Unique(rec', request'[w]) /\ Tidy(rec', request'[w])
<1>0. TypeInv
  BY DEF ItemInv, BornInv
<1>1. \A i \in ItemIds, r \in Records : Carries(r, i, rec', t) => Carries(r, i, rec, request[w])
  BY <1>0, FlushCarries
<1>2. Unique(rec', t)
  BY <1>1, FewerUnique DEF ItemInv
<1>3. \A r \in Records : rec'[r].state = "unborn" => rec[r].state = "unborn"
  BY <1>0, FlushedState
<1> QED
  BY <1>2, <1>3, StillTidy

\* A row that keeps its item, is deleted, or is new and names none.
KeepsItem(row, new) ==
  \/ new.state = row.state /\ new.section.item = row.section.item
  \/ new.state = "gone"
  \/ row.state = "unborn" /\ new.state = "live" /\ new.section.item = None

LEMMA RowsKeepItems ==
  ASSUME NEW w \in Workers, ItemInv(w), \A r \in Records : KeepsItem(rec[r], rec'[r]),
         NEW t \in Request, request'[w] = t,
         \A r \in Records : t.pend[r].section \in {None, request[w].pend[r].section},
         t.todo \in Seq(OneName), t.stage \notin InBatch => t.pend = NothingPending,
         t.stage \in InBatch => request[w].stage \in InBatch /\ t.index = request[w].index
  PROVE  Unique(rec', request'[w]) /\ Tidy(rec', request'[w])
<1>1. \A r \in Records : rec[r].state = "unborn" => t.pend[r].section = None
  BY DEF ItemInv, Tidy
<1>2. \A i \in ItemIds, r \in Records : Carries(r, i, rec', t) => Carries(r, i, rec, request[w])
  BY <1>1, NoneAssumption DEF Carries, KeepsItem
<1>3. Unique(rec', t)
  BY <1>2, FewerUnique DEF ItemInv
<1>4. \A r \in Records : rec'[r].state = "unborn" => rec[r].state = "unborn"
  BY DEF KeepsItem
<1> QED
  BY <1>3, <1>4, StillTidy

LEMMA SameKeepsItems ==
  ASSUME NEW w \in Workers, ItemInv(w), rec' = rec, NEW t \in Request, request'[w] = t,
         \A r \in Records : t.pend[r].section \in {None, request[w].pend[r].section},
         t.todo \in Seq(OneName), t.stage \notin InBatch => t.pend = NothingPending,
         t.stage \in InBatch => request[w].stage \in InBatch /\ t.index = request[w].index
  PROVE  Unique(rec', request'[w]) /\ Tidy(rec', request'[w])
<1>1. \A r \in Records : KeepsItem(rec[r], rec'[r])
  BY DEF KeepsItem
<1> QED
  BY <1>1, RowsKeepItems

\* A door rewrites one row.
LEMMA ReplacedKeepsItem ==
  ASSUME TypeInv, NEW r \in Records, NEW m, rec' = [rec EXCEPT ![r] = m],
         KeepsItem(rec[r], m)
  PROVE  \A q \in Records : KeepsItem(rec[q], rec'[q])
BY DEF KeepsItem, TypeInv, TypeOK

LEMMA IdleTidy ==
  /\ Idle \in Request /\ SaneSession(Idle) /\ Idle.pend = NothingPending
  /\ Idle.todo \in Seq(OneName) /\ Idle.stage \notin InBatch
BY IdleType DEF Idle, NothingPending, InBatch

LEMMA StepUnique ==
  ASSUME NEW w \in Workers, ItemInv(w), Step(w)
  PROVE  Unique(rec', request'[w]) /\ Tidy(rec', request'[w])
<1> DEFINE s == request[w]
           Goal == Unique(rec', request'[w]) /\ Tidy(rec', request'[w])
<1> SUFFICES Goal
  OBVIOUS
<1>0. /\ TypeInv /\ BornInv /\ s \in Request /\ SaneSession(s) /\ s.todo \in Seq(OneName)
      /\ s.todo # <<>> => Tail(s.todo) \in Seq(OneName)
      /\ Flushed(w) \in [Records -> Record]
  BY SessionType, NameOfItem, FlushedType DEF ItemInv, BornInv, Tidy
<1>1. CASE SkipItem(w)
  <2>1. PICK t \in Request :
          request' = [request EXCEPT ![w] = t] /\ Skipped(s, t) /\ t.pend = s.pend
    BY <1>0, <1>1, SkipItemEffect
  <2>2. /\ UNCHANGED rec /\ request'[w] = t /\ s.stage = "item" /\ s.todo # <<>>
        /\ t.stage = "item" /\ t.index = s.index /\ t.todo = Tail(s.todo)
    BY <1>0, <1>1, <2>1, OneSession DEF SkipItem, Skipped, At
  <2> QED
    BY <1>0, <2>1, <2>2, SameKeepsItems DEF InBatch
<1>2. CASE CreateItem(w)
  BY <1>2, CreatedUnique
<1>3. CASE WriteSection(w)
  BY <1>3, WroteUnique
<1>4. CASE AssertOne(w)
  <2>1. PICK t \in Request :
          /\ request' = [request EXCEPT ![w] = t] /\ SaneSession(t)
          /\ Refused(w, t) \/ Repeated(w, t) \/ Asserted(w, t)
    BY <1>0, <1>4, AssertOneEffect
  <2>2. s.stage = "assert" /\ s.todo # <<>> /\ request'[w] = t
    BY <1>0, <1>4, <2>1, OneSession DEF AssertOne, At, SaneSession, Sane
  <2>3. CASE Refused(w, t)
    <3>1. /\ UNCHANGED rec /\ t.stage = "item" /\ t.index = s.index /\ t.pend = s.pend
          /\ t.todo = Tail(s.todo)
      BY <2>3 DEF Refused, Skipped
    <3> QED
      BY <1>0, <2>2, <3>1, SameKeepsItems DEF InBatch
  <2>4. CASE Repeated(w, t)
    <3>1. /\ UNCHANGED rec /\ t.stage = "assert" /\ t.index = s.index /\ t.pend = s.pend
          /\ t.todo = s.todo
      BY <2>4 DEF Repeated, SameItem
    <3> QED
      BY <1>0, <2>2, <3>1, SameKeepsItems DEF InBatch
  <2>5. CASE Asserted(w, t)
    <3>1. /\ rec' = Flushed(w) /\ t.stage = "assert" /\ t.index = s.index
          /\ t.todo = s.todo /\ \A q \in Records : t.pend[q].section = None
      BY <2>5 DEF Asserted, SameItem
    <3> QED
      BY <1>0, <2>2, <3>1, FlushKeepsItems DEF InBatch
  <2> QED
    BY <2>1, <2>3, <2>4, <2>5
<1>5. CASE CloseAsserts(w)
  <2>1. PICK t \in Request :
          request' = [request EXCEPT ![w] = t] /\ SaneSession(t) /\ Closed(w, t)
    BY <1>0, <1>5, CloseAssertsEffect
  <2>2. /\ s.stage = "assert" /\ UNCHANGED rec /\ request'[w] = t /\ t.stage = "preset"
        /\ t.index = s.index /\ t.todo = s.todo
        /\ t.pend[s.row].section = s.pend[s.row].section
        /\ \A r \in Records \ {s.row} : t.pend[r] = s.pend[r]
    BY <1>0, <1>5, <2>1, OneSession DEF CloseAsserts, Closed, SameItem
  <2>3. \A r \in Records : t.pend[r].section = s.pend[r].section
    BY <2>2
  <2> QED
    BY <1>0, <2>2, <2>3, SameKeepsItems DEF InBatch
<1>6. CASE Contribute(w)
  <2>1. PICK t \in Request :
          /\ request' = [request EXCEPT ![w] = t] /\ SaneSession(t)
          /\ BelowFloor(w, t) \/ Contributed(w, t)
    BY <1>0, <1>6, ContributeEffect
  <2>2. s.stage = "preset" /\ request'[w] = t
    BY <1>0, <1>6, <2>1, OneSession DEF Contribute, At
  <2>3. /\ t.stage = "preset" /\ t.index = s.index /\ t.todo = s.todo
        /\ \/ rec' = rec /\ t.pend = s.pend
           \/ rec' = Flushed(w) /\ t.pend = NothingPending
    BY <2>1 DEF BelowFloor, Contributed, SameItem
  <2>4. CASE rec' = rec /\ t.pend = s.pend
    BY <1>0, <2>2, <2>3, <2>4, SameKeepsItems DEF InBatch
  <2>5. CASE rec' = Flushed(w) /\ t.pend = NothingPending
    BY <1>0, <2>2, <2>3, <2>5, FlushKeepsItems, NothingSection DEF InBatch
  <2> QED
    BY <2>3, <2>4, <2>5
<1>7. CASE CloseItem(w)
  <2>1. PICK t \in Request :
          /\ request' = [request EXCEPT ![w] = t] /\ SaneSession(t)
          /\ Unioned(w, t) \/ Ended(w, t)
    BY <1>0, <1>7, CloseItemEffect
  <2>2. /\ s.stage = "preset" /\ s.row \in Records /\ s.todo # <<>> /\ request'[w] = t
    BY <1>0, <1>7, <2>1, OneSession DEF CloseItem, At, SaneSession, Sane
  <2>3. /\ t.stage = "item" /\ t.index = s.index /\ t.todo = Tail(s.todo)
        /\ \/ /\ rec' = [Flushed(w) EXCEPT ![s.row] = Materialized(@, presets[s.row])]
              /\ t.pend = NothingPending
           \/ rec' = rec /\ t.pend = s.pend
    BY <2>1 DEF Unioned, Ended, Skipped
  <2>4. CASE rec' = rec /\ t.pend = s.pend
    BY <1>0, <2>2, <2>3, <2>4, SameKeepsItems DEF InBatch
  <2>5. CASE /\ rec' = [Flushed(w) EXCEPT ![s.row] = Materialized(@, presets[s.row])]
             /\ t.pend = NothingPending
    <3>1. presets[s.row] \in SUBSET Preset
      BY <1>0, <2>2 DEF TypeInv, TypeOK
    <3>2. LET m == Materialized(Flushed(w)[s.row], presets[s.row]) IN
          m.state = Flushed(w)[s.row].state /\ m.section = Flushed(w)[s.row].section
      BY <1>0, <2>2, <3>1, MaterializedType
    <3>3. \A r \in Records : /\ rec'[r].state = Flushed(w)[r].state
                             /\ rec'[r].section = Flushed(w)[r].section
      BY <1>0, <2>2, <2>5, <3>2
    <3> QED
      BY <1>0, <2>2, <2>3, <2>5, <3>3, FlushKeepsItems, NothingSection DEF InBatch
  <2> QED
    BY <2>3, <2>4, <2>5
<1>8. CASE FinishBatch(w)
  <2>1. PICK t \in Request :
          /\ request' = [request EXCEPT ![w] = t] /\ SaneSession(t) /\ rec' = Flushed(w)
          /\ t = [Idle EXCEPT !.again = s.again]
    BY <1>0, <1>8, FinishBatchEffect
  <2>2. /\ request'[w] = t /\ t.pend = NothingPending /\ t.todo \in Seq(OneName)
        /\ t.stage \notin InBatch
    <3>1. /\ request'[w] = t /\ t.pend = Idle.pend /\ t.todo = Idle.todo
          /\ t.stage = Idle.stage
      BY <1>0, <2>1, IdleTidy, OneSession DEF Request
    <3> QED
      BY <3>1, IdleTidy
  <2> QED
    BY <2>1, <2>2, FlushKeepsItems, NothingSection
<1>9. CASE CutOff(w)
  <2>1. UNCHANGED rec /\ request'[w] = Idle
    BY <1>0, <1>9, IdleType, OneSession DEF CutOff, Continue
  <2> QED
    BY <2>1, IdleTidy, NothingSection, SameKeepsItems
<1>10. CASE FinishContribution(w)
  <2> DEFINE m == Materialized(rec[s.row], presets[s.row])
  <2>1. /\ s.stage = "door" /\ rec' = [rec EXCEPT ![s.row] = m]
        /\ request' = [Disturbed EXCEPT ![w] = Idle]
    BY <1>10 DEF FinishContribution, At
  <2>2. request'[w] = Idle /\ s.row \in Records
    BY <1>0, <2>1, IdleType, DoorSession DEF SaneSession, Sane
  <2>3. rec[s.row] \in Record /\ presets[s.row] \in SUBSET Preset
    BY <1>0, <2>2 DEF TypeInv, TypeOK
  <2>4. KeepsItem(rec[s.row], m)
    BY <2>3, MaterializedType DEF KeepsItem
  <2> HIDE DEF m, s
  <2>5. \A q \in Records : KeepsItem(rec[q], rec'[q])
    BY <1>0, <2>1, <2>2, <2>4, ReplacedKeepsItem
  <2> QED
    BY <2>2, <2>5, IdleTidy, NothingSection, RowsKeepItems
<1> QED
  BY <1>1, <1>2, <1>3, <1>4, <1>5, <1>6, <1>7, <1>8, <1>9, <1>10 DEF Step

LEMMA DoorUnique ==
  ASSUME NEW w \in Workers, ItemInv(w), Door
  PROVE  Unique(rec', request'[w]) /\ Tidy(rec', request'[w])
<1> DEFINE Goal == \A q \in Records : KeepsItem(rec[q], rec'[q])
<1>0. TypeInv /\ presets \in [Records -> SUBSET Preset]
  BY DEF ItemInv, BornInv, TypeInv, TypeOK
<1>1. ASSUME CreateInstance PROVE Goal
  <2>1. PICK r \in Records : rec[r] = Unborn /\ rec' = [rec EXCEPT ![r] = New(NoSection)]
    BY <1>1 DEF CreateInstance, Write
  <2>2. New(NoSection).state = "live" /\ New(NoSection).section.item = None
    BY NewType DEF NoSection, Section
  <2>3. KeepsItem(rec[r], New(NoSection))
    BY <2>1, <2>2, UnbornType DEF KeepsItem
  <2> QED
    BY <1>0, <2>1, <2>3, ReplacedKeepsItem
<1>2. ASSUME NEW r \in Records, DeleteInstance(r) PROVE Goal
  <2> DEFINE gone == [Unborn EXCEPT !.state = "gone"]
  <2>1. rec' = [rec EXCEPT ![r] = gone] /\ gone.state = "gone"
    BY <1>2, GoneType DEF DeleteInstance, Write
  <2> HIDE DEF gone
  <2>2. KeepsItem(rec[r], gone)
    BY <2>1 DEF KeepsItem
  <2> QED
    BY <1>0, <2>1, <2>2, ReplacedKeepsItem
<1>3. ASSUME NEW r \in Records, NEW data \in Data, WriteClientSection(r, data) PROVE Goal
  <2>1. PICK m \in Record :
          /\ rec' = [rec EXCEPT ![r] = m] /\ m.state = rec[r].state
          /\ m.section.item = rec[r].section.item
    BY <1>0, <1>3, SectionWritten
  <2>2. KeepsItem(rec[r], m)
    BY <2>1 DEF KeepsItem
  <2> QED
    BY <1>0, <2>1, <2>2, ReplacedKeepsItem
<1>4. ASSUME NEW r \in Records, NEW p \in Paths, NEW v \in Values,
             AssertCanonical(r, p, v) \/ ObserveCanonical(r, p, v)
      PROVE  Goal
  <2>1. SetLeaf(r, p, v)
    BY <1>4 DEF AssertCanonical, ObserveCanonical
  <2>2. PICK m \in Record :
          rec' = [rec EXCEPT ![r] = m] /\ m.state = rec[r].state /\ m.section = rec[r].section
    BY <1>0, <2>1, LeafWritten DEF Rewritten
  <2>3. KeepsItem(rec[r], m)
    BY <2>2 DEF KeepsItem
  <2> QED
    BY <1>0, <2>2, <2>3, ReplacedKeepsItem
<1>5. ASSUME NEW r \in Records, NEW p, DeletePreset(r, p) PROVE Goal
  <2> DEFINE m == Materialized(rec[r], presets'[r])
  <2>1. rec' = [rec EXCEPT ![r] = m] /\ rec[r] \in Record /\ presets'[r] \in SUBSET Preset
    BY <1>0, <1>5, PresetDeleted
  <2>2. KeepsItem(rec[r], m)
    <3>1. m.state = rec[r].state /\ m.section = rec[r].section
      BY <2>1, MaterializedType
    <3> HIDE DEF m
    <3> QED
      BY <3>1 DEF KeepsItem
  <2> HIDE DEF m
  <2> QED
    BY <1>0, <2>1, <2>2, ReplacedKeepsItem
<1>6. ASSUME NEW r \in Records, NEW b \in Blobs, DeleteMedia(r, b) PROVE Goal
  <2>1. PICK m \in Record :
          rec' = [rec EXCEPT ![r] = m] /\ m.state = rec[r].state /\ m.section = rec[r].section
    BY <1>0, <1>6, MediaDropped DEF Rewritten
  <2>2. KeepsItem(rec[r], m)
    BY <2>1 DEF KeepsItem
  <2> QED
    BY <1>0, <2>1, <2>2, ReplacedKeepsItem
<1>7. Goal
  BY <1>1, <1>2, <1>3, <1>4, <1>5, <1>6 DEF Door
<1>8. Alike(request[w], request'[w])
  BY <1>0, DoorOthers
<1> QED
  BY <1>7, <1>8, RowsKeepItems DEF Alike, ItemInv, Tidy

\* One session, and every item of its batches names its record in one way.
LEMMA NextUnique ==
  ASSUME NEW w \in Workers, Workers = {w}, \A b \in Batches : b \in Seq(OneName),
         ItemInv(w), [Next]_vars
  PROVE  ItemInv(w)'
<1> DEFINE Goal == Unique(rec', request'[w]) /\ Tidy(rec', request'[w])
<1>0. /\ TypeInv /\ BornInv /\ BornInv' /\ rec \in [Records -> Record]
      /\ Unique(rec, request[w]) /\ Tidy(rec, request[w])
  BY NextBorn DEF ItemInv, BornInv, TypeInv, TypeOK
<1> SUFFICES Goal
  BY <1>0 DEF ItemInv
<1>1. CASE UNCHANGED vars
  BY <1>0, <1>1 DEF vars
<1>2. CASE Door
  BY <1>2, DoorUnique
<1>3. CASE Step(w)
  BY <1>3, StepUnique
<1>4. ASSUME NEW b \in Batches, NEW can, can \in BOOLEAN /\ StartBatch(w, b, can)
      PROVE  Goal
  <2>1. PICK t \in Request : Started(w, b, can, t)
    BY <1>0, <1>4, StartBatchEffect
  <2>2. /\ request' = [request EXCEPT ![w] = t] /\ SaneSession(t) /\ rec' = rec
        /\ t.stage = "item" /\ t.todo = b /\ t.pend = NothingPending
        /\ t.known = {r \in Records : Live(r)}
        /\ t.index = [i \in ItemIds |-> {r \in t.known : rec[r].section.item = i}]
    BY <2>1 DEF Started
  <2>3. request'[w] = t
    BY <1>0, <2>2, OneSession
  <2>4. Tidy(rec', t)
    BY <2>2, NothingSection DEF Tidy, InBatch
  <2>5. ASSUME NEW i \in ItemIds, NEW r \in Records, Carries(r, i, rec', t)
        PROVE  /\ Carries(r, i, rec, request[w])
               /\ r \in t.index[i]
    BY <2>2, <2>5, NothingSection DEF Carries, Live
  <2>6. Unique(rec', t)
    BY <1>0, <2>5 DEF Unique
  <2> QED
    BY <2>3, <2>4, <2>6
<1>5. ASSUME NEW r \in Records, StartUpload(w, r) PROVE Goal
  <2>1. PICK t \in Request :
          /\ request' = [request EXCEPT ![w] = t] /\ DoorRequest(r, t, "upload", rec)
          /\ rec' = rec
    BY <1>0, <1>5, StartUploadEffect
  <2>2. request'[w] = t /\ t.pend = NothingPending /\ t.stage = "upload" /\ t.todo = <<>>
    BY <1>0, <2>1, OneSession DEF DoorRequest
  <2>3. t.todo \in Seq(OneName)
    BY <2>2
  <2>4. \A q \in Records : t.pend[q].section = None
    BY <2>2, NothingSection
  <2> QED
    BY <2>1, <2>2, <2>3, <2>4, SameKeepsItems DEF InBatch
<1>6. ASSUME NEW r \in Records, NEW e \in PresetEntry, StartContribution(w, r, e) PROVE Goal
  <2>1. PICK t \in Request :
          /\ request' = [Disturbed EXCEPT ![w] = t] /\ DoorRequest(r, t, "door", None)
          /\ rec' = rec
    BY <1>0, <1>6, StartContributionEffect
  <2>2. request'[w] = t /\ t.pend = NothingPending /\ t.stage = "door" /\ t.todo = <<>>
    BY <1>0, <2>1, DoorSession DEF DoorRequest
  <2>3. t.todo \in Seq(OneName)
    BY <2>2
  <2>4. \A q \in Records : t.pend[q].section = None
    BY <2>2, NothingSection
  <2> QED
    BY <2>1, <2>2, <2>3, <2>4, SameKeepsItems DEF InBatch
<1>7. ASSUME NEW b \in Blobs, FinishUpload(w, b) PROVE Goal
  <2>1. /\ request' = [Disturbed EXCEPT ![w] = Idle] /\ request[w].row \in Records
        /\ Uploaded(w, b) \/ UNCHANGED rec
    BY <1>0, <1>7, FinishUploadEffect
  <2>2. request'[w] = Idle
    BY <1>0, <2>1, IdleType, DoorSession
  <2>3. CASE UNCHANGED rec
    BY <2>2, <2>3, IdleTidy, NothingSection, SameKeepsItems
  <2>4. CASE Uploaded(w, b)
    <3> DEFINE r == request[w].row
    <3>1. PICK m \in Record :
            rec' = [rec EXCEPT ![r] = m] /\ m.state = rec[r].state /\ m.section = rec[r].section
      BY <2>4 DEF Uploaded
    <3>2. KeepsItem(rec[r], m)
      BY <3>1 DEF KeepsItem
    <3>3. \A q \in Records : KeepsItem(rec[q], rec'[q])
      BY <1>0, <2>1, <3>1, <3>2, ReplacedKeepsItem
    <3> QED
      BY <2>2, <3>3, IdleTidy, NothingSection, RowsKeepItems
  <2> QED
    BY <2>1, <2>3, <2>4
<1> QED
  BY <1>1, <1>2, <1>3, <1>4, <1>5, <1>6, <1>7 DEF Next

LEMMA UniqueItems ==
  ASSUME NEW w, ItemInv(w)
  PROVE  OneRecordPerItem
<1> SUFFICES ASSUME NEW i \in ItemIds
             PROVE  Cardinality({r \in Records : Live(r) /\ rec[r].section.item = i}) <= 1
  BY DEF OneRecordPerItem
<1> DEFINE carriers == {r \in Records : Live(r) /\ rec[r].section.item = i}
<1>1. ASSUME NEW r \in carriers, NEW q \in carriers PROVE r = q
  <2>1. r \in Records /\ q \in Records
    BY <1>1
  <2>2. Carries(r, i, rec, request[w]) /\ Carries(q, i, rec, request[w])
    BY <1>1 DEF Carries, Live
  <2> QED
    BY <2>1, <2>2 DEF ItemInv, Unique
<1> SUFFICES Cardinality(carriers) <= 1
  OBVIOUS
<1> HIDE DEF carriers
<1>2. CASE carriers = {}
  BY <1>2, FS_EmptySet
<1>3. ASSUME NEW r \in carriers PROVE Cardinality(carriers) <= 1
  <2>1. carriers = {r}
    BY <1>1
  <2> QED
    <3>1. Cardinality(carriers) = 1
      BY <2>1, FS_Singleton
    <3> QED
      BY <3>1
<1> QED
  BY <1>2, <1>3

\* "The upsert is idempotent, retrying is safe" (batch_sync.py:20-22): while one
\* request is served at a time, however batches repeat an item, are cut off and
\* sent again, and whatever the single doors do in between, one record carries
\* it.  A batch names each of its records by id or by item and not by both: the
\* column has no uniqueness constraint, and an item that names one record by id
\* and another one's item gives the item a second record.
THEOREM OneRecordEach ==
  ASSUME NEW w, Workers = {w}, \A b \in Batches : b \in Seq(OneName)
  PROVE  Spec => []OneRecordPerItem
<1>0. w \in Workers
  OBVIOUS
<1>1. ASSUME Init PROVE ItemInv(w)
  <2>1. BornInv
    BY <1>1, InitTyped, IdleIgnores DEF Init, BornInv
  <2>2. rec = [r \in Records |-> Unborn] /\ request[w] = Idle
    BY <1>0, <1>1 DEF Init
  <2>3. Tidy(rec, Idle)
    BY <2>2, IdleTidy, NothingSection DEF Tidy
  <2>4. Unique(rec, Idle)
    BY <2>2, UnbornType DEF Unique, Carries
  <2> QED
    BY <2>1, <2>2, <2>3, <2>4 DEF ItemInv
<1>2. ItemInv(w) /\ [Next]_vars => ItemInv(w)'
  BY <1>0, NextUnique
<1>3. ItemInv(w) => OneRecordPerItem
  BY UniqueItems
<1> QED
  BY <1>1, <1>2, <1>3, PTL DEF Spec

-----------------------------------------------------------------------------
(* Finished batches, one at a time. *)

\* Two items of a batch do not contradict each other: both name their records by id or
\* both by item, and if it is the same record, they want the same of it.
Compatible(i, j) ==
  /\ i.id = None <=> j.id = None
  /\ i.id = j.id /\ i.item = j.item =>
       /\ i.data = j.data
       /\ \A m \in DOMAIN i.asserts, n \in DOMAIN j.asserts :
            i.asserts[m].path = j.asserts[n].path => i.asserts[m].value = j.asserts[n].value
       /\ \A m \in DOMAIN i.presets, n \in DOMAIN j.presets :
            /\ i.presets[m].mark # None /\ j.presets[n].mark # None
            /\ i.presets[m].key = j.presets[n].key
            => i.presets[m].mark = j.presets[n].mark

\* Items that the guards refuse may say anything.
Consistent ==
  {b \in Seq(OneName) :
     \A m, n \in DOMAIN b : GuardsPass(b[m]) /\ GuardsPass(b[n]) => Compatible(b[m], b[n])}

\* What is left to do is the end of what was asked for.
Aligned(all, todo) ==
  /\ Len(todo) <= Len(all)
  /\ \A n \in 1 .. Len(todo) : todo[n] = all[Len(all) - Len(todo) + n]

Valid(i) ==
  /\ \A m \in DOMAIN i.asserts : i.asserts[m].path \in Paths
  /\ i.id = None => i.item # None

\* The record that an item names, to a batch that has indexed the items.
Names(i, r, s) == IF i.id # None THEN r = i.id ELSE i.item # None /\ r \in s.index[i.item]

Entry(e) == [key |-> e.key, mark |-> e.mark]

\* The canonical shows what the item asserts and contributes.
Shown(i, canon, entries) ==
  /\ \A m \in DOMAIN i.asserts : canon.leaf[i.asserts[m].path] = i.asserts[m].value
  /\ \A m \in DOMAIN i.presets :
       i.presets[m].mark # None => Entry(i.presets[m]) \in canon.union \cap entries

Fits(i, row) ==
  /\ row.state = "live" /\ row.section.data = i.data
  /\ i.id = None => row.section.item = i.item

Held(i, row, entries) == Fits(i, row) /\ Shown(i, row.canon, entries)

\* Every valid item that was dealt with is on its record, as the session sees it.
Served(rows, entries, s) ==
  \A n \in 1 .. Len(s.batch) - Len(s.todo) :
    LET i == s.batch[n] IN
    Valid(i) => \/ i.id # None /\ rows[i.id].state # "live"
                \/ \E r \in Records : Names(i, r, s) /\ Held(i, rows[r], entries[r])

\* The index is what the table says: the records there are, and one for an item.
Filed(rows, s) ==
  /\ \A r \in Records : r \in s.known <=> rows[r].state = "live"
  /\ \A i \in ItemIds : s.index[i] \subseteq s.known
  /\ \A i, j \in ItemIds : \A r \in s.index[i], q \in s.index[j] : i = j <=> r = q

\* The record of the item at hand.
AtHand(rows, s) ==
  LET i == Head(s.todo) IN
  GuardsPass(i) /\ Names(i, s.row, s) /\ Fits(i, rows[s.row])

\* Its asserts are on the local copy, and so is what earlier items said of the record.
Asserting(rows, entries, s) ==
  LET i == Head(s.todo) IN
  /\ AtHand(rows, s) /\ Aligned(i.asserts, s.asserts) /\ s.presets = i.presets
  /\ \A m \in 1 .. Len(i.asserts) - Len(s.asserts) :
       /\ i.asserts[m].path \in Paths
       /\ s.canon.leaf[i.asserts[m].path] = i.asserts[m].value
  /\ ~s.applied => s.canon = rows[s.row].canon
  /\ \A n \in 1 .. Len(s.batch) - Len(s.todo) :
       Valid(s.batch[n]) /\ Names(s.batch[n], s.row, s)
         => Shown(s.batch[n], s.canon, entries[s.row])

\* Its asserts are on the record, and its contributions among the rows.
Contributing(rows, entries, s) ==
  LET i == Head(s.todo) IN
  /\ AtHand(rows, s) /\ Aligned(i.presets, s.presets)
  /\ \A m \in DOMAIN i.asserts :
       rows[s.row].canon.leaf[i.asserts[m].path] = i.asserts[m].value
  /\ \A m \in 1 .. Len(i.presets) - Len(s.presets) :
       i.presets[m].mark # None => s.contributed /\ Entry(i.presets[m]) \in entries[s.row]

\* Where a batch that nobody disturbed stands.
Working(rows, entries, s, table) ==
  /\ s.batch \in Consistent /\ Aligned(s.batch, s.todo)
  /\ s.seen = None \/ s.seen = table
  /\ Filed(rows, s) /\ Served(rows, entries, s)
  /\ s.stage = "assert" => Asserting(rows, entries, s)
  /\ s.stage = "preset" => Contributing(rows, entries, s)

Progress(rows, entries, s, table) ==
  s.quiet /\ s.can /\ s.stage \in InBatch => Working(rows, entries, s, table)

FinishInv(w) ==
  /\ ItemInv(w) /\ Progress(Flushed(w), presets, request[w], rec)
  /\ last # None => request[w].stage \in {"idle", "upload"}
  /\ FinishedMeansApplied

LEMMA WholeAligned == ASSUME NEW S, NEW all \in Seq(S) PROVE Aligned(all, all)
BY LenProperties DEF Aligned

LEMMA TailAligned ==
  ASSUME NEW S, NEW all \in Seq(S), NEW todo \in Seq(S), Aligned(all, todo), todo # <<>>
  PROVE  /\ Aligned(all, Tail(todo)) /\ Tail(todo) \in Seq(S)
         /\ Len(all) - Len(todo) \in Nat
         /\ Len(all) - Len(Tail(todo)) = Len(all) - Len(todo) + 1
         /\ Len(all) - Len(todo) + 1 \in DOMAIN all
         /\ Head(todo) = all[Len(all) - Len(todo) + 1]
<1>1. /\ Tail(todo) \in Seq(S) /\ Len(Tail(todo)) = Len(todo) - 1
      /\ \A i \in 1 .. Len(Tail(todo)) : Tail(todo)[i] = todo[i + 1]
  BY HeadTailProperties
<1>2. Len(all) \in Nat /\ Len(todo) \in Nat /\ Len(todo) >= 1 /\ Head(todo) = todo[1]
  BY EmptySeq, LenProperties
<1>3. DOMAIN all = 1 .. Len(all)
  BY LenProperties
<1> QED
  BY <1>1, <1>2, <1>3 DEF Aligned

LEMMA ValidPasses == ASSUME NEW i, Valid(i) PROVE GuardsPass(i)
BY PathsAssumption DEF Valid, GuardsPass

\* Two items of one record want the same of it.
Agree(i, j) ==
  /\ i.id = None <=> j.id = None
  /\ i.data = j.data /\ i.item = j.item
  /\ \A m \in DOMAIN i.asserts, n \in DOMAIN j.asserts :
       i.asserts[m].path = j.asserts[n].path => i.asserts[m].value = j.asserts[n].value
  /\ \A m \in DOMAIN i.presets, n \in DOMAIN j.presets :
       /\ i.presets[m].mark # None /\ j.presets[n].mark # None
       /\ i.presets[m].key = j.presets[n].key
       => i.presets[m].mark = j.presets[n].mark

LEMMA SameRecord ==
  ASSUME NEW s, s.batch \in Consistent, NEW rows, Filed(rows, s), NEW r \in Records,
         NEW m \in DOMAIN s.batch, NEW n \in DOMAIN s.batch,
         GuardsPass(s.batch[m]), GuardsPass(s.batch[n]),
         Names(s.batch[m], r, s), Names(s.batch[n], r, s)
  PROVE  Agree(s.batch[m], s.batch[n])
<1>1. s.batch[m] \in OneName /\ s.batch[n] \in OneName /\ Compatible(s.batch[m], s.batch[n])
  BY DEF Consistent
<1> DEFINE i == s.batch[m]
           j == s.batch[n]
<1>2. /\ i.id = None \/ i.item = None
      /\ j.id = None \/ j.item = None
      /\ i.item \in ItemIds \cup {None} /\ j.item \in ItemIds \cup {None}
      /\ i.id = None <=> j.id = None
  BY <1>1 DEF OneName, BatchItem, Compatible
<1>3. Names(i, r, s) /\ Names(j, r, s)
  OBVIOUS
<1> HIDE DEF i, j
<1>4. i.id = j.id /\ i.item = j.item
  <2>1. CASE i.id # None
    BY <1>2, <1>3, <2>1 DEF Names
  <2>2. CASE i.id = None
    <3>1. /\ i.item \in ItemIds /\ j.item \in ItemIds /\ r \in s.index[i.item]
          /\ r \in s.index[j.item] /\ j.id = None
      BY <1>2, <1>3, <2>2 DEF Names
    <3> QED
      BY <2>2, <3>1 DEF Filed
  <2> QED
    BY <2>1, <2>2
<1> QED
  BY <1>1, <1>4 DEF Agree, Compatible, i, j

LEMMA ShownAfterAssert ==
  ASSUME NEW i, NEW j, Agree(j, i), Valid(j), NEW c, NEW entries, Shown(j, c, entries),
         NEW n \in DOMAIN i.asserts, NEW d, d.union = c.union,
         \A p \in Paths : d.leaf[p] = IF p = i.asserts[n].path THEN i.asserts[n].value
                                      ELSE c.leaf[p]
  PROVE  Shown(j, d, entries)
<1>1. ASSUME NEW m \in DOMAIN j.asserts
      PROVE  d.leaf[j.asserts[m].path] = j.asserts[m].value
  <2>1. /\ j.asserts[m].path \in Paths
        /\ c.leaf[j.asserts[m].path] = j.asserts[m].value
        /\ j.asserts[m].path = i.asserts[n].path => j.asserts[m].value = i.asserts[n].value
    BY <1>1 DEF Valid, Shown, Agree
  <2> QED
    BY <2>1
<1> QED
  BY <1>1 DEF Shown

LEMMA ShownAfterUnion ==
  ASSUME NEW j, NEW c, NEW entries, Shown(j, c, entries), NEW d, d.leaf = c.leaf,
         d.union = entries
  PROVE  Shown(j, d, entries)
BY DEF Shown

\* The item at hand joins what was served.
LEMMA ServedNext ==
  ASSUME NEW rows, NEW entries, NEW s, Served(rows, entries, s), NEW t, NEW S,
         s.batch \in Seq(S), s.todo \in Seq(S), s.todo # <<>>, Aligned(s.batch, s.todo),
         t.batch = s.batch, t.todo = Tail(s.todo), t.index = s.index,
         LET i == Head(s.todo) IN
         Valid(i) => \/ i.id # None /\ rows[i.id].state # "live"
                     \/ \E r \in Records : Names(i, r, s) /\ Held(i, rows[r], entries[r])
  PROVE  Served(rows, entries, t) /\ Aligned(t.batch, t.todo)
<1> DEFINE k == Len(s.batch) - Len(s.todo)
<1>1. /\ k \in Nat /\ Len(t.batch) - Len(t.todo) = k + 1 /\ Head(s.todo) = s.batch[k + 1]
      /\ Aligned(t.batch, t.todo)
  <2> DEFINE all == s.batch
             todo == s.todo
  <2>1. all \in Seq(S) /\ todo \in Seq(S) /\ Aligned(all, todo) /\ todo # <<>>
    OBVIOUS
  <2> HIDE DEF all, todo
  <2>2. /\ Aligned(all, Tail(todo)) /\ Len(all) - Len(todo) \in Nat
        /\ Len(all) - Len(Tail(todo)) = Len(all) - Len(todo) + 1
        /\ Head(todo) = all[Len(all) - Len(todo) + 1]
    BY <2>1, TailAligned
  <2> QED
    BY <2>2 DEF all, todo
<1>2. \A i, r : Names(i, r, t) <=> Names(i, r, s)
  BY DEF Names
<1> SUFFICES ASSUME NEW n \in 1 .. k + 1, Valid(s.batch[n])
             PROVE  \/ s.batch[n].id # None /\ rows[s.batch[n].id].state # "live"
                    \/ \E r \in Records : /\ Names(s.batch[n], r, s)
                                         /\ Held(s.batch[n], rows[r], entries[r])
  BY <1>1, <1>2 DEF Served
<1>3. CASE n = k + 1
  BY <1>1, <1>3
<1>4. CASE n \in 1 .. k
  BY <1>4 DEF Served
<1>5. n = k + 1 \/ n \in 1 .. k
  <2>1. k \in Nat
    BY <1>1
  <2> HIDE DEF k
  <2> QED
    BY <2>1
<1> QED
  BY <1>3, <1>4, <1>5

\* What others read of a row.
Like(a, b) == a.state = b.state /\ a.section = b.section /\ a.canon = b.canon

\* A session that nobody disturbed sees what it would flush.
LEMMA SeenView ==
  ASSUME NEW w, NEW r \in Records, request[w].seen = None \/ request[w].seen = rec
  PROVE  Row(w, r) = Flushed(w)[r]
BY DEF Row, Flushed

\* What a session is about to flush, once it has flushed nothing of a record.
LEMMA ViewOf ==
  ASSUME NEW w, NEW r \in Records, rec' \in [Records -> Record], NEW t \in Request,
         request'[w] = t
  PROVE  LET q == t.pend[r] IN
         /\ Flushed(w)'[r].state = rec'[r].state
         /\ Flushed(w)'[r].section = IF q.section = None THEN rec'[r].section ELSE q.section
         /\ Flushed(w)'[r].canon = IF q.canon = None THEN rec'[r].canon ELSE q.canon
<1>1. t.pend[r] \in Pending /\ rec'[r] \in Record
      /\ Flushed(w)'[r] = Overlay(rec'[r], t.pend[r])
  BY DEF Request, Flushed
<1> QED
  BY <1>1, OverlayType

LEMMA LikeHeld ==
  ASSUME NEW a, NEW b, Like(a, b)
  PROVE  /\ \A i, entries : Held(i, a, entries) <=> Held(i, b, entries)
         /\ \A i : Fits(i, a) <=> Fits(i, b)
BY DEF Like, Held, Fits

LEMMA LikeFiled ==
  ASSUME NEW rows, NEW s, Filed(rows, s), NEW new,
         \A r \in Records : new[r].state = rows[r].state
  PROVE  Filed(new, s)
BY DEF Filed

\* A valid item that was dealt with is on the record that it names.
LEMMA ServedOn ==
  ASSUME NEW rows, NEW entries, NEW s, s.batch \in Consistent, Filed(rows, s),
         Served(rows, entries, s), NEW n \in 1 .. Len(s.batch) - Len(s.todo),
         n \in DOMAIN s.batch, Valid(s.batch[n]), NEW r \in Records, rows[r].state = "live",
         Names(s.batch[n], r, s)
  PROVE  Held(s.batch[n], rows[r], entries[r])
<1> DEFINE i == s.batch[n]
<1>1. i.item \in ItemIds \cup {None}
  BY DEF Consistent, OneName, BatchItem
<1>2. \/ i.id # None /\ rows[i.id].state # "live"
      \/ \E q \in Records : Names(i, q, s) /\ Held(i, rows[q], entries[q])
  BY DEF Served
<1>3. Names(i, r, s)
  OBVIOUS
<1> HIDE DEF i
<1>4. CASE i.id # None /\ rows[i.id].state # "live"
  BY <1>3, <1>4 DEF Names
<1>5. CASE \E q \in Records : Names(i, q, s) /\ Held(i, rows[q], entries[q])
  <2>1. PICK q \in Records : Names(i, q, s) /\ Held(i, rows[q], entries[q])
    BY <1>5
  <2>2. q = r
    BY <1>1, <1>3, <2>1 DEF Names, Filed
  <2> QED
    BY <2>1, <2>2 DEF i
<1> QED
  BY <1>2, <1>4, <1>5 DEF i

\* What stands in the way of nothing else: the item at hand is done, on its record
\* or nowhere.
LEMMA MovesOn ==
  ASSUME NEW rows, NEW entries, NEW s, s.batch \in Consistent, s.todo \in Seq(OneName),
         s.todo # <<>>, Aligned(s.batch, s.todo), Filed(rows, s), Served(rows, entries, s),
         LET i == Head(s.todo) IN
         Valid(i) => \/ i.id # None /\ rows[i.id].state # "live"
                     \/ \E r \in Records : Names(i, r, s) /\ Held(i, rows[r], entries[r]),
         NEW t, Skipped(s, t), NEW table, t.seen = None \/ t.seen = table
  PROVE  Progress(rows, entries, t, table)
<1>1. /\ t.batch = s.batch /\ t.todo = Tail(s.todo) /\ t.index = s.index
      /\ t.known = s.known /\ t.stage = "item"
  BY DEF Skipped, Onward
<1>2. s.batch \in Seq(OneName)
  BY DEF Consistent
<1>3. Served(rows, entries, t) /\ Aligned(t.batch, t.todo)
  BY <1>1, <1>2, ServedNext
<1>4. Filed(rows, t)
  BY <1>1 DEF Filed
<1> QED
  BY <1>1, <1>3, <1>4 DEF Progress, Working

LEMMA SameView ==
  ASSUME NEW w, rec' = rec, NEW t, request'[w] = t, t.pend = request[w].pend
  PROVE  Flushed(w)' = Flushed(w)
BY DEF Flushed

\* What a working batch is, besides.
LEMMA AtWork ==
  ASSUME NEW w \in Workers, ItemInv(w), Working(Flushed(w), presets, request[w], rec)
  PROVE  LET s == request[w] IN
         /\ TypeInv /\ s \in Request /\ SaneSession(s)
         /\ s.todo \in Seq(OneName) /\ s.batch \in Consistent /\ s.batch \in Seq(OneName)
         /\ Aligned(s.batch, s.todo)
         /\ Filed(Flushed(w), s) /\ Served(Flushed(w), presets, s)
         /\ s.seen = None \/ s.seen = rec
         /\ DOMAIN s.batch = 1 .. Len(s.batch)
         /\ \A n \in 1 .. Len(s.batch) - Len(s.todo) : n \in DOMAIN s.batch
<1> DEFINE s == request[w]
<1>1. TypeInv /\ s \in Request /\ SaneSession(s) /\ s.todo \in Seq(OneName)
  BY SessionType DEF ItemInv, BornInv, Tidy
<1>2. s.batch \in Consistent /\ s.batch \in Seq(OneName)
  BY DEF Working, Consistent
<1>3. /\ DOMAIN s.batch = 1 .. Len(s.batch) /\ Len(s.batch) \in Nat /\ Len(s.todo) \in Nat
  BY <1>1, <1>2, LenProperties
<1>4. \A n \in 1 .. Len(s.batch) - Len(s.todo) : n \in DOMAIN s.batch
  BY <1>3
<1> QED
  BY <1>1, <1>2, <1>3, <1>4 DEF Working

\* The item at hand is an item of the batch, behind those that were dealt with.
LEMMA ItemAtHand ==
  ASSUME NEW w \in Workers, ItemInv(w), Working(Flushed(w), presets, request[w], rec),
         request[w].todo # <<>>
  PROVE  LET s == request[w] IN
         \E k \in DOMAIN s.batch :
           /\ Item(w) = s.batch[k] /\ Item(w) \in OneName
           /\ Item(w) = Head(s.todo) /\ Item(w).id \in Records \cup {None}
           /\ Item(w).item \in ItemIds \cup {None}
<1> DEFINE s == request[w]
           all == s.batch
           todo == s.todo
<1>1. /\ all \in Seq(OneName) /\ todo \in Seq(OneName) /\ Aligned(all, todo) /\ todo # <<>>
  BY AtWork
<1>2. /\ Item(w) = Head(todo) /\ Item(w) \in OneName
      /\ Item(w).id \in Records \cup {None} /\ Item(w).item \in ItemIds \cup {None}
  <2>1. Item(w) = Head(todo)
    BY DEF Item
  <2>2. Item(w) \in OneName
    BY <1>1, <2>1, HeadTail
  <2> HIDE DEF todo
  <2> QED
    BY <2>1, <2>2 DEF OneName, BatchItem
<1> HIDE DEF all, todo
<1>3. Len(all) - Len(todo) + 1 \in DOMAIN all /\ Head(todo) = all[Len(all) - Len(todo) + 1]
  BY <1>1, TailAligned
<1> QED
  BY <1>2, <1>3 DEF all, todo

LEMMA SkipWorks ==
  ASSUME NEW w \in Workers, ItemInv(w), Working(Flushed(w), presets, request[w], rec),
         request[w].can, SkipItem(w)
  PROVE  Progress(Flushed(w)', presets', request'[w], rec')
<1> DEFINE s == request[w]
           i == Item(w)
           rows == Flushed(w)
<1>1. PICK t \in Request :
        /\ request' = [request EXCEPT ![w] = t] /\ Skipped(s, t)
        /\ t.pend = s.pend /\ t.seen = s.seen
  BY AtWork, SkipItemEffect
<1>2. /\ s.todo # <<>> /\ rec' = rec /\ presets' = presets
      /\ \/ ~GuardsPass(i)
         \/ Cardinality(Targets(w, i)) # 1 /\ ~MayCreate(w, i)
  BY DEF SkipItem
<1>3. request'[w] = t /\ Flushed(w)' = rows
  <2>1. request'[w] = t
    BY <1>1, AtWork, OneSession DEF Skipped
  <2> QED
    BY <1>1, <1>2, <2>1, SameView
<1>4. /\ i = Head(s.todo) /\ i.id \in Records \cup {None} /\ i.item \in ItemIds \cup {None}
      /\ Filed(rows, s)
  BY <1>2, AtWork, ItemAtHand
<1>5. ASSUME Valid(i) PROVE i.id # None /\ rows[i.id].state # "live"
  <2>1. Cardinality(Targets(w, i)) # 1 /\ ~MayCreate(w, i)
    BY <1>2, <1>5, ValidPasses
  <2>2. Targets(w, i) # {i.id} /\ \A r \in Records : Targets(w, i) # {r}
    BY <2>1, FS_Singleton
  <2> HIDE DEF i
  <2>3. CASE i.id # None
    <3>1. Targets(w, i) = s.known \cap {i.id}
      BY <2>3 DEF Targets
    <3>2. i.id \notin s.known
      BY <2>2, <3>1
    <3> QED
      BY <1>4, <2>3, <3>2 DEF Filed
  <2>4. CASE i.id = None
    <3>1. i.item \in ItemIds /\ Targets(w, i) = s.index[i.item]
      BY <1>4, <1>5, <2>4 DEF Valid, Targets
    <3>2. Targets(w, i) # {}
      BY <2>1, <2>4, <3>1, NoneAssumption DEF MayCreate
    <3>3. s.index \in [ItemIds -> SUBSET Records]
      BY AtWork DEF Request
    <3>4. PICK r \in s.index[i.item] : TRUE
      BY <3>1, <3>2
    <3>5. s.index[i.item] = {r} /\ r \in Records
      BY <1>4, <3>1, <3>3, <3>4 DEF Filed
    <3> QED
      BY <2>2, <3>1, <3>5
  <2> QED
    BY <2>3, <2>4
<1> HIDE DEF i, rows
<1>6. Progress(rows, presets, t, rec)
  BY <1>1, <1>2, <1>4, <1>5, AtWork, MovesOn DEF rows
<1> QED
  BY <1>2, <1>3, <1>6

LEMMA CleanView ==
  ASSUME NEW w, rec' \in [Records -> Record], NEW t \in Request, request'[w] = t,
         \A r \in Records : t.pend[r].section = None /\ t.pend[r].canon = None
  PROVE  \A r \in Records : Like(rec'[r], Flushed(w)'[r])
BY ViewOf DEF Like

LEMMA CleanParts ==
  \A r \in Records : NothingPending[r].section = None /\ NothingPending[r].canon = None
BY DEF NothingPending, Clean

LEMMA CreateWorks ==
  ASSUME NEW w \in Workers, ItemInv(w), Working(Flushed(w), presets, request[w], rec),
         request[w].can, CreateItem(w)
  PROVE  Progress(Flushed(w)', presets', request'[w], rec')
<1> DEFINE s == request[w]
           i == Item(w)
           rows == Flushed(w)
           new == Flushed(w)'
<1>0. /\ TypeInv /\ s \in Request /\ Filed(rows, s) /\ Served(rows, presets, s)
      /\ s.batch \in Consistent /\ Aligned(s.batch, s.todo)
      /\ \A n \in 1 .. Len(s.batch) - Len(s.todo) : n \in DOMAIN s.batch
  BY AtWork
<1>1. PICK r \in Records, t \in Request, section \in Section : Created(w, r, section, t)
  BY <1>0, CreateItemEffect
<1>2. presets' = presets /\ TypeInv'
  <2>1. presets' = presets
    BY DEF CreateItem
  <2>2. TypeInv'
    BY <1>0, StepTyped DEF Step
  <2> QED
    BY <2>1, <2>2
<1>3. /\ request'[w] = t /\ t.batch = s.batch /\ t.todo = s.todo /\ t.seen = None
      /\ t.known = s.known \cup {r} /\ t.index = [s.index EXCEPT ![i.item] = @ \cup {r}]
      /\ t.stage = "assert" /\ t.row = r /\ t.canon = Blank
      /\ t.asserts = i.asserts /\ t.presets = i.presets
      /\ GuardsPass(i) /\ MayCreate(w, i) /\ s.todo # <<>>
      /\ rec' = [rows EXCEPT ![r] = New(section)]
      /\ section = [data |-> i.data, item |-> i.item] /\ rec[r] = Unborn
  <2>1. request'[w] = t
    BY <1>0, <1>1, OneSession DEF Created
  <2> QED
    BY <1>1, <2>1 DEF Created, Onward
<1>4. PICK k \in DOMAIN s.batch : i = s.batch[k] /\ i = Head(s.todo)
  BY <1>3, ItemAtHand
<1>5. /\ i.id = None /\ i.item \in ItemIds /\ s.index[i.item] = {}
      /\ i.asserts \in Seq(AssertEntry) /\ i.presets \in Seq(PresetEntry)
  <2>1. i.item \in ItemIds \cup {None} /\ i.id = None /\ i.item # None /\ Targets(w, i) = {}
        /\ i.asserts \in Seq(AssertEntry) /\ i.presets \in Seq(PresetEntry)
    BY <1>0, <1>3, ItemType DEF MayCreate
  <2> HIDE DEF i
  <2> QED
    BY <2>1 DEF Targets
<1>6. r \notin s.known /\ \A j \in ItemIds : r \notin s.index[j]
  BY <1>3, UnbornType DEF ItemInv, BornInv, Ignores
<1>7. /\ s.index \in [ItemIds -> SUBSET Records] /\ rows \in [Records -> Record]
      /\ rec' \in [Records -> Record]
  BY <1>0, <1>2, FlushedType DEF Request, TypeInv, TypeOK
<1>8. /\ \A q \in Records \ {r} : Like(rows[q], new[q])
      /\ new[r].state = "live" /\ new[r].section = section /\ new[r].canon = Blank
  <2>1. \A q \in Records : Like(rec'[q], new[q])
    <3>1. t.pend = NothingPending
      BY <1>1 DEF Created
    <3>2. \A q \in Records : t.pend[q].section = None /\ t.pend[q].canon = None
      BY <3>1, CleanParts
    <3> QED
      BY <1>3, <1>7, <3>2, CleanView
  <2>2. \A q \in Records \ {r} : rec'[q] = rows[q]
    BY <1>3, <1>7
  <2>3. rec'[r] = New(section)
    BY <1>3, <1>7
  <2> HIDE DEF new, rows
  <2> QED
    BY <2>1, <2>2, <2>3, NewType DEF Like
<1>9. \A n \in 1 .. Len(s.batch) - Len(s.todo) :
        Valid(s.batch[n]) => s.batch[n].id = None /\ s.batch[n].item \in ItemIds
  <2> SUFFICES ASSUME NEW n \in 1 .. Len(s.batch) - Len(s.todo), Valid(s.batch[n])
               PROVE  s.batch[n].id = None /\ s.batch[n].item \in ItemIds
    OBVIOUS
  <2>1. n \in DOMAIN s.batch /\ GuardsPass(s.batch[n])
    BY <1>0, ValidPasses
  <2>2. Compatible(s.batch[n], i) /\ s.batch[n] \in OneName
    <3>1. GuardsPass(s.batch[k]) /\ s.batch[k] = i
      BY <1>3, <1>4
    <3> HIDE DEF s, i
    <3>2. Compatible(s.batch[n], s.batch[k])
      BY <1>0, <2>1, <3>1 DEF Consistent
    <3> QED
      BY <1>0, <2>1, <3>1, <3>2 DEF Consistent
  <2> DEFINE j == s.batch[n]
  <2>3. Compatible(j, i) /\ j \in OneName /\ Valid(j)
    BY <2>2
  <2> HIDE DEF i, j
  <2>4. j.id = None /\ j.item \in ItemIds
    BY <1>5, <2>3 DEF Compatible, OneName, BatchItem, Valid
  <2> QED
    BY <2>4 DEF j
<1> HIDE DEF rows, new, i, s
<1>10. Filed(new, t)
  <2>1. \A q \in Records : q \in t.known <=> new[q].state = "live"
    BY <1>0, <1>3, <1>8 DEF Filed, Like
  <2>2. /\ t.index[i.item] = {r}
        /\ \A j \in ItemIds \ {i.item} : t.index[j] = s.index[j]
    BY <1>3, <1>5, <1>7
  <2>3. \A j \in ItemIds : t.index[j] \subseteq t.known
    BY <1>0, <1>3, <2>2 DEF Filed
  <2>4. \A j, l \in ItemIds : \A p \in t.index[j], q \in t.index[l] : j = l <=> p = q
    BY <1>0, <1>6, <2>2 DEF Filed
  <2> QED
    BY <2>1, <2>3, <2>4 DEF Filed
<1>11. \A j \in ItemIds, q \in Records : q \in s.index[j] => q \in t.index[j] /\ q # r
  BY <1>3, <1>5, <1>6, <1>7
<1>12. Served(new, presets, t)
  <2> DEFINE Stays(n) ==
               /\ s.batch[n].id # None /\ rows[s.batch[n].id].state # "live"
                    => new[s.batch[n].id].state # "live"
               /\ \A q \in Records :
                    Names(s.batch[n], q, s) /\ Held(s.batch[n], rows[q], presets[q])
                      => Names(s.batch[n], q, t) /\ Held(s.batch[n], new[q], presets[q])
  <2> SUFFICES ASSUME NEW n \in 1 .. Len(s.batch) - Len(s.todo), Valid(s.batch[n])
               PROVE  Stays(n)
    <3>1. /\ Served(rows, presets, s) /\ t.batch = s.batch /\ t.todo = s.todo
          /\ \A n \in 1 .. Len(s.batch) - Len(s.todo) : Valid(s.batch[n]) => Stays(n)
      BY <1>0, <1>3
    <3> QED
      BY <3>1 DEF Served
  <2> DEFINE j == s.batch[n]
  <2>1. j.id = None /\ j.item \in ItemIds
    BY <1>9
  <2> HIDE DEF j
  <2>2. ASSUME NEW q \in Records, Names(j, q, s), Held(j, rows[q], presets[q])
        PROVE  Names(j, q, t) /\ Held(j, new[q], presets[q])
    <3>1. q \in t.index[j.item] /\ q # r
      BY <1>11, <2>1, <2>2 DEF Names
    <3>2. Names(j, q, t)
      BY <2>1, <2>2, <3>1 DEF Names
    <3> QED
      BY <1>8, <2>2, <3>1, <3>2, LikeHeld
  <2> QED
    BY <2>1, <2>2 DEF j
<1>13. Asserting(new, presets, t)
  <2>1. AtHand(new, t)
    <3>1. r \in t.index[i.item]
      BY <1>3, <1>5, <1>7
    <3>2. Names(i, r, t)
      BY <1>5, <3>1, NoneAssumption DEF Names
    <3>3. Fits(i, new[r])
      BY <1>3, <1>8 DEF Fits
    <3> QED
      BY <1>3, <1>4, <3>2, <3>3 DEF AtHand
  <2>2. Aligned(i.asserts, t.asserts) /\ t.presets = i.presets
    BY <1>3, <1>5, WholeAligned
  <2>3. \A m \in 1 .. Len(i.asserts) - Len(t.asserts) : FALSE
    <3>1. Len(i.asserts) \in Nat
      BY <1>5, LenProperties
    <3> QED
      BY <1>3, <3>1
  <2>4. t.canon = new[r].canon
    BY <1>3, <1>8
  <2>5. ASSUME NEW n \in 1 .. Len(t.batch) - Len(t.todo), Valid(t.batch[n]),
               Names(t.batch[n], r, t)
        PROVE  FALSE
    <3> DEFINE j == s.batch[n]
    <3>1. /\ n \in 1 .. Len(s.batch) - Len(s.todo) /\ Valid(j) /\ Names(j, r, t)
          /\ j.id = None /\ j.item \in ItemIds
      BY <1>3, <1>9, <2>5
    <3>2. \E q \in Records : Names(j, q, s)
      BY <1>0, <3>1 DEF Served
    <3> HIDE DEF j
    <3>3. r \in t.index[j.item] /\ s.index[j.item] # {}
      BY <3>1, <3>2 DEF Names
    <3>4. j.item # i.item
      BY <1>5, <3>3
    <3>5. t.index[j.item] = s.index[j.item]
      BY <1>3, <1>7, <3>1, <3>4
    <3> QED
      BY <1>6, <3>1, <3>3, <3>5
  <2> QED
    BY <1>3, <1>4, <2>1, <2>2, <2>3, <2>4, <2>5 DEF Asserting
<1> QED
  BY <1>0, <1>2, <1>3, <1>10, <1>12, <1>13 DEF Progress, Working, new

\* A step that rewrites one record, and holds there what was held.
Keeps(r, rows, entries, s, new, more, t) ==
  /\ t.batch = s.batch /\ t.todo = s.todo /\ t.index = s.index
  /\ \A q \in Records : new[q].state = rows[q].state
  /\ \A q \in Records \ {r} : Like(rows[q], new[q]) /\ more[q] = entries[q]
  /\ \A n \in 1 .. Len(s.batch) - Len(s.todo) :
       /\ Valid(s.batch[n]) /\ Names(s.batch[n], r, s)
       /\ Held(s.batch[n], rows[r], entries[r])
       => Held(s.batch[n], new[r], more[r])

LEMMA ServedBut ==
  ASSUME NEW rows, NEW entries, NEW s, s.batch \in Seq(OneName), Served(rows, entries, s),
         NEW new, NEW more, NEW r \in Records, NEW t, Keeps(r, rows, entries, s, new, more, t),
         \A n \in 1 .. Len(s.batch) - Len(s.todo) : n \in DOMAIN s.batch
  PROVE  Served(new, more, t)
<1> SUFFICES ASSUME NEW n \in 1 .. Len(s.batch) - Len(s.todo), Valid(s.batch[n])
             PROVE  \/ s.batch[n].id # None /\ new[s.batch[n].id].state # "live"
                    \/ \E q \in Records : /\ Names(s.batch[n], q, t)
                                          /\ Held(s.batch[n], new[q], more[q])
  BY DEF Served, Keeps
<1> DEFINE j == s.batch[n]
<1>1. j.id \in Records \cup {None}
  <2>1. n \in DOMAIN s.batch
    OBVIOUS
  <2>2. j \in OneName
    BY ONLY <2>1, s.batch \in Seq(OneName)
  <2> QED
    BY <2>2 DEF OneName, BatchItem
<1>2. \/ j.id # None /\ rows[j.id].state # "live"
      \/ \E q \in Records : Names(j, q, s) /\ Held(j, rows[q], entries[q])
  BY DEF Served
<1>3. /\ \A q \in Records : Names(j, q, s) <=> Names(j, q, t)
      /\ \A q \in Records : new[q].state = rows[q].state
      /\ \A q \in Records \ {r} : Like(rows[q], new[q]) /\ more[q] = entries[q]
  BY DEF Keeps, Names
<1>4. Names(j, r, s) /\ Held(j, rows[r], entries[r]) => Held(j, new[r], more[r])
  BY DEF Keeps
<1> HIDE DEF j
<1>5. CASE j.id # None /\ rows[j.id].state # "live"
  <2>1. new[j.id].state # "live"
    BY <1>1, <1>3, <1>5
  <2> QED
    BY <1>5, <2>1 DEF j
<1>6. CASE \E q \in Records : Names(j, q, s) /\ Held(j, rows[q], entries[q])
  <2>1. PICK q \in Records : Names(j, q, s) /\ Held(j, rows[q], entries[q])
    BY <1>6
  <2>2. Held(j, new[q], more[q])
    BY <1>3, <1>4, <2>1, LikeHeld
  <2> QED
    BY <1>3, <2>1, <2>2 DEF j
<1> QED
  BY <1>2, <1>5, <1>6

LEMMA WriteWorks ==
  ASSUME NEW w \in Workers, ItemInv(w), Working(Flushed(w), presets, request[w], rec),
         request[w].can, WriteSection(w)
  PROVE  Progress(Flushed(w)', presets', request'[w], rec')
<1> DEFINE s == request[w]
           i == Item(w)
           rows == Flushed(w)
           new == Flushed(w)'
<1>0. /\ TypeInv /\ s \in Request /\ Filed(rows, s) /\ Served(rows, presets, s)
      /\ s.batch \in Consistent /\ Aligned(s.batch, s.todo) /\ s.batch \in Seq(OneName)
      /\ s.seen = None \/ s.seen = rec
      /\ \A n \in 1 .. Len(s.batch) - Len(s.todo) : n \in DOMAIN s.batch
  BY AtWork
<1>1. PICK r \in Records, t \in Request, section \in Section : Wrote(w, r, section, t)
  BY <1>0, WriteSectionEffect
<1>2. presets' = presets /\ TypeInv'
  <2>1. presets' = presets
    BY DEF WriteSection
  <2>2. TypeInv'
    BY <1>0, StepTyped DEF Step
  <2> QED
    BY <2>1, <2>2
<1>3. /\ request'[w] = t /\ t.batch = s.batch /\ t.todo = s.todo
      /\ t.known = s.known /\ t.index = s.index
      /\ t.stage = "assert" /\ t.row = r
      /\ t.asserts = i.asserts /\ t.presets = i.presets
      /\ GuardsPass(i) /\ Targets(w, i) = {r} /\ s.todo # <<>>
      /\ section = [data |-> i.data, item |-> i.item]
  <2>1. request'[w] = t
    BY <1>0, <1>1, OneSession DEF Wrote
  <2> QED
    BY <1>1, <2>1 DEF Wrote, Onward
<1>4. /\ \A q \in Records : Row(w, q) = rows[q]
      /\ rows \in [Records -> Record] /\ rec' \in [Records -> Record]
      /\ rec \in [Records -> Record] /\ s.pend \in [Records -> Pending]
  <2>1. \A q \in Records : Row(w, q) = rows[q]
    BY <1>0, SeenView
  <2>2. rows \in [Records -> Record]
    BY <1>0, FlushedType
  <2>3. rec' \in [Records -> Record] /\ rec \in [Records -> Record]
    BY <1>0, <1>2 DEF TypeInv, TypeOK
  <2>4. s.pend \in [Records -> Pending]
    BY <1>0 DEF Request
  <2> QED
    BY <2>1, <2>2, <2>3, <2>4
<1>5. /\ \A q \in Records \ {r} : Like(rows[q], new[q])
      /\ new[r].state = rows[r].state /\ new[r].canon = rows[r].canon
      /\ new[r].section = section /\ t.canon = rows[r].canon
      /\ t.seen = None \/ t.seen = rec'
  <2>1. CASE /\ rec' = [rows EXCEPT ![r].section = section]
             /\ t.pend = NothingPending /\ t.seen = None /\ t.canon = rows[r].canon
    <3>1. \A q \in Records : Like(rec'[q], new[q])
      <4>1. \A q \in Records : t.pend[q].section = None /\ t.pend[q].canon = None
        BY <2>1, CleanParts
      <4> QED
        BY <1>3, <1>4, <4>1, CleanView
    <3>2. \A q \in Records \ {r} : rec'[q] = rows[q]
      BY <1>4, <2>1
    <3>3. rec'[r] = [rows[r] EXCEPT !.section = section] /\ rows[r] \in Record
      BY <1>4, <2>1
    <3> HIDE DEF rows, new
    <3>4. /\ rec'[r].state = rows[r].state /\ rec'[r].canon = rows[r].canon
          /\ rec'[r].section = section
      BY <3>3 DEF Record
    <3> QED
      BY <2>1, <3>1, <3>2, <3>4 DEF Like
  <2>2. CASE /\ rec' = rec /\ t.seen = s.seen /\ t.canon = Row(w, r).canon
             /\ \/ t.pend = s.pend /\ Row(w, r).section = section
                \/ t.pend = [s.pend EXCEPT ![r].section = section]
    <3>1. /\ \A q \in Records \ {r} : t.pend[q] = s.pend[q]
          /\ t.pend[r].canon = s.pend[r].canon
          /\ \/ t.pend[r] = s.pend[r] /\ Row(w, r).section = section
             \/ t.pend[r].section = section
      <4>1. s.pend[r] \in Pending
        BY <1>4
      <4> HIDE DEF s
      <4> QED
        BY <1>4, <2>2, <4>1 DEF Pending
    <3>2. \A q \in Records : LET p == t.pend[q] IN
            /\ new[q].state = rec[q].state
            /\ new[q].section = IF p.section = None THEN rec[q].section ELSE p.section
            /\ new[q].canon = IF p.canon = None THEN rec[q].canon ELSE p.canon
      BY <1>3, <1>4, <2>2, ViewOf
    <3>3. \A q \in Records : LET p == s.pend[q] IN
            /\ rows[q].state = rec[q].state
            /\ rows[q].section = IF p.section = None THEN rec[q].section ELSE p.section
            /\ rows[q].canon = IF p.canon = None THEN rec[q].canon ELSE p.canon
      <4> SUFFICES ASSUME NEW q \in Records
                   PROVE  LET p == s.pend[q] IN
                          /\ rows[q].state = rec[q].state
                          /\ rows[q].section = IF p.section = None THEN rec[q].section ELSE p.section
                          /\ rows[q].canon = IF p.canon = None THEN rec[q].canon ELSE p.canon
        OBVIOUS
      <4>1. rows[q] = Overlay(rec[q], s.pend[q]) /\ rec[q] \in Record /\ s.pend[q] \in Pending
        BY <1>0, <1>4, FlushedType
      <4> HIDE DEF s, rows
      <4> QED
        BY <4>1, OverlayType
    <3>4. section # None
      BY NoneAssumption
    <3>5. Row(w, r) = rows[r] /\ (t.seen = None \/ t.seen = rec')
      BY <1>0, <1>4, <2>2
    <3> HIDE DEF rows, new, s
    <3> QED
      BY <2>2, <3>1, <3>2, <3>3, <3>4, <3>5 DEF Like
  <2> QED
    BY <1>1, <2>1, <2>2 DEF Wrote
<1>6. PICK k \in DOMAIN s.batch :
        i = s.batch[k] /\ i = Head(s.todo) /\ i.id \in Records \cup {None}
        /\ i.item \in ItemIds \cup {None}
  BY <1>3, ItemAtHand
<1>7. Names(i, r, s) /\ rows[r].state = "live"
  <2>1. Targets(w, i) = IF i.id # None THEN s.known \cap {i.id}
                        ELSE IF i.item # None THEN s.index[i.item] ELSE {}
    BY DEF Targets
  <2> HIDE DEF i, s, rows
  <2>2. Names(i, r, s)
    BY <1>3, <2>1 DEF Names
  <2>3. r \in s.known
    <3>1. r \in Targets(w, i)
      BY <1>3
    <3>2. CASE i.id # None
      BY <2>1, <3>1, <3>2
    <3>3. CASE i.id = None
      BY <1>0, <1>6, <2>1, <3>1, <3>3 DEF Filed
    <3> QED
      BY <3>2, <3>3
  <2> QED
    BY <1>0, <2>2, <2>3 DEF Filed
<1>8. i.asserts \in Seq(AssertEntry) /\ i.presets \in Seq(PresetEntry)
  BY <1>0, <1>3, ItemType
<1>9. GuardsPass(s.batch[k]) /\ Names(s.batch[k], r, s)
  BY <1>3, <1>6, <1>7
<1> HIDE DEF rows, new, i, s
<1>10. \A q \in Records : new[q].state = rows[q].state
  BY <1>5 DEF Like
<1>11. Filed(new, t)
  BY <1>0, <1>3, <1>10 DEF Filed
<1>12. Served(new, presets, t)
  <2>1. ASSUME NEW n \in 1 .. Len(s.batch) - Len(s.todo), Valid(s.batch[n]),
               Names(s.batch[n], r, s), Held(s.batch[n], rows[r], presets[r])
        PROVE  Held(s.batch[n], new[r], presets[r])
    <3>1. n \in DOMAIN s.batch /\ GuardsPass(s.batch[n])
      BY <1>0, <2>1, ValidPasses
    <3>2. Agree(s.batch[n], i)
      BY <1>0, <1>6, <1>9, <2>1, <3>1, SameRecord
    <3> DEFINE j == s.batch[n]
    <3>3. Agree(j, i) /\ Held(j, rows[r], presets[r])
      BY <2>1, <3>2
    <3> HIDE DEF j
    <3>4. Held(j, new[r], presets[r])
      BY <1>3, <1>5, <3>3 DEF Agree, Held, Fits
    <3> QED
      BY <3>4 DEF j
  <2>2. Keeps(r, rows, presets, s, new, presets, t)
    BY <1>3, <1>5, <1>10, <2>1 DEF Keeps
  <2> QED
    BY <1>0, <2>2, ServedBut
<1>13. Asserting(new, presets, t)
  <2>1. AtHand(new, t)
    <3>1. Names(i, r, t) /\ Fits(i, new[r])
      BY <1>3, <1>5, <1>7 DEF Names, Fits
    <3> QED
      BY <1>3, <1>6, <3>1 DEF AtHand
  <2>2. Aligned(i.asserts, t.asserts)
    BY <1>3, <1>8, WholeAligned
  <2>3. \A m \in 1 .. Len(i.asserts) - Len(t.asserts) : FALSE
    <3>1. Len(i.asserts) \in Nat
      BY <1>8, LenProperties
    <3> QED
      BY <1>3, <3>1
  <2>4. ASSUME NEW n \in 1 .. Len(s.batch) - Len(s.todo), Valid(s.batch[n]),
               Names(s.batch[n], r, t)
        PROVE  Shown(s.batch[n], t.canon, presets[r])
    <3>1. Names(s.batch[n], r, s) /\ n \in DOMAIN s.batch
      BY <1>0, <1>3, <2>4 DEF Names
    <3>2. Held(s.batch[n], rows[r], presets[r])
      BY <1>0, <1>7, <2>4, <3>1, ServedOn
    <3> QED
      BY <1>5, <3>2 DEF Held
  <2> QED
    BY <1>3, <1>5, <1>6, <2>1, <2>2, <2>3, <2>4 DEF Asserting
<1> QED
  BY <1>0, <1>2, <1>3, <1>5, <1>11, <1>12, <1>13 DEF Progress, Working, new

\* One more of the list is done: it is the head of what was left.
LEMMA OneMore ==
  ASSUME NEW S, NEW all \in Seq(S), NEW todo \in Seq(S), Aligned(all, todo), todo # <<>>
  PROVE  /\ Aligned(all, Tail(todo))
         /\ \E k \in DOMAIN all :
              /\ all[k] = Head(todo)
              /\ \A m \in 1 .. Len(all) - Len(Tail(todo)) :
                   m \in DOMAIN all /\ (m = k \/ m \in 1 .. Len(all) - Len(todo))
<1>1. /\ Aligned(all, Tail(todo)) /\ Tail(todo) \in Seq(S)
      /\ Len(all) - Len(todo) \in Nat
      /\ Len(all) - Len(Tail(todo)) = Len(all) - Len(todo) + 1
      /\ Len(all) - Len(todo) + 1 \in DOMAIN all
      /\ Head(todo) = all[Len(all) - Len(todo) + 1]
  BY TailAligned
<1>2. DOMAIN all = 1 .. Len(all) /\ Len(all) \in Nat /\ Len(todo) \in Nat
      /\ Len(Tail(todo)) \in Nat
  BY <1>1, LenProperties
<1> DEFINE k == Len(all) - Len(todo) + 1
<1>3. all[k] = Head(todo) /\ k \in DOMAIN all
  BY <1>1
<1>4. \A m \in 1 .. Len(all) - Len(Tail(todo)) :
        m \in DOMAIN all /\ (m = k \/ m \in 1 .. Len(all) - Len(todo))
  BY <1>1, <1>2
<1> QED
  BY <1>1, <1>3, <1>4

LEMMA AllDone ==
  ASSUME NEW S, NEW all \in Seq(S)
  PROVE  \A m \in DOMAIN all : m \in 1 .. Len(all) - Len(<<>>)
BY LenProperties

\* The item at hand and its record, once it is opened.
LEMMA OpenedItem ==
  ASSUME NEW w \in Workers, ItemInv(w), Working(Flushed(w), presets, request[w], rec),
         AtHand(Flushed(w), request[w]), request[w].stage \in {"assert", "preset"}
  PROVE  LET s == request[w] IN
         /\ s.row \in Records /\ s.todo # <<>> /\ Names(Item(w), s.row, s)
         /\ GuardsPass(Item(w)) /\ Fits(Item(w), Flushed(w)[s.row])
         /\ Item(w) = Head(s.todo)
         /\ Item(w).asserts \in Seq(AssertEntry) /\ Item(w).presets \in Seq(PresetEntry)
         /\ Agree(Item(w), Item(w))
         /\ \A n \in 1 .. Len(s.batch) - Len(s.todo) :
              Valid(s.batch[n]) /\ Names(s.batch[n], s.row, s) => Agree(s.batch[n], Item(w))
<1> DEFINE s == request[w]
           i == Item(w)
<1>1. /\ s.row \in Records /\ s.todo # <<>> /\ TypeInv /\ s.batch \in Consistent
      /\ Filed(Flushed(w), s)
      /\ \A n \in 1 .. Len(s.batch) - Len(s.todo) : n \in DOMAIN s.batch
  BY AtWork DEF SaneSession, Sane
<1>2. PICK k \in DOMAIN s.batch : i = s.batch[k] /\ i = Head(s.todo)
  BY <1>1, ItemAtHand
<1>3. GuardsPass(i) /\ Names(i, s.row, s) /\ Fits(i, Flushed(w)[s.row])
  BY <1>2 DEF AtHand
<1>4. i.asserts \in Seq(AssertEntry) /\ i.presets \in Seq(PresetEntry)
  BY <1>1, ItemType
<1>5. GuardsPass(s.batch[k]) /\ Names(s.batch[k], s.row, s)
  BY <1>2, <1>3
<1> HIDE DEF s, i
<1>6. Agree(s.batch[k], s.batch[k])
  BY <1>1, <1>5, SameRecord
<1>7. ASSUME NEW n \in 1 .. Len(s.batch) - Len(s.todo), Valid(s.batch[n]),
             Names(s.batch[n], s.row, s)
      PROVE  Agree(s.batch[n], s.batch[k])
  <2>1. n \in DOMAIN s.batch /\ GuardsPass(s.batch[n])
    BY <1>1, <1>7, ValidPasses
  <2> QED
    BY <1>1, <1>5, <1>7, <2>1, SameRecord
<1> QED
  BY <1>1, <1>2, <1>3, <1>4, <1>6, <1>7 DEF s, i

LEMMA AssertWorks ==
  ASSUME NEW w \in Workers, ItemInv(w), Working(Flushed(w), presets, request[w], rec),
         request[w].can, AssertOne(w)
  PROVE  Progress(Flushed(w)', presets', request'[w], rec')
<1> DEFINE s == request[w]
           i == Item(w)
           rows == Flushed(w)
           new == Flushed(w)'
<1>0. /\ TypeInv /\ s \in Request /\ SaneSession(s) /\ Filed(rows, s)
      /\ Served(rows, presets, s) /\ s.todo \in Seq(OneName)
      /\ s.batch \in Consistent /\ Aligned(s.batch, s.todo) /\ s.batch \in Seq(OneName)
      /\ s.seen = None \/ s.seen = rec
      /\ s.stage = "assert" /\ Asserting(rows, presets, s)
  BY AtWork, AssertOneEffect DEF Working
<1>1. PICK t \in Request :
        /\ request' = [request EXCEPT ![w] = t] /\ SaneSession(t)
        /\ Refused(w, t) \/ Repeated(w, t) \/ Asserted(w, t)
  BY <1>0, AssertOneEffect
<1>2. presets' = presets /\ request'[w] = t /\ TypeInv'
  <2>1. presets' = presets
    BY DEF AssertOne
  <2>2. TypeInv'
    BY <1>0, StepTyped DEF Step
  <2> QED
    BY <1>0, <1>1, <2>1, <2>2, OneSession
<1>3. /\ s.row \in Records /\ s.todo # <<>> /\ Names(i, s.row, s)
      /\ GuardsPass(i) /\ Fits(i, rows[s.row])
      /\ i = Head(s.todo) /\ i.asserts \in Seq(AssertEntry) /\ Agree(i, i)
      /\ \A n \in 1 .. Len(s.batch) - Len(s.todo) :
           Valid(s.batch[n]) /\ Names(s.batch[n], s.row, s) => Agree(s.batch[n], i)
  BY <1>0, OpenedItem DEF Asserting
<1>4. s.asserts # <<>> /\ s.asserts \in Seq(AssertEntry) /\ Aligned(i.asserts, s.asserts)
      /\ s.presets = i.presets
  BY <1>0, <1>1, <1>3 DEF Refused, Repeated, Asserted, Request, Asserting
<1> DEFINE e == Head(s.asserts)
<1>5. PICK k \in DOMAIN i.asserts :
        /\ i.asserts[k] = e
        /\ \A m \in 1 .. Len(i.asserts) - Len(Tail(s.asserts)) :
             /\ m \in DOMAIN i.asserts
             /\ m = k \/ m \in 1 .. Len(i.asserts) - Len(s.asserts)
  BY <1>3, <1>4, OneMore
<1>6. Aligned(i.asserts, Tail(s.asserts))
  BY <1>3, <1>4, OneMore
<1>7. CASE Refused(w, t)
  <2>1. /\ rec' = rec /\ Skipped(s, t) /\ t.pend = s.pend /\ t.seen = s.seen
        /\ e.path \in Unknown
    BY <1>7 DEF Refused
  <2>2. new = rows
    BY <1>2, <2>1, SameView
  <2>3. ~Valid(i)
    BY <1>5, <2>1, PathsAssumption DEF Valid
  <2> HIDE DEF s, i, rows, e
  <2>4. Progress(rows, presets, t, rec)
    BY <1>0, <1>3, <2>1, <2>3, MovesOn
  <2> QED
    BY <1>2, <2>1, <2>2, <2>4
<1>8. CASE Repeated(w, t) \/ Asserted(w, t)
  <2>1. /\ t.batch = s.batch /\ t.todo = s.todo /\ t.row = s.row /\ t.known = s.known
        /\ t.index = s.index /\ t.stage = "assert" /\ t.asserts = Tail(s.asserts)
        /\ t.presets = s.presets /\ e.path \in Paths
        /\ t.canon.leaf[e.path] = e.value
        /\ \A p \in Paths \ {e.path} : t.canon.leaf[p] = s.canon.leaf[p]
        /\ t.canon.union = s.canon.union
        /\ t.seen = None \/ (t.seen = s.seen /\ rec' = rec)
        /\ ~t.applied => ~s.applied /\ t.canon = s.canon
    <3>1. CASE Repeated(w, t)
      BY <3>1 DEF Repeated, SameItem, Onward, SameValue
    <3>2. CASE Asserted(w, t)
      <4>1. t.canon.union = t.base.union /\ s.canon.union = s.base.union
        BY <1>0, <1>1, <3>2 DEF SaneSession, Sane, Asserted
      <4>2. /\ t.batch = s.batch /\ t.todo = s.todo /\ t.row = s.row /\ t.known = s.known
            /\ t.index = s.index /\ t.stage = "assert" /\ t.asserts = Tail(s.asserts)
            /\ t.presets = s.presets /\ e.path \in Paths /\ t.seen = None /\ t.applied
            /\ t.base = s.base
        BY <3>2 DEF Asserted, SameItem, Onward
      <4>3. \A p \in Paths : t.canon.leaf[p] = IF p = e.path THEN e.value ELSE s.canon.leaf[p]
        BY <3>2 DEF Asserted
      <4> HIDE DEF e, s
      <4> QED
        BY <4>1, <4>2, <4>3
    <3> QED
      BY <1>8, <3>1, <3>2
  <2>2. \A q \in Records : Like(rows[q], new[q])
    <3>1. CASE Repeated(w, t)
      <4>1. rec' = rec /\ t.pend = s.pend
        BY <3>1 DEF Repeated
      <4>2. new = rows
        BY <1>2, <4>1, SameView
      <4> QED
        BY <4>2 DEF Like
    <3>2. CASE Asserted(w, t)
      <4>1. /\ rec' = rows
            /\ \A q \in Records : t.pend[q].section = None /\ t.pend[q].canon = None
        BY <3>2 DEF Asserted
      <4>2. rec' \in [Records -> Record]
        BY <1>2 DEF TypeInv, TypeOK
      <4>3. \A q \in Records : Like(rec'[q], new[q])
        BY <1>2, <4>1, <4>2, CleanView
      <4> QED
        BY <4>1, <4>3
    <3> QED
      BY <1>8, <3>1, <3>2
  <2> HIDE DEF s, i, rows, new, e
  <2>3. Filed(new, t)
    <3>1. Filed(new, s)
      BY <1>0, <2>2, LikeFiled DEF Like
    <3> QED
      BY <2>1, <3>1 DEF Filed
  <2>4. Served(new, presets, t)
    <3>0. /\ \A j : Held(j, rows[s.row], presets[s.row]) => Held(j, new[s.row], presets[s.row])
          /\ \A q \in Records : new[q].state = rows[q].state
      BY <1>3, <2>2, LikeHeld DEF Like
    <3>1. Keeps(s.row, rows, presets, s, new, presets, t)
      BY <2>1, <2>2, <3>0 DEF Keeps
    <3>2. \A n \in 1 .. Len(s.batch) - Len(s.todo) : n \in DOMAIN s.batch
      BY AtWork DEF s
    <3> QED
      BY <1>0, <1>3, <3>1, <3>2, ServedBut
  <2>5. Asserting(new, presets, t)
    <3>1. AtHand(new, t)
      BY <1>3, <2>1, <2>2, LikeHeld DEF AtHand, Names
    <3>2. Aligned(i.asserts, t.asserts) /\ t.presets = i.presets
      BY <1>4, <1>6, <2>1
    <3>3. ASSUME NEW m \in 1 .. Len(i.asserts) - Len(t.asserts)
          PROVE  i.asserts[m].path \in Paths /\ t.canon.leaf[i.asserts[m].path] = i.asserts[m].value
      <4>1. m \in DOMAIN i.asserts /\ (m = k \/ m \in 1 .. Len(i.asserts) - Len(s.asserts))
        BY <1>5, <2>1, <3>3
      <4>2. CASE m = k
        BY <1>5, <2>1, <4>2
      <4>3. CASE m \in 1 .. Len(i.asserts) - Len(s.asserts)
        <5>1. i.asserts[m].path \in Paths /\ s.canon.leaf[i.asserts[m].path] = i.asserts[m].value
          BY <1>0, <1>3, <4>3 DEF Asserting
        <5>2. i.asserts[m].path = e.path => i.asserts[m].value = e.value
          BY <1>3, <1>5, <4>1 DEF Agree
        <5> QED
          BY <2>1, <5>1, <5>2
      <4> QED
        BY <4>1, <4>2, <4>3
    <3>4. ~t.applied => t.canon = new[t.row].canon
      BY <1>0, <1>3, <2>1, <2>2 DEF Asserting, Like
    <3>5. ASSUME NEW n \in 1 .. Len(s.batch) - Len(s.todo), Valid(s.batch[n]),
                 Names(s.batch[n], s.row, s)
          PROVE  Shown(s.batch[n], t.canon, presets[s.row])
      <4>1. Agree(s.batch[n], i) /\ Shown(s.batch[n], s.canon, presets[s.row])
        BY <1>0, <1>3, <3>5 DEF Asserting
      <4>2. \A p \in Paths : t.canon.leaf[p] = IF p = i.asserts[k].path THEN i.asserts[k].value
                                               ELSE s.canon.leaf[p]
        BY <1>5, <2>1
      <4> QED
        BY <1>5, <2>1, <3>5, <4>1, <4>2, ShownAfterAssert
    <3>6. \A n \in 1 .. Len(t.batch) - Len(t.todo) :
            Valid(t.batch[n]) /\ Names(t.batch[n], t.row, t)
              => Shown(t.batch[n], t.canon, presets[t.row])
      BY <2>1, <3>5 DEF Names
    <3>7. i = Head(t.todo)
      BY <1>3, <2>1
    <3> QED
      BY <3>1, <3>2, <3>3, <3>4, <3>6, <3>7 DEF Asserting
  <2> QED
    BY <1>0, <1>2, <2>1, <2>3, <2>4, <2>5 DEF Progress, Working, new
<1> QED
  BY <1>1, <1>7, <1>8

LEMMA CloseWorks ==
  ASSUME NEW w \in Workers, ItemInv(w), Working(Flushed(w), presets, request[w], rec),
         request[w].can, CloseAsserts(w)
  PROVE  Progress(Flushed(w)', presets', request'[w], rec')
<1> DEFINE s == request[w]
           i == Item(w)
           rows == Flushed(w)
           new == Flushed(w)'
<1>1. PICK t \in Request : request' = [request EXCEPT ![w] = t] /\ SaneSession(t) /\ Closed(w, t)
  BY AtWork, CloseAssertsEffect
<1>0. /\ TypeInv /\ s \in Request /\ SaneSession(s) /\ Filed(rows, s)
      /\ Served(rows, presets, s) /\ s.todo \in Seq(OneName)
      /\ s.batch \in Consistent /\ Aligned(s.batch, s.todo) /\ s.batch \in Seq(OneName)
      /\ s.seen = None \/ s.seen = rec
      /\ s.stage = "assert" /\ Asserting(rows, presets, s)
  BY <1>1, AtWork DEF Working, Closed
<1>2. presets' = presets /\ request'[w] = t /\ TypeInv'
  <2>1. presets' = presets
    BY DEF CloseAsserts
  <2>2. TypeInv'
    BY <1>0, StepTyped DEF Step
  <2> QED
    BY <1>0, <1>1, <2>1, <2>2, OneSession
<1>3. /\ s.row \in Records /\ s.todo # <<>> /\ Names(i, s.row, s)
      /\ GuardsPass(i) /\ Fits(i, rows[s.row])
      /\ i = Head(s.todo) /\ i.asserts \in Seq(AssertEntry) /\ i.presets \in Seq(PresetEntry)
  BY <1>0, OpenedItem DEF Asserting
<1>4. /\ t.batch = s.batch /\ t.todo = s.todo /\ t.row = s.row /\ t.known = s.known
      /\ t.index = s.index /\ t.stage = "preset" /\ t.presets = s.presets
      /\ t.seen = s.seen /\ rec' = rec /\ s.asserts = <<>>
      /\ \A q \in Records \ {s.row} : t.pend[q] = s.pend[q]
      /\ t.pend[s.row].section = s.pend[s.row].section
      /\ t.pend[s.row].canon = IF s.applied THEN s.canon ELSE s.pend[s.row].canon
  BY <1>1 DEF Closed, SameItem, Onward
<1>5. /\ \A q \in Records \ {s.row} : Like(rows[q], new[q])
      /\ new[s.row].state = rows[s.row].state /\ new[s.row].section = rows[s.row].section
      /\ new[s.row].canon = s.canon
  <2>1. rec' \in [Records -> Record] /\ rec \in [Records -> Record]
        /\ s.pend \in [Records -> Pending]
    BY <1>0, <1>2 DEF TypeInv, TypeOK, Request
  <2>2. \A q \in Records : LET p == t.pend[q] IN
          /\ new[q].state = rec[q].state
          /\ new[q].section = IF p.section = None THEN rec[q].section ELSE p.section
          /\ new[q].canon = IF p.canon = None THEN rec[q].canon ELSE p.canon
    BY <1>2, <1>4, <2>1, ViewOf
  <2>3. \A q \in Records : LET p == s.pend[q] IN
          /\ rows[q].state = rec[q].state
          /\ rows[q].section = IF p.section = None THEN rec[q].section ELSE p.section
          /\ rows[q].canon = IF p.canon = None THEN rec[q].canon ELSE p.canon
    <3> SUFFICES ASSUME NEW q \in Records
                 PROVE  LET p == s.pend[q] IN
                        /\ rows[q].state = rec[q].state
                        /\ rows[q].section = IF p.section = None THEN rec[q].section ELSE p.section
                        /\ rows[q].canon = IF p.canon = None THEN rec[q].canon ELSE p.canon
      OBVIOUS
    <3>1. rows[q] = Overlay(rec[q], s.pend[q]) /\ rec[q] \in Record /\ s.pend[q] \in Pending
      BY <1>0, <2>1, FlushedType
    <3> HIDE DEF s, rows
    <3> QED
      BY <3>1, OverlayType
  <2>4. s.canon # None /\ (~s.applied => s.canon = rows[s.row].canon)
    BY <1>0, NoneAssumption DEF SaneSession, Sane, Asserting
  <2> HIDE DEF s, rows, new
  <2> QED
    BY <1>3, <1>4, <2>2, <2>3, <2>4 DEF Like
<1> HIDE DEF s, i, rows, new
<1>6. Filed(new, t)
  BY <1>0, <1>4, <1>5 DEF Filed, Like
<1>7. Served(new, presets, t)
  <2>1. ASSUME NEW n \in 1 .. Len(s.batch) - Len(s.todo), Valid(s.batch[n]),
               Names(s.batch[n], s.row, s), Held(s.batch[n], rows[s.row], presets[s.row])
        PROVE  Held(s.batch[n], new[s.row], presets[s.row])
    <3>1. Shown(s.batch[n], new[s.row].canon, presets[s.row])
      BY <1>0, <1>5, <2>1 DEF Asserting
    <3> DEFINE j == s.batch[n]
    <3> HIDE DEF j
    <3>2. Fits(j, rows[s.row]) => Fits(j, new[s.row])
      BY <1>5 DEF Fits
    <3> QED
      BY <2>1, <3>1, <3>2 DEF Held, j
  <2>2. Keeps(s.row, rows, presets, s, new, presets, t)
    BY <1>3, <1>4, <1>5, <2>1 DEF Keeps, Like
  <2>3. \A n \in 1 .. Len(s.batch) - Len(s.todo) : n \in DOMAIN s.batch
    BY AtWork DEF s
  <2> QED
    BY <1>0, <1>3, <2>2, <2>3, ServedBut
<1>8. Contributing(new, presets, t)
  <2>1. AtHand(new, t)
    <3>1. Names(i, t.row, t) /\ Fits(i, new[t.row])
      BY <1>3, <1>4, <1>5 DEF Names, Fits
    <3> QED
      BY <1>3, <1>4, <3>1 DEF AtHand
  <2>2. t.presets = i.presets /\ Aligned(i.presets, t.presets)
    BY <1>0, <1>3, <1>4, WholeAligned DEF Asserting
  <2>3. \A m \in DOMAIN i.asserts : new[t.row].canon.leaf[i.asserts[m].path] = i.asserts[m].value
    <3>1. \A m \in 1 .. Len(i.asserts) - Len(s.asserts) :
            s.canon.leaf[i.asserts[m].path] = i.asserts[m].value
      BY <1>0, <1>3 DEF Asserting
    <3>2. \A m \in DOMAIN i.asserts : m \in 1 .. Len(i.asserts) - Len(s.asserts)
      BY <1>3, <1>4, AllDone
    <3> QED
      BY <1>4, <1>5, <3>1, <3>2
  <2>4. \A m \in 1 .. Len(i.presets) - Len(t.presets) : FALSE
    <3>1. Len(i.presets) \in Nat
      BY <1>3, LenProperties
    <3> QED
      BY <2>2, <3>1
  <2>5. i = Head(t.todo)
    BY <1>3, <1>4
  <2> QED
    BY <2>1, <2>2, <2>3, <2>4, <2>5 DEF Contributing
<1> QED
  BY <1>0, <1>2, <1>4, <1>6, <1>7, <1>8 DEF Progress, Working, new

LEMMA ContributeWorks ==
  ASSUME NEW w \in Workers, ItemInv(w), Working(Flushed(w), presets, request[w], rec),
         request[w].can, Contribute(w)
  PROVE  Progress(Flushed(w)', presets', request'[w], rec')
<1> DEFINE s == request[w]
           i == Item(w)
           rows == Flushed(w)
           new == Flushed(w)'
           e == Head(s.presets)
<1>0. /\ TypeInv /\ s \in Request /\ SaneSession(s) /\ Filed(rows, s)
      /\ Served(rows, presets, s) /\ s.todo \in Seq(OneName)
      /\ s.batch \in Consistent /\ Aligned(s.batch, s.todo) /\ s.batch \in Seq(OneName)
      /\ s.seen = None \/ s.seen = rec
      /\ s.stage = "preset" /\ Contributing(rows, presets, s)
  BY AtWork, ContributeEffect DEF Working
<1>1. PICK t \in Request :
        /\ request' = [request EXCEPT ![w] = t] /\ SaneSession(t)
        /\ BelowFloor(w, t) \/ Contributed(w, t)
  BY <1>0, ContributeEffect
<1>2. request'[w] = t /\ TypeInv'
  <2>1. TypeInv'
    BY <1>0, StepTyped DEF Step
  <2> QED
    BY <1>0, <1>1, <2>1, OneSession
<1>3. /\ s.row \in Records /\ s.todo # <<>> /\ Names(i, s.row, s)
      /\ GuardsPass(i) /\ Fits(i, rows[s.row])
      /\ i = Head(s.todo) /\ i.presets \in Seq(PresetEntry) /\ Agree(i, i)
      /\ \A n \in 1 .. Len(s.batch) - Len(s.todo) :
           Valid(s.batch[n]) /\ Names(s.batch[n], s.row, s) => Agree(s.batch[n], i)
  BY <1>0, OpenedItem DEF Contributing
<1>4. s.presets # <<>> /\ s.presets \in Seq(PresetEntry) /\ Aligned(i.presets, s.presets)
  BY <1>0, <1>1, <1>3 DEF BelowFloor, Contributed, Request, Contributing
<1>5. PICK k \in DOMAIN i.presets :
        /\ i.presets[k] = e
        /\ \A m \in 1 .. Len(i.presets) - Len(Tail(s.presets)) :
             /\ m \in DOMAIN i.presets
             /\ m = k \/ m \in 1 .. Len(i.presets) - Len(s.presets)
  BY <1>3, <1>4, OneMore
<1>6. Aligned(i.presets, Tail(s.presets))
  BY <1>3, <1>4, OneMore
<1>7. /\ t.batch = s.batch /\ t.todo = s.todo /\ t.row = s.row /\ t.known = s.known
      /\ t.index = s.index /\ t.stage = "preset" /\ t.presets = Tail(s.presets)
      /\ t.seen = None \/ (t.seen = s.seen /\ rec' = rec)
      /\ s.contributed => t.contributed
      /\ \/ e.mark = None /\ presets' = presets
         \/ /\ e.mark # None /\ t.contributed
            /\ presets' = [presets EXCEPT ![s.row] = ReplaceOwn(@, e)]
  BY <1>1, PathsAssumption DEF BelowFloor, Contributed, SameItem, Onward
<1>8. \A q \in Records : Like(rows[q], new[q])
  <2>1. CASE BelowFloor(w, t)
    <3>1. rec' = rec /\ t.pend = s.pend
      BY <2>1 DEF BelowFloor
    <3>2. new = rows
      BY <1>2, <3>1, SameView
    <3> QED
      BY <3>2 DEF Like
  <2>2. CASE Contributed(w, t)
    <3>1. rec' = rows /\ t.pend = NothingPending
      BY <2>2 DEF Contributed
    <3>2. rec' \in [Records -> Record]
      BY <1>2 DEF TypeInv, TypeOK
    <3>3. \A q \in Records : t.pend[q].section = None /\ t.pend[q].canon = None
      BY <3>1, CleanParts
    <3>4. \A q \in Records : Like(rec'[q], new[q])
      BY <1>2, <3>2, <3>3, CleanView
    <3> QED
      BY <3>1, <3>4
  <2> QED
    BY <1>1, <2>1, <2>2
<1>9. presets \in [Records -> SUBSET Preset]
  BY <1>0 DEF TypeInv, TypeOK
<1> DEFINE more == presets'
<1>10. /\ \A q \in Records \ {s.row} : more[q] = presets[q]
       /\ \/ e.mark = None /\ more[s.row] = presets[s.row]
          \/ e.mark # None /\ t.contributed /\ more[s.row] = ReplaceOwn(presets[s.row], e)
  BY <1>3, <1>7, <1>9
<1> HIDE DEF s, i, rows, new, e, more
\* What is among the rows for an item that agrees stays there.
<1>11. ASSUME NEW j, Agree(j, i), NEW m \in DOMAIN j.presets, j.presets[m].mark # None,
              Entry(j.presets[m]) \in presets[s.row]
       PROVE  Entry(j.presets[m]) \in more[s.row]
  <2>1. CASE more[s.row] = presets[s.row]
    BY <1>11, <2>1
  <2>2. CASE e.mark # None /\ more[s.row] = ReplaceOwn(presets[s.row], e)
    <3>1. j.presets[m].key = e.key => j.presets[m].mark = e.mark
      BY <1>5, <1>11, <2>2 DEF Agree
    <3> QED
      BY <1>11, <2>2, <3>1 DEF Entry, ReplaceOwn
  <2> QED
    BY <1>10, <2>1, <2>2
<1>12. Filed(new, t)
  <2>1. Filed(new, s)
    BY <1>0, <1>8, LikeFiled DEF Like
  <2> QED
    BY <1>7, <2>1 DEF Filed
<1>13. Served(new, more, t)
  <2>1. ASSUME NEW n \in 1 .. Len(s.batch) - Len(s.todo), Valid(s.batch[n]),
               Names(s.batch[n], s.row, s), Held(s.batch[n], rows[s.row], presets[s.row])
        PROVE  Held(s.batch[n], new[s.row], more[s.row])
    <3> DEFINE j == s.batch[n]
    <3>1. Agree(j, i) /\ Held(j, rows[s.row], presets[s.row])
      BY <1>3, <2>1
    <3> HIDE DEF j
    <3>2. Shown(j, rows[s.row].canon, more[s.row])
      BY <1>11, <3>1 DEF Held, Shown
    <3>3. Held(j, rows[s.row], more[s.row])
      BY <3>1, <3>2 DEF Held
    <3> QED
      BY <1>3, <1>8, <3>3, LikeHeld DEF j
  <2>2. Keeps(s.row, rows, presets, s, new, more, t)
    BY <1>3, <1>7, <1>8, <1>10, <2>1 DEF Keeps, Like
  <2>3. \A n \in 1 .. Len(s.batch) - Len(s.todo) : n \in DOMAIN s.batch
    BY AtWork DEF s
  <2> QED
    BY <1>0, <1>3, <2>2, <2>3, ServedBut
<1>14. Contributing(new, more, t)
  <2>0. t.row = s.row /\ t.index = s.index /\ i = Head(t.todo)
    BY <1>3, <1>7
  <2>1. AtHand(new, t)
    <3>1. Names(i, s.row, t)
      BY <1>3, <2>0 DEF Names
    <3>2. Fits(i, new[s.row])
      BY <1>3, <1>8, LikeHeld
    <3> QED
      BY <1>3, <2>0, <3>1, <3>2 DEF AtHand
  <2>2. Aligned(i.presets, t.presets)
    BY <1>6, <1>7
  <2>3. \A m \in DOMAIN i.asserts : new[t.row].canon.leaf[i.asserts[m].path] = i.asserts[m].value
    <3>1. \A m \in DOMAIN i.asserts : rows[s.row].canon.leaf[i.asserts[m].path] = i.asserts[m].value
      BY <1>0, <1>3 DEF Contributing
    <3>2. rows[s.row].canon = new[s.row].canon
      BY <1>3, <1>8 DEF Like
    <3>3. new[t.row] = new[s.row]
      BY <2>0
    <3> QED
      BY <3>1, <3>2, <3>3
  <2>4. ASSUME NEW m \in 1 .. Len(i.presets) - Len(t.presets), i.presets[m].mark # None
        PROVE  t.contributed /\ Entry(i.presets[m]) \in more[t.row]
    <3>1. m \in DOMAIN i.presets /\ (m = k \/ m \in 1 .. Len(i.presets) - Len(s.presets))
      BY <1>5, <1>7, <2>4
    <3>2. CASE m = k
      BY <1>5, <1>7, <1>10, <2>4, <3>2 DEF Entry, ReplaceOwn
    <3>3. CASE m \in 1 .. Len(i.presets) - Len(s.presets)
      <4>1. s.contributed /\ Entry(i.presets[m]) \in presets[s.row]
        BY <1>0, <1>3, <2>4, <3>3 DEF Contributing
      <4> QED
        BY <1>3, <1>7, <1>11, <2>4, <3>1, <4>1
    <3> QED
      BY <3>1, <3>2, <3>3
  <2> QED
    BY <2>0, <2>1, <2>2, <2>3, <2>4 DEF Contributing
<1> QED
  BY <1>0, <1>2, <1>7, <1>12, <1>13, <1>14 DEF Progress, Working, new, more

LEMMA CloseItemWorks ==
  ASSUME NEW w \in Workers, ItemInv(w), Working(Flushed(w), presets, request[w], rec),
         request[w].can, CloseItem(w)
  PROVE  Progress(Flushed(w)', presets', request'[w], rec')
<1> DEFINE s == request[w]
           i == Item(w)
           rows == Flushed(w)
           new == Flushed(w)'
<1>0. /\ TypeInv /\ s \in Request /\ SaneSession(s) /\ Filed(rows, s)
      /\ Served(rows, presets, s) /\ s.todo \in Seq(OneName)
      /\ s.batch \in Consistent /\ Aligned(s.batch, s.todo) /\ s.batch \in Seq(OneName)
      /\ s.seen = None \/ s.seen = rec
      /\ s.stage = "preset" /\ s.presets = <<>> /\ Contributing(rows, presets, s)
  BY AtWork, CloseItemEffect DEF Working
<1>1. PICK t \in Request :
        /\ request' = [request EXCEPT ![w] = t] /\ SaneSession(t)
        /\ Unioned(w, t) \/ Ended(w, t)
  BY <1>0, CloseItemEffect
<1>2. presets' = presets /\ request'[w] = t /\ TypeInv'
  <2>1. presets' = presets
    BY DEF CloseItem
  <2>2. TypeInv'
    BY <1>0, StepTyped DEF Step
  <2> QED
    BY <1>0, <1>1, <2>1, <2>2, OneSession
<1>3. /\ s.row \in Records /\ s.todo # <<>> /\ Names(i, s.row, s) /\ Fits(i, rows[s.row])
      /\ i = Head(s.todo) /\ i.presets \in Seq(PresetEntry)
  BY <1>0, OpenedItem DEF Contributing
<1>4. /\ \A m \in DOMAIN i.asserts :
           rows[s.row].canon.leaf[i.asserts[m].path] = i.asserts[m].value
      /\ \A m \in DOMAIN i.presets : i.presets[m].mark # None =>
           s.contributed /\ Entry(i.presets[m]) \in presets[s.row]
  <2>1. \A m \in DOMAIN i.presets : m \in 1 .. Len(i.presets) - Len(s.presets)
    BY <1>0, <1>3, AllDone
  <2> QED
    BY <1>0, <1>3, <2>1 DEF Contributing
<1>5. Skipped(s, t)
  BY <1>1 DEF Unioned, Ended
<1>6. CASE Ended(w, t)
  <2>1. /\ rec' = rec /\ t.pend = s.pend /\ t.seen = s.seen /\ ~s.contributed
    BY <1>6 DEF Ended
  <2>2. new = rows
    BY <1>2, <2>1, SameView
  <2> HIDE DEF s, i, rows
  <2>3. Held(i, rows[s.row], presets[s.row])
    BY <1>3, <1>4, <2>1 DEF Held, Shown
  <2>4. Progress(rows, presets, t, rec)
    BY <1>0, <1>3, <1>5, <2>1, <2>3, MovesOn
  <2> QED
    BY <1>2, <2>1, <2>2, <2>4
<1>7. CASE Unioned(w, t)
  <2> DEFINE m == Materialized(rows[s.row], presets[s.row])
  <2>1. /\ rec' = [rows EXCEPT ![s.row] = m]
        /\ t.pend = NothingPending /\ t.seen = None
    BY <1>7 DEF Unioned
  <2>2. /\ m.state = rows[s.row].state /\ m.section = rows[s.row].section
        /\ m.canon.leaf = rows[s.row].canon.leaf /\ m.canon.union = presets[s.row]
    <3>1. rows[s.row] \in Record /\ presets[s.row] \in SUBSET Preset
      BY <1>0, <1>3, FlushedType DEF TypeInv, TypeOK
    <3> QED
      BY <3>1, MaterializedType
  <2>3. \A q \in Records : Like(rec'[q], new[q])
    <3>1. rec' \in [Records -> Record]
      BY <1>2 DEF TypeInv, TypeOK
    <3>2. \A q \in Records : t.pend[q].section = None /\ t.pend[q].canon = None
      BY <2>1, CleanParts
    <3> QED
      BY <1>2, <3>1, <3>2, CleanView
  <2>4. rec'[s.row] = m /\ \A q \in Records \ {s.row} : rec'[q] = rows[q]
    BY <1>0, <1>3, <2>1, FlushedType
  <2> HIDE DEF s, i, rows, new, m
  <2>5. /\ new[s.row].state = rows[s.row].state /\ new[s.row].section = rows[s.row].section
        /\ new[s.row].canon.leaf = rows[s.row].canon.leaf
        /\ new[s.row].canon.union = presets[s.row]
        /\ \A q \in Records \ {s.row} : Like(rows[q], new[q])
    BY <1>3, <2>2, <2>3, <2>4 DEF Like
  <2>6. Filed(new, s)
    BY <1>0, <2>5 DEF Filed, Like
  <2>7. ASSUME NEW j, Held(j, rows[s.row], presets[s.row])
        PROVE  Held(j, new[s.row], presets[s.row])
    <3>1. Shown(j, new[s.row].canon, presets[s.row])
      BY <2>5, <2>7, ShownAfterUnion DEF Held
    <3> QED
      BY <2>5, <2>7, <3>1 DEF Held, Fits
  <2>8. Served(new, presets, s)
    <3>1. Keeps(s.row, rows, presets, s, new, presets, s)
      BY <1>3, <2>5, <2>7 DEF Keeps, Like
    <3>2. \A n \in 1 .. Len(s.batch) - Len(s.todo) : n \in DOMAIN s.batch
      BY AtWork DEF s
    <3> QED
      BY <1>0, <1>3, <3>1, <3>2, ServedBut
  <2>9. Held(i, new[s.row], presets[s.row])
    BY <1>3, <1>4, <2>5 DEF Held, Shown, Fits
  <2>10. Progress(new, presets, t, rec')
    BY <1>0, <1>3, <1>5, <2>1, <2>6, <2>8, <2>9, MovesOn
  <2> QED
    BY <1>2, <2>10 DEF new
<1> QED
  BY <1>1, <1>6, <1>7

\* A valid item is on a record.
Applied(i, rows) ==
  /\ \A m \in DOMAIN i.asserts : i.asserts[m].path \in Paths
  /\ IF i.id = None THEN i.item # None ELSE rows[i.id].state = "live"
  => \E r \in Records :
       /\ rows[r].state = "live"
       /\ IF i.id = None THEN rows[r].section.item = i.item ELSE r = i.id
       /\ rows[r].section.data = i.data
       /\ \A m \in DOMAIN i.asserts :
            rows[r].canon.leaf[i.asserts[m].path] = i.asserts[m].value
       /\ \A m \in DOMAIN i.presets : i.presets[m].mark # None =>
            [key |-> i.presets[m].key, mark |-> i.presets[m].mark] \in rows[r].canon.union

LEMMA HeldIsApplied ==
  ASSUME NEW i, NEW r \in Records, NEW s, NEW rows, NEW entries, Names(i, r, s),
         Held(i, rows[r], entries)
  PROVE  Applied(i, rows)
BY DEF Applied, Names, Held, Fits, Shown, Entry

\* What a batch with the assert door, undisturbed, has done when it finishes.
LEMMA FinishWorks ==
  ASSUME NEW w \in Workers, FinishInv(w), FinishBatch(w)
  PROVE  FinishedMeansApplied'
<1> DEFINE s == request[w]
           rows == Flushed(w)
<1>1. /\ s.stage = "item" /\ s.todo = <<>> /\ rec' = rows
      /\ last' = IF s.quiet THEN <<s.batch, s.can>> ELSE None
  BY FinishBatchEffect DEF FinishInv, ItemInv, BornInv
<1>2. ASSUME s.quiet, s.can, NEW n \in DOMAIN s.batch
      PROVE  Applied(s.batch[n], rec')
  <2>1. ItemInv(w) /\ Working(rows, presets, s, rec)
    BY <1>1, <1>2 DEF FinishInv, Progress, InBatch
  <2>2. Served(rows, presets, s) /\ s.batch \in Seq(OneName)
    BY <2>1, AtWork
  <2> DEFINE j == s.batch[n]
  <2>3. n \in 1 .. Len(s.batch) - Len(s.todo)
    BY <1>1, <2>2, AllDone
  <2>4. Valid(j) => \/ j.id # None /\ rows[j.id].state # "live"
                    \/ \E r \in Records : Names(j, r, s) /\ Held(j, rows[r], presets[r])
    BY <2>2, <2>3 DEF Served
  <2> HIDE DEF j, s, rows
  <2>5. CASE /\ \A m \in DOMAIN j.asserts : j.asserts[m].path \in Paths
             /\ IF j.id = None THEN j.item # None ELSE rows[j.id].state = "live"
    <3>1. PICK r \in Records : Names(j, r, s) /\ Held(j, rows[r], presets[r])
      BY <2>4, <2>5 DEF Valid
    <3> QED
      BY <1>1, <3>1, HeldIsApplied DEF j
  <2>6. CASE ~(/\ \A m \in DOMAIN j.asserts : j.asserts[m].path \in Paths
               /\ IF j.id = None THEN j.item # None ELSE rows[j.id].state = "live")
    BY <1>1, <2>6 DEF Applied, j
  <2> QED
    BY <2>5, <2>6
<1> HIDE DEF s, rows
<1>3. CASE s.quiet /\ s.can
  <2>1. last'[1] = s.batch
    BY <1>1, <1>3
  <2>2. \A n \in DOMAIN last'[1] : Applied(last'[1][n], rec')
    BY <1>2, <1>3, <2>1
  <2> QED
    BY <2>2, Zenon DEF FinishedMeansApplied, Applied, Live
<1>4. CASE ~(s.quiet /\ s.can)
  <2>1. last' # None => last'[2] = s.can /\ s.quiet
    BY <1>1
  <2> QED
    BY <1>4, <2>1 DEF FinishedMeansApplied
<1> QED
  BY <1>3, <1>4

LEMMA NothingFinished == last' = None => FinishedMeansApplied'
BY DEF FinishedMeansApplied

LEMMA StillFinished ==
  ASSUME FinishedMeansApplied, last' = last, rec' = rec
  PROVE  FinishedMeansApplied'
<1>1. last # None /\ last[2] => \A n \in DOMAIN last[1] : Applied(last[1][n], rec)
  BY Zenon DEF FinishedMeansApplied, Applied, Live
<1>2. last' # None /\ last'[2] => \A n \in DOMAIN last'[1] : Applied(last'[1][n], rec')
  BY <1>1
<1> QED
  BY <1>2, Zenon DEF FinishedMeansApplied, Applied, Live

\* The steps that go on with the batch.
Proceeds(w) ==
  \/ SkipItem(w) \/ CreateItem(w) \/ WriteSection(w) \/ AssertOne(w) \/ CloseAsserts(w)
  \/ Contribute(w) \/ CloseItem(w)

LEMMA ProceedsOnward ==
  ASSUME TypeInv, NEW w \in Workers, Proceeds(w)
  PROVE  request[w].stage \in InBatch /\ last' = last /\ Onward(request[w], request'[w])
<1> DEFINE s == request[w]
<1>1. s.stage \in InBatch /\ last' = last
  BY DEF Proceeds, SkipItem, CreateItem, WriteSection, AssertOne, CloseAsserts, Contribute,
         CloseItem, At, InBatch
<1>2. PICK t \in Request :
        request' = [request EXCEPT ![w] = t] /\ SaneSession(t) /\ Onward(s, t)
  <2>1. CASE SkipItem(w)
    BY <2>1, SkipItemEffect DEF Skipped
  <2>2. CASE CreateItem(w)
    BY <2>2, CreateItemEffect DEF Created
  <2>3. CASE WriteSection(w)
    <3>1. PICK r \in Records, t \in Request, section \in Section : Wrote(w, r, section, t)
      BY <2>3, WriteSectionEffect
    <3> QED
      BY <3>1 DEF Wrote
  <2>4. CASE AssertOne(w)
    BY <2>4, AssertOneEffect DEF Refused, Repeated, Asserted, Skipped, SameItem
  <2>5. CASE CloseAsserts(w)
    BY <2>5, CloseAssertsEffect DEF Closed, SameItem
  <2>6. CASE Contribute(w)
    BY <2>6, ContributeEffect DEF BelowFloor, Contributed, SameItem
  <2>7. CASE CloseItem(w)
    BY <2>7, CloseItemEffect DEF Unioned, Ended, Skipped
  <2> QED
    BY <2>1, <2>2, <2>3, <2>4, <2>5, <2>6, <2>7 DEF Proceeds
<1>3. request'[w] = t
  BY <1>2, OneSession
<1> QED
  BY <1>1, <1>2, <1>3

\* What a step has to keep, the items apart.
Finishing(w) ==
  /\ Progress(Flushed(w), presets, request[w], rec)
  /\ last # None => request[w].stage \in {"idle", "upload"}
  /\ FinishedMeansApplied

LEMMA StepFinish ==
  ASSUME NEW w \in Workers, FinishInv(w), Step(w)
  PROVE  Finishing(w)'
<1> DEFINE s == request[w]
<1>0. /\ TypeInv /\ ItemInv(w) /\ Progress(Flushed(w), presets, s, rec)
      /\ last # None => s.stage \in {"idle", "upload"}
  BY DEF FinishInv, ItemInv, BornInv
<1>1. CASE Proceeds(w)
  <2>1. s.stage \in InBatch /\ last' = last /\ Onward(s, request'[w])
    BY <1>0, <1>1, ProceedsOnward
  <2>2. last' = None
    BY <1>0, <2>1 DEF InBatch
  <2>3. CASE s.quiet /\ s.can
    <3>1. Working(Flushed(w), presets, s, rec)
      BY <1>0, <2>1, <2>3 DEF Progress
    <3>2. Progress(Flushed(w)', presets', request'[w], rec')
      BY <1>0, <1>1, <2>3, <3>1, SkipWorks, CreateWorks, WriteWorks, AssertWorks, CloseWorks,
         ContributeWorks, CloseItemWorks DEF Proceeds
    <3> QED
      BY <2>2, <3>2, NothingFinished DEF Finishing
  <2>4. CASE ~(s.quiet /\ s.can)
    <3>1. Progress(Flushed(w)', presets', request'[w], rec')
      BY <2>1, <2>4 DEF Progress, Onward
    <3> QED
      BY <2>2, <3>1, NothingFinished DEF Finishing
  <2> QED
    BY <2>3, <2>4
<1>2. CASE FinishBatch(w)
  <2>1. PICK t \in Request :
          /\ request' = [request EXCEPT ![w] = t] /\ SaneSession(t)
          /\ t = [Idle EXCEPT !.again = s.again]
    BY <1>0, <1>2, FinishBatchEffect
  <2>2. request'[w].stage = "idle"
    BY <1>0, <2>1, OneSession DEF Idle
  <2> QED
    BY <1>2, <2>2, FinishWorks DEF Finishing, Progress, InBatch
<1>3. CASE CutOff(w) \/ FinishContribution(w)
  <2>1. last' = None
    BY <1>0, <1>3 DEF CutOff, FinishContribution
  <2>2. request'[w] = Idle
    BY <1>0, <1>3, IdleType, OneSession, DoorSession DEF CutOff, Continue, FinishContribution
  <2>3. request'[w].stage = "idle"
    BY <2>2 DEF Idle
  <2> QED
    BY <2>1, <2>3, NothingFinished DEF Finishing, Progress, InBatch
<1> QED
  BY <1>1, <1>2, <1>3 DEF Step, Proceeds

LEMMA StartFinish ==
  ASSUME NEW w \in Workers, FinishInv(w), Batches \subseteq Consistent,
         NEW b \in Batches, NEW can, can \in BOOLEAN /\ StartBatch(w, b, can)
  PROVE  Finishing(w)'
<1> DEFINE s == request[w]
           new == Flushed(w)'
<1>0. TypeInv /\ rec \in [Records -> Record] /\ Unique(rec, s)
  BY DEF FinishInv, ItemInv, BornInv, TypeInv, TypeOK
<1>1. PICK t \in Request : Started(w, b, can, t)
  BY <1>0, StartBatchEffect
<1>2. /\ request' = [request EXCEPT ![w] = t] /\ SaneSession(t) /\ t.stage = "item"
      /\ t.batch = b /\ t.todo = b /\ t.seen = rec /\ t.pend = NothingPending
      /\ t.known = {r \in Records : Live(r)}
      /\ t.index = [i \in ItemIds |-> {r \in t.known : rec[r].section.item = i}]
      /\ last' = None /\ rec' = rec /\ presets' = presets
  BY <1>1 DEF Started
<1>3. request'[w] = t
  BY <1>0, <1>2, OneSession
<1>4. \A q \in Records : Like(rec[q], new[q])
  <2>1. \A q \in Records : t.pend[q].section = None /\ t.pend[q].canon = None
    BY <1>2, CleanParts
  <2> QED
    BY <1>0, <1>2, <1>3, <2>1, CleanView
<1> HIDE DEF s, new
<1>5. Filed(new, t)
  <2>1. \A r \in Records : r \in t.known <=> rec[r].state = "live"
    BY <1>2 DEF Live
  <2>2. \A i \in ItemIds : t.index[i] = {r \in t.known : rec[r].section.item = i}
    BY <1>2
  <2>3. \A i \in ItemIds : \A r, q \in t.index[i] : r = q
    BY <1>0, <1>2, <2>1, <2>2 DEF Unique, Carries
  <2>4. Filed(rec, t)
    BY <2>1, <2>2, <2>3 DEF Filed
  <2> QED
    BY <1>4, <2>4, LikeFiled DEF Like
<1>6. b \in Consistent /\ b \in Seq(OneName)
  BY DEF Consistent
<1>7. Served(new, presets', t)
  <2>1. \A n \in 1 .. Len(t.batch) - Len(t.todo) : FALSE
    BY <1>2, <1>6, LenProperties
  <2> QED
    BY <2>1 DEF Served
<1>8. Aligned(t.batch, t.todo)
  BY <1>2, <1>6, WholeAligned
<1>9. Working(new, presets', t, rec')
  BY <1>2, <1>5, <1>6, <1>7, <1>8 DEF Working
<1> QED
  BY <1>2, <1>3, <1>9, NothingFinished DEF Finishing, Progress, new

LEMMA DoorFinish ==
  ASSUME NEW w \in Workers, FinishInv(w), Door
  PROVE  Finishing(w)'
<1>1. last' = None /\ request' = Disturbed
  <2>1. ASSUME CreateInstance PROVE last' = None /\ request' = Disturbed
    BY <2>1 DEF CreateInstance, Write
  <2>2. ASSUME NEW r \in Records,
               \/ DeleteInstance(r)
               \/ \E data \in Data : WriteClientSection(r, data)
               \/ \E p \in Preset : DeletePreset(r, p)
               \/ \E x \in Blobs : DeleteMedia(r, x)
        PROVE  last' = None /\ request' = Disturbed
    BY <2>2 DEF DeleteInstance, WriteClientSection, DeletePreset, DeleteMedia, Write
  <2>3. ASSUME NEW r \in Records, NEW p \in Paths, NEW v \in Values,
               AssertCanonical(r, p, v) \/ ObserveCanonical(r, p, v)
        PROVE  last' = None /\ request' = Disturbed
    BY <2>3 DEF AssertCanonical, ObserveCanonical, SetLeaf, Write
  <2> QED
    BY <2>1, <2>2, <2>3 DEF Door
<1>2. ~request'[w].quiet
  BY <1>1, DisturbedType DEF FinishInv, ItemInv, BornInv
<1> QED
  BY <1>1, <1>2, NothingFinished DEF Finishing, Progress

LEMMA NextFinish ==
  ASSUME NEW w \in Workers, Workers = {w}, Batches \subseteq Consistent,
         FinishInv(w), [Next]_vars
  PROVE  FinishInv(w)'
<1>0. TypeInv
  BY DEF FinishInv, ItemInv, BornInv
<1>1. ItemInv(w)'
  <2>1. \A b \in Batches : b \in Seq(OneName)
    BY DEF Consistent
  <2> QED
    BY <2>1, NextUnique DEF FinishInv
<1> SUFFICES Finishing(w)'
  BY <1>1 DEF FinishInv, Finishing
<1>2. CASE UNCHANGED vars
  <2>1. UNCHANGED <<rec, presets, request, last>>
    BY <1>2 DEF vars
  <2>2. Flushed(w)' = Flushed(w)
    BY <2>1 DEF Flushed
  <2> QED
    BY <2>1, <2>2, StillFinished DEF FinishInv, Finishing
<1>3. CASE Door
  BY <1>3, DoorFinish
<1>4. CASE Step(w)
  BY <1>4, StepFinish
<1>5. ASSUME NEW b \in Batches, NEW can, can \in BOOLEAN /\ StartBatch(w, b, can)
      PROVE  Finishing(w)'
  BY <1>5, StartFinish
<1>6. ASSUME NEW r \in Records, StartUpload(w, r) PROVE Finishing(w)'
  <2>1. PICK t \in Request :
          /\ request' = [request EXCEPT ![w] = t] /\ DoorRequest(r, t, "upload", rec)
          /\ rec' = rec /\ last' = last
    BY <1>0, <1>6, StartUploadEffect
  <2>2. request'[w].stage = "upload"
    BY <1>0, <2>1, OneSession DEF DoorRequest
  <2>3. FinishedMeansApplied'
    BY <2>1, StillFinished DEF FinishInv
  <2> QED
    BY <2>2, <2>3 DEF Finishing, Progress, InBatch
<1>7. ASSUME NEW r \in Records, NEW e \in PresetEntry, StartContribution(w, r, e)
      PROVE  Finishing(w)'
  <2>1. PICK t \in Request :
          /\ request' = [Disturbed EXCEPT ![w] = t] /\ DoorRequest(r, t, "door", None)
          /\ last' = None
    BY <1>0, <1>7, StartContributionEffect
  <2>2. request'[w].stage = "door"
    BY <1>0, <2>1, DoorSession DEF DoorRequest
  <2> QED
    BY <2>1, <2>2, NothingFinished DEF Finishing, Progress, InBatch
<1>8. ASSUME NEW b \in Blobs, FinishUpload(w, b) PROVE Finishing(w)'
  <2>1. request' = [Disturbed EXCEPT ![w] = Idle] /\ last' = None
    BY <1>0, <1>8, FinishUploadEffect
  <2>2. request'[w] = Idle
    BY <1>0, <2>1, IdleType, DoorSession
  <2>3. request'[w].stage = "idle"
    BY <2>2 DEF Idle
  <2> QED
    BY <2>1, <2>3, NothingFinished DEF Finishing, Progress, InBatch
<1> QED
  BY <1>2, <1>3, <1>4, <1>5, <1>6, <1>7, <1>8 DEF Next

\* "Validation problems are per-item results and the batch proceeds", and after a
\* failure "retrying is safe" (batch_sync.py:20-22): a batch with the assert door
\* that finishes has put every valid item on its record, payload, asserts and
\* presets, whatever its other items were refused for and whatever an attempt that
\* was cut off had already done.  One request is served at a time; an item names its
\* record by id or by the client's item, all items of a body in the same way, and of
\* one record two items want the same: of two that do not, the last one wins.
THEOREM FinishedIsApplied ==
  ASSUME NEW w, Workers = {w}, Batches \subseteq Consistent
  PROVE  Spec => []FinishedMeansApplied
<1>0. w \in Workers
  OBVIOUS
<1>1. ASSUME Init PROVE FinishInv(w)
  <2>1. BornInv
    BY <1>1, InitTyped, IdleIgnores DEF Init, BornInv
  <2>2. rec = [r \in Records |-> Unborn] /\ request[w] = Idle /\ last = None
    BY <1>0, <1>1 DEF Init
  <2>3. Tidy(rec, Idle)
    BY <2>2, IdleTidy, NothingSection DEF Tidy
  <2>4. Unique(rec, Idle)
    BY <2>2, UnbornType DEF Unique, Carries
  <2>5. Idle.stage \notin InBatch
    BY IdleTidy
  <2> QED
    BY <2>1, <2>2, <2>3, <2>4, <2>5 DEF ItemInv, FinishInv, Progress, FinishedMeansApplied
<1>2. FinishInv(w) /\ [Next]_vars => FinishInv(w)'
  BY <1>0, NextFinish
<1>3. FinishInv(w) => FinishedMeansApplied
  BY DEF FinishInv
<1> QED
  BY <1>1, <1>2, <1>3, PTL DEF Spec
=============================================================================
