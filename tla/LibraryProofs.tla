---------------------------- MODULE LibraryProofs ----------------------------
(***************************************************************************)
(* For all sets of ids, spellings, files and batches, and any number of    *)
(* requests and cuts: the types, and what the run checks of identities,    *)
(* links, labels and finished imports.                                     *)
(***************************************************************************)
EXTENDS Library, SequenceTheorems, TLAPS

\* What the stage of a request says of the types of what it holds.
StageTyped(r) ==
  /\ r.stage = "item" => r.job \in Batches /\ r.todo \in Seq(Item)
  /\ r.stage \in {"draft", "raw", "collect"} =>
       r.job \in Files /\ r.todo \in Seq(Spellings \cup {None})
  /\ r.stage \in {"unlink", "instantiate", "raw"} => r.type \in Types
  /\ r.stage = "unlink" => r.rest \subseteq Instances
  /\ r.stage = "burn" => r.inst \in Instances /\ r.rest \subseteq Labels
  /\ r.stage \in {"put", "scanned"} => r.inst \in Instances /\ r.label \in Labels

Typed == TypeOK /\ \A w \in Workers : StageTyped(request[w])

LEMMA IdleTyped == Idle \in Request /\ StageTyped(Idle)
<1>1. NoCollection \in Collection
  BY DEF NoCollection, Collection
<1>2. <<>> \in Seq(Item) /\ [k \in Keys |-> None] \in [Keys -> Types \cup {None}]
  OBVIOUS
<1> QED
  BY <1>2 DEF Idle, Request, StageTyped

\* What a step may change of a request that is in order, one field at a time.
LEMMA QuietTyped ==
  ASSUME NEW r \in Request, StageTyped(r), NEW q \in BOOLEAN
  PROVE  [r EXCEPT !.quiet = q] \in Request /\ StageTyped([r EXCEPT !.quiet = q])
BY DEF Request, StageTyped

LEMMA DisturbedTyped ==
  ASSUME NEW r \in Request, StageTyped(r)
  PROVE  Disturbed(r) \in Request /\ StageTyped(Disturbed(r))
<1> DEFINE q == r.quiet /\ r.job = None
<1>1. q \in BOOLEAN
  OBVIOUS
<1>2. Disturbed(r) = [r EXCEPT !.quiet = q]
  BY DEF Disturbed
<1> HIDE DEF q
<1> QED
  BY <1>1, <1>2, QuietTyped

LEMMA CreatedTyped ==
  ASSUME NEW r \in Request, StageTyped(r), NEW t \in Types, NEW k \in Keys
  PROVE  [r EXCEPT !.known[k] = t, !.seen = None] \in Request
         /\ StageTyped([r EXCEPT !.known[k] = t, !.seen = None])
<1> DEFINE known == [r.known EXCEPT ![k] = t]
<1>1. known \in [Keys -> Types \cup {None}]
  BY DEF Request
<1>2. [r EXCEPT !.known[k] = t, !.seen = None] = [r EXCEPT !.known = known, !.seen = None]
  BY DEF Request
<1> HIDE DEF known
<1>3. [r EXCEPT !.known = known, !.seen = None] \in Request
  BY <1>1 DEF Request
<1>4. StageTyped([r EXCEPT !.known = known, !.seen = None])
  BY <1>1 DEF Request, StageTyped
<1> QED
  BY <1>2, <1>3, <1>4

LEMMA PreservedTyped ==
  ASSUME NEW r \in Request, StageTyped(r), r.stage = "raw"
  PROVE  [r EXCEPT !.stage = "draft", !.type = None] \in Request
         /\ StageTyped([r EXCEPT !.stage = "draft", !.type = None])
BY DEF Request, StageTyped

\* Typed but for the counter of requests, which every start raises.
TablesTyped ==
  /\ type \in [Types -> Type]
  /\ inst \in [Instances -> Instance]
  /\ label \in [Labels -> Label]
  /\ coll \in [Collections -> Collection]
  /\ late \subseteq Instances \cup Labels
  /\ failed \in 0 .. Failures

RequestsTyped ==
  /\ request \in [Workers -> Request]
  /\ \A w \in Workers : StageTyped(request[w])

LEMMA ContinueTyped ==
  ASSUME Typed, NEW w \in Workers, NEW r \in Request, StageTyped(r),
         Continue(w, r) \/ request' = Others(w, r)
  PROVE  RequestsTyped'
<1>1. \A v \in Workers : request[v] \in Request /\ StageTyped(request[v])
  BY DEF Typed, TypeOK
<1>2. CASE Continue(w, r)
  BY <1>1, <1>2 DEF Continue, RequestsTyped, Typed, TypeOK
<1>3. CASE request' = Others(w, r)
  <2>1. \A v \in Workers : Disturbed(request[v]) \in Request /\ StageTyped(Disturbed(request[v]))
    BY <1>1, DisturbedTyped
  <2> QED
    BY <1>3, <2>1 DEF Others, RequestsTyped
<1> QED
  BY <1>2, <1>3

LEMMA TouchAllTyped == Typed /\ TouchAll => RequestsTyped'
BY DisturbedTyped DEF Typed, TypeOK, TouchAll, RequestsTyped

\* What is at the head of the work, and what is left without it.
LEMMA HeadTyped ==
  ASSUME Typed, NEW w \in Workers, More(w), request[w].stage \in {"item", "draft"}
  PROVE  /\ Rest(w) \in Request /\ StageTyped(Rest(w))
         /\ Rest(w).stage = request[w].stage /\ Rest(w).todo = Tail(request[w].todo)
         /\ Rest(w).job = request[w].job /\ Rest(w).quiet = request[w].quiet
         /\ At(w, "item") => /\ Head1(w) \in Item /\ Head1(w).ident \in Spellings \cup {None}
                             /\ Head1(w).data \in Data
                             /\ Head1(w).ident # None => Norm[Head1(w).ident] \in Keys
         /\ At(w, "draft") => /\ Head1(w) \in Spellings \cup {None}
                              /\ Head1(w) # None => Norm[Head1(w)] \in Keys
<1>1. request[w] \in Request /\ StageTyped(request[w])
  BY DEF Typed, TypeOK
<1> DEFINE t == Tail(request[w].todo)
<1>2. CASE At(w, "item")
  <2>1. request[w].todo \in Seq(Item) /\ request[w].todo # <<>>
    BY <1>1, <1>2 DEF StageTyped, At, More
  <2>2. Head1(w) \in Item /\ t \in Seq(Item)
    BY <2>1, HeadTailProperties DEF Head1
  <2>3. Rest(w) = [request[w] EXCEPT !.todo = t]
    BY DEF Rest
  <2> HIDE DEF t
  <2>4. Head1(w).ident \in Spellings \cup {None} /\ Head1(w).data \in Data
    BY <2>2 DEF Item
  <2>5. Rest(w) \in Request /\ StageTyped(Rest(w)) /\ Rest(w).todo = t
    BY <1>1, <1>2, <2>2, <2>3 DEF Request, StageTyped, At
  <2> QED
    BY <1>1, <1>2, <2>2, <2>3, <2>4, <2>5, NormAssumption DEF At, Request, t
<1>3. CASE At(w, "draft")
  <2>1. request[w].todo \in Seq(Spellings \cup {None}) /\ request[w].todo # <<>>
    BY <1>1, <1>3 DEF StageTyped, At, More
  <2>2. Head1(w) \in Spellings \cup {None} /\ t \in Seq(Spellings \cup {None})
    BY <2>1, HeadTailProperties DEF Head1
  <2>3. Rest(w) = [request[w] EXCEPT !.todo = t]
    BY DEF Rest
  <2> HIDE DEF t
  <2>5. Rest(w) \in Request /\ StageTyped(Rest(w)) /\ Rest(w).todo = t
    BY <1>1, <1>3, <2>2, <2>3 DEF Request, StageTyped, At
  <2> QED
    BY <1>1, <1>3, <2>2, <2>3, <2>5, NormAssumption DEF At, Request, t
<1> QED
  BY <1>2, <1>3 DEF At

LEMMA RowsTyped ==
  /\ UnbornType \in Type /\ [UnbornType EXCEPT !.state = "gone"] \in Type
  /\ NoSections \in Sections
  /\ NoCollection \in Collection /\ GoneInst \in Instance /\ GoneLabel \in Label
BY DEF UnbornType, Type, NoSections, Sections, NoCollection, Collection, GoneInst, Instance,
       GoneLabel, Label

LEMMA KeyTyped == \A s \in Spellings \cup {None} : KeyOf(s) \in Keys \cup {None}
BY NormAssumption DEF KeyOf

LEMMA NewTypeTyped ==
  ASSUME NEW s \in Spellings \cup {None}, NEW c \in Sections
  PROVE  /\ NewType(s, c) \in Type /\ NewType(s, c).state = "live"
         /\ NewType(s, c).ident = s /\ NewType(s, c).key = KeyOf(s) /\ NewType(s, c).clients = c
BY RowsTyped, KeyTyped DEF NewType, Stamped, Type, UnbornType

LEMMA StampedTyped ==
  ASSUME NEW row \in Type, NEW s \in Spellings \cup {None}
  PROVE  /\ Stamped(row, s) \in Type /\ Stamped(row, s).state = row.state
         /\ Stamped(row, s).ident = s /\ Stamped(row, s).key = KeyOf(s)
         /\ Stamped(row, s).clients = row.clients
BY KeyTyped DEF Stamped, Type

\* The tables and the requests of a door that is one step.
LEMMA CreateRecordTyped == Typed /\ CreateCatalogRecord => TablesTyped' /\ RequestsTyped'
<1> SUFFICES ASSUME Typed, CreateCatalogRecord PROVE TablesTyped' /\ RequestsTyped'
  OBVIOUS
<1>1. PICK t \in Types, s \in Spellings, data \in Data \cup {None} :
        type' = [type EXCEPT ![t] = NewType(s, [NoSections EXCEPT !.data = data])]
  BY DEF CreateCatalogRecord
<1>2. [NoSections EXCEPT !.data = data] \in Sections
  BY DEF NoSections, Sections
<1>3. NewType(s, [NoSections EXCEPT !.data = data]) \in Type
  BY <1>2, NewTypeTyped
<1> QED
  BY <1>1, <1>3, TouchAllTyped DEF CreateCatalogRecord, Typed, TypeOK, TablesTyped

LEMMA AssertTyped ==
  ASSUME Typed, NEW t \in Types, NEW s \in Spellings \cup {None}, AssertCanonical(t, s)
  PROVE  TablesTyped' /\ RequestsTyped'
<1>1. Stamped(type[t], s) \in Type
  BY StampedTyped DEF Typed, TypeOK
<1> QED
  BY <1>1, TouchAllTyped DEF AssertCanonical, Typed, TypeOK, TablesTyped

LEMMA SectionTyped ==
  ASSUME Typed, NEW t \in Types, NEW data \in Data, WriteClientSection(t, data)
  PROVE  TablesTyped' /\ RequestsTyped'
<1>1. [type[t] EXCEPT !.clients = [@ EXCEPT !.data = data]] \in Type
  BY DEF Typed, TypeOK, Type, Sections
<1> QED
  BY <1>1, TouchAllTyped DEF WriteClientSection, Typed, TypeOK, TablesTyped, Type, Sections

LEMMA DoorTyped == Typed /\ Door => TablesTyped' /\ RequestsTyped'
<1> SUFFICES ASSUME Typed, Door PROVE TablesTyped' /\ RequestsTyped'
  OBVIOUS
<1>1. CASE CreateCatalogRecord
  BY <1>1, CreateRecordTyped
<1>2. CASE MintLabel
  <2>1. PICK l \in Labels : label[l].state = "unborn"
    BY <1>2 DEF MintLabel
  <2>2. label' \in [Labels -> Label]
    BY <1>2 DEF MintLabel, Typed, TypeOK, Label
  <2> QED
    BY <1>2, <2>2 DEF MintLabel, Typed, TypeOK, TablesTyped, RequestsTyped, StageTyped
<1>3. CASE \E t \in Types : \/ \E s \in Spellings \cup {None} : AssertCanonical(t, s)
                            \/ \E data \in Data : WriteClientSection(t, data)
  BY <1>3, AssertTyped, SectionTyped
<1>4. CASE \E c \in Collections : \/ \E n \in Names : CreateCatalog(c, n) \/ RenameCatalog(c, n)
                                  \/ \E m \in SUBSET Types : SetMembers(c, m)
                                  \/ DeleteCatalog(c)
  <2>1. TouchAll /\ UNCHANGED <<type, inst, label, late, failed>>
    BY <1>4 DEF CreateCatalog, RenameCatalog, SetMembers, DeleteCatalog
  <2>2. coll' \in [Collections -> Collection]
    BY <1>4, RowsTyped
    DEF CreateCatalog, RenameCatalog, SetMembers, DeleteCatalog, Typed, TypeOK, Collection
  <2> QED
    BY <2>1, <2>2, TouchAllTyped DEF Typed, TypeOK, TablesTyped
<1>5. CASE \E l \in Labels : DeleteLabel(l) \/ \E i \in Instances : UnlabelInstance(i, l)
  <2>1. UNCHANGED <<type, inst, coll, request, failed>>
    BY <1>5 DEF DeleteLabel, UnlabelInstance
  <2>2. label' \in [Labels -> Label] /\ late' \subseteq Instances \cup Labels
    BY <1>5, RowsTyped DEF DeleteLabel, UnlabelInstance, Typed, TypeOK, Label
  <2> QED
    BY <2>1, <2>2 DEF Typed, TypeOK, TablesTyped, RequestsTyped, StageTyped
<1> QED
  BY <1>1, <1>2, <1>3, <1>4, <1>5 DEF Door

-----------------------------------------------------------------------------
(* The types: requests that start, and their later steps. *)

LEMMA StartTyped == ASSUME Typed, NEW w \in Workers, Start(w) PROVE TablesTyped' /\ RequestsTyped'
<1>0. Idle \in Request
  BY IdleTyped
<1>1. ASSUME NEW t \in Types, DeleteCatalogRecord(w, t) PROVE TablesTyped' /\ RequestsTyped'
  <2> DEFINE r == [Idle EXCEPT !.stage = "unlink", !.type = t, !.rest = Linked(t)]
  <2>1. Linked(t) \in SUBSET Instances
    BY DEF Linked
  <2>2. r \in Request /\ StageTyped(r)
    BY <1>0, <2>1 DEF Request, StageTyped, Idle
  <2> HIDE DEF r
  <2>3. RequestsTyped'
    BY <1>1, <2>2, ContinueTyped DEF DeleteCatalogRecord, r
  <2> QED
    BY <1>1, <2>3 DEF DeleteCatalogRecord, Typed, TypeOK, TablesTyped
<1>2. ASSUME NEW t \in Types, CreateInstance(w, t) PROVE TablesTyped' /\ RequestsTyped'
  <2> DEFINE r == [Idle EXCEPT !.stage = "instantiate", !.type = t]
  <2>2. r \in Request /\ StageTyped(r)
    BY <1>0 DEF Request, StageTyped, Idle
  <2> HIDE DEF r
  <2>3. RequestsTyped'
    BY <1>2, <2>2, ContinueTyped DEF CreateInstance, r
  <2> QED
    BY <1>2, <2>3 DEF CreateInstance, Typed, TypeOK, TablesTyped
<1>3. ASSUME NEW b \in Batches, NEW can \in BOOLEAN, StartBatch(w, b, can)
      PROVE TablesTyped' /\ RequestsTyped'
  <2> DEFINE seen == [t \in Types |-> type[t].clients]
             r == [Idle EXCEPT !.stage = "item", !.job = b, !.can = can, !.todo = b.items,
                               !.known = ByNatural, !.seen = seen, !.quiet = TRUE]
  <2>1. b.items \in Seq(Item)
    BY BatchesAssumption DEF Batch
  <2>2. ByNatural \in [Keys -> Types \cup {None}]
    BY DEF ByNatural
  <2>3. seen \in [Types -> Sections]
    BY DEF Typed, TypeOK, Type
  <2> HIDE DEF seen
  <2>4. r \in Request /\ StageTyped(r)
    BY <1>0, <2>1, <2>2, <2>3 DEF Request, StageTyped, Idle
  <2> HIDE DEF r
  <2>5. RequestsTyped'
    BY <1>3, <2>4, ContinueTyped DEF StartBatch, r, seen
  <2> QED
    BY <1>3, <2>5 DEF StartBatch, Typed, TypeOK, TablesTyped
<1>4. ASSUME NEW f \in Files, StartImport(w, f) PROVE TablesTyped' /\ RequestsTyped'
  <2> DEFINE r == [Idle EXCEPT !.stage = "draft", !.job = f, !.todo = f.drafts, !.quiet = TRUE]
  <2>1. f.drafts \in Seq(Spellings \cup {None})
    BY FilesAssumption DEF File
  <2>2. r \in Request /\ StageTyped(r)
    BY <1>0, <2>1 DEF Request, StageTyped, Idle
  <2> HIDE DEF r
  <2>3. RequestsTyped'
    BY <1>4, <2>2, ContinueTyped DEF StartImport, r
  <2> QED
    BY <1>4, <2>3 DEF StartImport, Typed, TypeOK, TablesTyped
<1>5. ASSUME NEW i \in Instances, DeleteInstance(w, i) PROVE TablesTyped' /\ RequestsTyped'
  <2>1. CASE UNCHANGED <<label, request>>
    <3>1. inst' \in [Instances -> Instance] /\ label' \in [Labels -> Label]
      BY <1>5, <2>1, RowsTyped DEF DeleteInstance, Typed, TypeOK
    <3> QED
      BY <1>5, <2>1, <3>1 DEF DeleteInstance, Typed, TypeOK, TablesTyped, RequestsTyped, StageTyped
  <2>2. ASSUME NEW l \in LabelsOn(i), label' = [label EXCEPT ![l] = GoneLabel], UNCHANGED inst,
               Continue(w, [Idle EXCEPT !.stage = "burn", !.inst = i, !.rest = LabelsOn(i) \ {l}])
        PROVE TablesTyped' /\ RequestsTyped'
    <3> DEFINE r == [Idle EXCEPT !.stage = "burn", !.inst = i, !.rest = LabelsOn(i) \ {l}]
    <3>1. LabelsOn(i) \ {l} \in SUBSET Labels
      BY DEF LabelsOn
    <3>2. r \in Request /\ StageTyped(r)
      BY <1>0, <3>1 DEF Request, StageTyped, Idle
    <3>3. label' \in [Labels -> Label]
      BY <2>2, RowsTyped DEF Typed, TypeOK
    <3> HIDE DEF r
    <3>4. RequestsTyped'
      BY <2>2, <3>2, ContinueTyped DEF r
    <3> QED
      BY <1>5, <2>2, <3>3, <3>4 DEF DeleteInstance, Typed, TypeOK, TablesTyped
  <2> QED
    BY <1>5, <2>1, <2>2 DEF DeleteInstance
<1>6. ASSUME NEW i \in Instances, NEW l \in Labels, LabelInstance(w, i, l)
      PROVE TablesTyped' /\ RequestsTyped'
  <2> DEFINE r == [Idle EXCEPT !.stage = "put", !.inst = i, !.label = l, !.quiet = TRUE]
  <2>2. r \in Request /\ StageTyped(r)
    BY <1>0 DEF Request, StageTyped, Idle
  <2> HIDE DEF r
  <2>3. RequestsTyped'
    BY <1>6, <2>2, ContinueTyped DEF LabelInstance, r
  <2> QED
    BY <1>6, <2>3 DEF LabelInstance, Typed, TypeOK, TablesTyped
<1>7. ASSUME NEW l \in Labels, LabelFromScan(w, l) PROVE TablesTyped' /\ RequestsTyped'
  <2>1. PICK i \in Instances :
          /\ inst' = [inst EXCEPT ![i].state = "live"]
          /\ Continue(w, [Idle EXCEPT !.stage = "scanned", !.inst = i, !.label = l, !.quiet = TRUE])
    BY <1>7 DEF LabelFromScan
  <2> DEFINE r == [Idle EXCEPT !.stage = "scanned", !.inst = i, !.label = l, !.quiet = TRUE]
  <2>2. r \in Request /\ StageTyped(r)
    BY <1>0 DEF Request, StageTyped, Idle
  <2> HIDE DEF r
  <2>3. RequestsTyped'
    BY <2>1, <2>2, ContinueTyped DEF r
  <2>4. inst' \in [Instances -> Instance]
    BY <2>1 DEF Typed, TypeOK, Instance
  <2> QED
    BY <1>7, <2>3, <2>4 DEF LabelFromScan, Typed, TypeOK, TablesTyped
<1> QED
  BY <1>1, <1>2, <1>3, <1>4, <1>5, <1>6, <1>7 DEF Start

LEMMA StepTyped == ASSUME Typed, NEW w \in Workers, Step(w) PROVE TablesTyped' /\ RequestsTyped'
<1>0. /\ Idle \in Request /\ StageTyped(Idle)
      /\ request[w] \in Request /\ StageTyped(request[w])
      /\ \A t \in Types : type[t] \in Type
  BY IdleTyped DEF Typed, TypeOK
<1>1. CASE UnlinkInstance(w)
  <2>1. PICK i \in request[w].rest :
          /\ inst' = [inst EXCEPT ![i].link = None]
          /\ Continue(w, [request[w] EXCEPT !.rest = @ \ {i}])
    BY <1>1 DEF UnlinkInstance
  <2> DEFINE r == [request[w] EXCEPT !.rest = @ \ {i}]
  <2>2. r \in Request /\ StageTyped(r)
    BY <1>0 DEF Request, StageTyped
  <2>3. i \in Instances /\ inst' \in [Instances -> Instance]
    BY <1>0, <1>1, <2>1 DEF UnlinkInstance, At, StageTyped, Typed, TypeOK, Instance
  <2> HIDE DEF r
  <2>4. RequestsTyped'
    BY <2>1, <2>2, ContinueTyped DEF r
  <2> QED
    BY <1>1, <2>3, <2>4 DEF UnlinkInstance, Typed, TypeOK, TablesTyped
<1>2. CASE DropCatalogRecord(w)
  <2>1. RequestsTyped'
    BY <1>0, <1>2, ContinueTyped DEF DropCatalogRecord, Touch
  <2> QED
    BY <1>2, <2>1, RowsTyped DEF DropCatalogRecord, Typed, TypeOK, TablesTyped
<1>3. CASE SkipItem(w)
  <2>1. RequestsTyped'
    BY <1>3, HeadTyped, ContinueTyped DEF SkipItem, At
  <2> QED
    BY <1>3, <2>1 DEF SkipItem, Typed, TypeOK, TablesTyped
<1>4. CASE SyncExisting(w)
  <2> DEFINE k == Norm[Head1(w).ident]
             t == request[w].known[k]
             loaded == IF request[w].seen = None THEN type[t].clients ELSE request[w].seen[t]
             r == [Rest(w) EXCEPT !.seen = None]
             c == [loaded EXCEPT !.data = Head1(w).data]
  <2>1. /\ Rest(w) \in Request /\ StageTyped(Rest(w))
        /\ k \in Keys /\ Head1(w).data \in Data
    BY <1>4, HeadTyped DEF SyncExisting, At
  <2>2. t \in Types
    BY <1>0, <1>4, <2>1 DEF SyncExisting, Request
  <2> HIDE DEF k
  <2>3. r \in Request /\ StageTyped(r)
    BY <2>1 DEF Request, StageTyped
  <2> HIDE DEF t
  <2>4. loaded \in Sections
    BY <1>0, <2>2 DEF Type, Request
  <2> HIDE DEF loaded
  <2>5. c \in Sections
    BY <2>1, <2>4 DEF Sections
  <2> HIDE DEF r, c
  <2>6. CASE Continue(w, Rest(w)) /\ UNCHANGED <<type, last>>
    <3>1. RequestsTyped'
      BY <2>1, <2>6, ContinueTyped
    <3> QED
      BY <1>4, <2>6, <3>1 DEF SyncExisting, Typed, TypeOK, TablesTyped
  <2>7. CASE type' = [type EXCEPT ![t].clients = c] /\ Touch(w, r)
    <3>1. RequestsTyped'
      BY <2>3, <2>7, ContinueTyped DEF Touch
    <3>2. type' \in [Types -> Type]
      BY <2>2, <2>5, <2>7 DEF Typed, TypeOK, Type
    <3> QED
      BY <1>4, <3>1, <3>2 DEF SyncExisting, Typed, TypeOK, TablesTyped
  <2> QED
    BY <1>4, <2>6, <2>7 DEF SyncExisting, k, t, loaded, c, r
<1>5. CASE CreateFromItem(w)
  <2> DEFINE k == Norm[Head1(w).ident]
             c == [NoSections EXCEPT !.data = Head1(w).data]
  <2>1. /\ Rest(w) \in Request /\ StageTyped(Rest(w)) /\ k \in Keys
        /\ Head1(w).data \in Data /\ Head1(w).ident \in Spellings \cup {None}
    BY <1>5, HeadTyped DEF CreateFromItem, At
  <2>2. PICK t \in Types :
          /\ type' = [type EXCEPT ![t] = NewType(Head1(w).ident, c)]
          /\ Touch(w, [Rest(w) EXCEPT !.known[k] = t, !.seen = None])
    BY <1>5 DEF CreateFromItem
  <2> DEFINE r == [Rest(w) EXCEPT !.known[k] = t, !.seen = None]
  <2>3. c \in Sections
    BY <2>1 DEF Sections, NoSections
  <2>4. NewType(Head1(w).ident, c) \in Type
    BY <2>1, <2>3, NewTypeTyped
  <2> HIDE DEF k, c
  <2>5. r \in Request /\ StageTyped(r)
    BY <2>1, CreatedTyped DEF k
  <2> HIDE DEF r
  <2>6. RequestsTyped'
    BY <2>2, <2>5, ContinueTyped DEF Touch, r
  <2> QED
    BY <1>5, <2>2, <2>4, <2>6 DEF CreateFromItem, Typed, TypeOK, TablesTyped
<1>6. CASE FinishBatch(w)
  BY <1>0, <1>6, ContinueTyped DEF FinishBatch, Typed, TypeOK, TablesTyped
<1>7. CASE SkipDraft(w)
  <2>1. RequestsTyped'
    BY <1>7, HeadTyped, ContinueTyped DEF SkipDraft, At
  <2> QED
    BY <1>7, <2>1 DEF SkipDraft, Typed, TypeOK, TablesTyped
<1>8. CASE ImportDraft(w)
  <2>1. Rest(w) \in Request /\ StageTyped(Rest(w)) /\ Head1(w) \in Spellings \cup {None}
        /\ Rest(w).stage = "draft"
    BY <1>8, HeadTyped DEF ImportDraft, At
  <2>2. PICK t \in Types :
          /\ type' = [type EXCEPT ![t] = NewType(Head1(w), NoSections)]
          /\ Touch(w, [Rest(w) EXCEPT !.stage = "raw", !.type = t, !.members = @ \cup {t}])
    BY <1>8 DEF ImportDraft
  <2> DEFINE r == [Rest(w) EXCEPT !.stage = "raw", !.type = t, !.members = @ \cup {t}]
  <2>3. NewType(Head1(w), NoSections) \in Type
    BY <2>1, NewTypeTyped, RowsTyped
  <2>4. r \in Request /\ StageTyped(r)
    BY <2>1 DEF Request, StageTyped
  <2> HIDE DEF r
  <2>5. RequestsTyped'
    BY <2>2, <2>4, ContinueTyped DEF Touch, r
  <2> QED
    BY <1>8, <2>2, <2>3, <2>5 DEF ImportDraft, Typed, TypeOK, TablesTyped
<1>9. CASE PreserveRaw(w)
  <2> DEFINE r == [request[w] EXCEPT !.stage = "draft", !.type = None]
  <2>1. r \in Request /\ StageTyped(r)
    BY <1>0, <1>9, PreservedTyped DEF PreserveRaw, At
  <2>2. type' \in [Types -> Type]
    <3>1. \A t \in Types : [type[t] EXCEPT !.clients = [@ EXCEPT !.raw = TRUE]] \in Type
      BY <1>0 DEF Type, Sections
    <3>2. request[w].type \in Types
      BY <1>0, <1>9 DEF PreserveRaw, At, StageTyped
    <3> QED
      BY <1>9, <3>1, <3>2 DEF PreserveRaw, Typed, TypeOK
  <2> HIDE DEF r
  <2>3. RequestsTyped'
    BY <1>9, <2>1, ContinueTyped DEF PreserveRaw, Touch, r
  <2> QED
    BY <1>9, <2>2, <2>3 DEF PreserveRaw, Typed, TypeOK, TablesTyped
<1>10. CASE EndDrafts(w)
  <2> DEFINE m == request[w].members \cup Existing(request[w].job)
             r == [request[w] EXCEPT !.stage = "collect", !.members = m]
  <2>1. m \in SUBSET Types
    BY <1>0 DEF Existing, Request
  <2> HIDE DEF m
  <2>2. r \in Request /\ StageTyped(r)
    BY <1>0, <1>10, <2>1 DEF EndDrafts, At, Request, StageTyped
  <2> HIDE DEF r
  <2>3. Continue(w, r) \/ Continue(w, Idle)
    BY <1>10 DEF EndDrafts, r, m
  <2>4. RequestsTyped'
    BY <1>0, <2>2, <2>3, ContinueTyped
  <2> QED
    BY <1>10, <2>4 DEF EndDrafts, Typed, TypeOK, TablesTyped
<1>11. CASE FindCollection(w)
  <2>1. request[w].job.name \in Names
    BY <1>0, <1>11, FilesAssumption DEF FindCollection, At, StageTyped, File
  <2>2. coll' \in [Collections -> Collection]
    BY <1>11, <2>1 DEF FindCollection, Typed, TypeOK, Collection
  <2>3. RequestsTyped'
    BY <1>0, <1>11, ContinueTyped DEF FindCollection, Touch
  <2> QED
    BY <1>11, <2>2, <2>3 DEF FindCollection, Typed, TypeOK, TablesTyped
<1>12. CASE FillCollection(w)
  <2>1. request[w].members \in SUBSET Types
    BY <1>0 DEF Request
  <2>2. coll' \in [Collections -> Collection]
    BY <1>12, <2>1 DEF FillCollection, Merged, NamedSo, Typed, TypeOK, Collection
  <2>3. RequestsTyped'
    BY <1>0, <1>12, ContinueTyped DEF FillCollection
  <2> QED
    BY <1>12, <2>2, <2>3 DEF FillCollection, Typed, TypeOK, TablesTyped
<1>13. CASE InsertInstance(w)
  <2>1. request[w].type \in Types
    BY <1>0, <1>13 DEF InsertInstance, At, StageTyped
  <2>2. inst' \in [Instances -> Instance] /\ late' \subseteq Instances \cup Labels
    BY <1>13, <2>1 DEF InsertInstance, Typed, TypeOK, Instance
  <2>3. RequestsTyped'
    BY <1>0, <1>13, ContinueTyped DEF InsertInstance
  <2> QED
    BY <1>13, <2>2, <2>3 DEF InsertInstance, Typed, TypeOK, TablesTyped
<1>14. CASE BurnLabel(w)
  <2>1. PICK l \in request[w].rest :
          /\ label' = [label EXCEPT ![l] = GoneLabel]
          /\ Continue(w, [request[w] EXCEPT !.rest = @ \ {l}])
    BY <1>14 DEF BurnLabel
  <2> DEFINE r == [request[w] EXCEPT !.rest = @ \ {l}]
  <2>2. r \in Request /\ StageTyped(r)
    BY <1>0 DEF Request, StageTyped
  <2> HIDE DEF r
  <2>3. RequestsTyped'
    BY <2>1, <2>2, ContinueTyped DEF r
  <2> QED
    BY <1>14, <2>1, <2>3, RowsTyped DEF BurnLabel, Typed, TypeOK, TablesTyped
<1>15. CASE DropInstance(w)
  BY <1>0, <1>15, RowsTyped, ContinueTyped DEF DropInstance, Typed, TypeOK, TablesTyped
<1>16. CASE PutLabel(w)
  <2> DEFINE q(v) == request[v].quiet /\ request[v].label # request[w].label
  <2>1. request[w].inst \in Instances /\ request[w].label \in Labels
    BY <1>0, <1>16 DEF PutLabel, At, StageTyped
  <2>2. label' \in [Labels -> Label] /\ late' \subseteq Instances \cup Labels
    BY <1>16, <2>1 DEF PutLabel, Typed, TypeOK, Label
  <2>3. \A v \in Workers : q(v) \in BOOLEAN
    OBVIOUS
  <2>4. request' = [v \in Workers |-> IF v = w THEN Idle ELSE [request[v] EXCEPT !.quiet = q(v)]]
    BY <1>16 DEF PutLabel
  <2> HIDE DEF q
  <2>5. \A v \in Workers : [request[v] EXCEPT !.quiet = q(v)] \in Request
                           /\ StageTyped([request[v] EXCEPT !.quiet = q(v)])
    BY <2>3, QuietTyped DEF Typed, TypeOK
  <2>6. RequestsTyped'
    BY <1>0, <2>4, <2>5 DEF RequestsTyped
  <2> QED
    BY <1>16, <2>2, <2>6 DEF PutLabel, Typed, TypeOK, TablesTyped
<1>17. CASE CutOff(w)
  <2>1. failed' \in 0 .. Failures
    BY <1>17, BoundsAssumption DEF CutOff, Typed, TypeOK
  <2> QED
    BY <1>0, <1>17, <2>1, ContinueTyped DEF CutOff, Typed, TypeOK, TablesTyped
<1> QED
  BY <1>1, <1>2, <1>3, <1>4, <1>5, <1>6, <1>7, <1>8, <1>9, <1>10, <1>11, <1>12, <1>13, <1>14,
     <1>15, <1>16, <1>17 DEF Step

LEMMA InitTyped == Init => Typed
<1> SUFFICES ASSUME Init PROVE Typed
  OBVIOUS
<1>1. type \in [Types -> Type] /\ coll \in [Collections -> Collection]
  BY RowsTyped DEF Init
<1>2. inst \in [Instances -> Instance] /\ label \in [Labels -> Label]
  BY DEF Init, Instance, Label
<1>3. failed \in 0 .. Failures /\ sent \in 0 .. MaxRequests
  BY BoundsAssumption DEF Init
<1>4. request \in [Workers -> Request] /\ \A w \in Workers : StageTyped(request[w])
  BY IdleTyped DEF Init
<1> QED
  BY <1>1, <1>2, <1>3, <1>4 DEF Init, Typed, TypeOK

LEMMA TypedStep == Typed /\ [Next]_vars => Typed'
<1> SUFFICES ASSUME Typed, [Next]_vars PROVE Typed'
  OBVIOUS
<1>1. CASE Next
  <2>1. CASE (Door \/ \E w \in Workers : Start(w)) /\ sent < MaxRequests /\ sent' = sent + 1
    <3>1. TablesTyped' /\ RequestsTyped'
      BY <2>1, DoorTyped, StartTyped
    <3>2. sent' \in 0 .. MaxRequests
      BY <2>1, BoundsAssumption DEF Typed, TypeOK
    <3> QED
      BY <3>1, <3>2 DEF TablesTyped, RequestsTyped, Typed, TypeOK
  <2>2. CASE (\E w \in Workers : Step(w)) /\ UNCHANGED sent
    BY <2>2, StepTyped DEF TablesTyped, RequestsTyped, Typed, TypeOK
  <2>3. CASE Silence
    BY <2>3 DEF Silence, vars, Typed, TypeOK, StageTyped
  <2> QED
    BY <1>1, <2>1, <2>2, <2>3 DEF Next
<1>2. CASE UNCHANGED vars
  BY <1>2 DEF vars, Typed, TypeOK, StageTyped
<1> QED
  BY <1>1, <1>2

\* The rows and what requests hold of them keep their types, for any tables and bodies.
THEOREM TypeCorrect == Spec => []TypeOK
<1>1. Spec => []Typed
  BY InitTyped, TypedStep, PTL DEF Spec
<1>2. Typed => TypeOK
  BY DEF Typed
<1> QED
  BY <1>1, <1>2, PTL

-----------------------------------------------------------------------------
(* Identities: the columns of the index follow the canonical leaves, so what *)
(* the index keeps apart, the leaves keep apart.                             *)

KeysFollow == \A t \in Types : LiveType(t) => type[t].key = KeyOf(type[t].ident)

KeysApart ==
  \A t, u \in Types :
    t # u /\ LiveType(t) /\ LiveType(u) /\ type[t].key # None => type[t].key # type[u].key

\* All that a step can do to catalog records.
Created(t, s, c) ==
  type[t] = UnbornType /\ IndexAllows(t, KeyOf(s)) /\ type' = [type EXCEPT ![t] = NewType(s, c)]
Asserted(t, s) ==
  LiveType(t) /\ IndexAllows(t, KeyOf(s)) /\ type' = [type EXCEPT ![t] = Stamped(@, s)]
Synced(t, c) == LiveType(t) /\ type' = [type EXCEPT ![t].clients = c]
Dropped(t) == type' = [type EXCEPT ![t] = [UnbornType EXCEPT !.state = "gone"]]

RecordsKept ==
  \/ UNCHANGED type
  \/ \E t \in Types, s \in Spellings \cup {None}, c \in Sections : Created(t, s, c)
  \/ \E t \in Types, s \in Spellings \cup {None} : Asserted(t, s)
  \/ \E t \in Types, c \in Sections : Synced(t, c)

RecordsStep == RecordsKept \/ \E t \in Types : Dropped(t)

LEMMA NormIsKey == \A s \in Spellings : s # None /\ KeyOf(s) = Norm[s] /\ Norm[s] \in Keys
BY NoneAssumption, NormAssumption DEF KeyOf

LEMMA RecordsDoor == Typed /\ Door => RecordsKept
<1> SUFFICES ASSUME Typed, Door PROVE RecordsKept
  OBVIOUS
<1>1. CASE CreateCatalogRecord
  <2>1. PICK t \in Types, s \in Spellings, data \in Data \cup {None} :
          /\ type[t] = UnbornType /\ IndexAllows(t, Norm[s])
          /\ type' = [type EXCEPT ![t] = NewType(s, [NoSections EXCEPT !.data = data])]
    BY <1>1 DEF CreateCatalogRecord
  <2>2. [NoSections EXCEPT !.data = data] \in Sections
    BY DEF NoSections, Sections
  <2>3. Created(t, s, [NoSections EXCEPT !.data = data])
    BY <2>1, NormIsKey DEF Created
  <2> QED
    BY <2>2, <2>3 DEF RecordsKept
<1>2. ASSUME NEW t \in Types, NEW s \in Spellings \cup {None}, AssertCanonical(t, s)
      PROVE  RecordsKept
  <2>1. Stamped(type[t], s).key = KeyOf(s)
    BY StampedTyped DEF Typed, TypeOK
  <2> QED
    BY <1>2, <2>1 DEF RecordsKept, AssertCanonical, Asserted
<1>3. ASSUME NEW t \in Types, NEW data \in Data, WriteClientSection(t, data) PROVE RecordsKept
  <2> DEFINE c == [type[t].clients EXCEPT !.data = data]
  <2>1. c \in Sections /\ type' = [type EXCEPT ![t].clients = c]
    BY <1>3 DEF Typed, TypeOK, Type, Sections, WriteClientSection
  <2> QED
    BY <1>3, <2>1 DEF RecordsKept, WriteClientSection, Synced
<1>4. UNCHANGED type => RecordsKept
  BY DEF RecordsKept
<1> QED
  BY <1>1, <1>2, <1>3, <1>4
  DEF Door, MintLabel, CreateCatalog, RenameCatalog, SetMembers, DeleteCatalog, DeleteLabel,
      UnlabelInstance

LEMMA RecordsRequest ==
  ASSUME Typed, NEW w \in Workers, Step(w) \/ Start(w)
  PROVE  RecordsKept \/ (DropCatalogRecord(w) /\ Dropped(request[w].type))
<1>0. request[w] \in Request /\ StageTyped(request[w])
  BY DEF Typed, TypeOK
<1>1. CASE DropCatalogRecord(w)
  <2>1. request[w].type \in Types
    BY <1>0, <1>1 DEF DropCatalogRecord, At, StageTyped
  <2> QED
    BY <1>1, <2>1 DEF DropCatalogRecord, Dropped
<1>2. CASE SyncExisting(w)
  <2> DEFINE t == request[w].known[Norm[Head1(w).ident]]
             loaded == IF request[w].seen = None THEN type[t].clients ELSE request[w].seen[t]
             c == [loaded EXCEPT !.data = Head1(w).data]
  <2>1. Norm[Head1(w).ident] \in Keys /\ Head1(w).data \in Data
    BY <1>2, HeadTyped DEF SyncExisting, At
  <2>2. t \in Types
    BY <1>0, <1>2, <2>1 DEF SyncExisting, Request
  <2>3. loaded \in Sections
    BY <1>0, <2>2 DEF Request, Typed, TypeOK, Type
  <2>4. c \in Sections
    BY <2>1, <2>3 DEF Sections
  <2>5. UNCHANGED type \/ Synced(t, c)
    BY <1>2 DEF SyncExisting, Synced
  <2> QED
    BY <2>2, <2>4, <2>5 DEF RecordsKept
<1>3. CASE CreateFromItem(w)
  <2> DEFINE c == [NoSections EXCEPT !.data = Head1(w).data]
             s == Head1(w).ident
  <2>1. Head1(w).data \in Data /\ s \in Spellings
    BY <1>3, HeadTyped DEF CreateFromItem, At
  <2>2. c \in Sections
    BY <2>1 DEF Sections, NoSections
  <2>3. \E t \in Types : Created(t, s, c)
    BY <1>3, <2>1, NormIsKey DEF CreateFromItem, Created
  <2> QED
    BY <2>1, <2>2, <2>3 DEF RecordsKept
<1>4. CASE ImportDraft(w)
  <2>1. Head1(w) \in Spellings
    BY <1>4, HeadTyped DEF ImportDraft, At
  <2>2. \E t \in Types : Created(t, Head1(w), NoSections)
    BY <1>4, <2>1, NormIsKey DEF ImportDraft, Created
  <2> QED
    BY <2>1, <2>2, RowsTyped DEF RecordsKept
<1>5. CASE PreserveRaw(w)
  <2> DEFINE t == request[w].type
             c == [type[t].clients EXCEPT !.raw = TRUE]
  <2>1. t \in Types
    BY <1>0, <1>5 DEF PreserveRaw, At, StageTyped
  <2>2. c \in Sections
    <3>1. type[t].clients \in Sections
      BY <2>1 DEF Typed, TypeOK, Type
    <3> QED
      BY <3>1 DEF Sections
  <2>3. UNCHANGED type \/ Synced(t, c)
    BY <1>5, <2>1 DEF PreserveRaw, Synced, Typed, TypeOK, Type, Sections
  <2> QED
    BY <2>1, <2>2, <2>3 DEF RecordsKept
<1>6. UNCHANGED type => RecordsKept
  BY DEF RecordsKept
<1>7. CASE Start(w)
  BY <1>6, <1>7
  DEF Start, DeleteCatalogRecord, CreateInstance, StartBatch, StartImport, DeleteInstance,
      LabelInstance, LabelFromScan
<1>8. CASE Step(w)
  BY <1>1, <1>2, <1>3, <1>4, <1>5, <1>6, <1>8
  DEF Step, UnlinkInstance, SkipItem, FinishBatch, SkipDraft, EndDrafts, FindCollection,
      FillCollection, InsertInstance, BurnLabel, DropInstance, PutLabel, CutOff
<1> QED
  BY <1>7, <1>8

LEMMA RecordsNext == Typed /\ [Next]_vars => RecordsStep
<1>1. ASSUME Typed, NEW w \in Workers, DropCatalogRecord(w) PROVE request[w].type \in Types
  BY <1>1 DEF Typed, TypeOK, DropCatalogRecord, At, StageTyped
<1> QED
  BY <1>1, RecordsDoor, RecordsRequest DEF Next, Silence, vars, RecordsStep, RecordsKept

LEMMA KeysStep == Typed /\ KeysFollow /\ KeysApart /\ [Next]_vars => KeysFollow' /\ KeysApart'
<1> SUFFICES ASSUME Typed, KeysFollow, KeysApart, RecordsStep PROVE KeysFollow' /\ KeysApart'
  BY RecordsNext
<1> USE DEF LiveType
<1>0. \A t \in Types : type[t] \in Type
  BY DEF Typed, TypeOK
<1>1. CASE UNCHANGED type
  BY <1>1 DEF KeysFollow, KeysApart
<1>2. ASSUME NEW t \in Types, NEW s \in Spellings \cup {None}, NEW c \in Sections, Created(t, s, c)
      PROVE  KeysFollow' /\ KeysApart'
  <2>1. /\ type'[t].state = "live" /\ type'[t].ident = s /\ type'[t].key = KeyOf(s)
        /\ \A u \in Types \ {t} : type'[u] = type[u]
    BY <1>2, NewTypeTyped DEF Created, Typed, TypeOK
  <2> QED
    BY <1>2, <2>1 DEF Created, KeysFollow, KeysApart, IndexAllows
<1>3. ASSUME NEW t \in Types, NEW s \in Spellings \cup {None}, Asserted(t, s)
      PROVE  KeysFollow' /\ KeysApart'
  <2>1. /\ type'[t].state = type[t].state /\ type'[t].ident = s /\ type'[t].key = KeyOf(s)
        /\ \A u \in Types \ {t} : type'[u] = type[u]
    BY <1>0, <1>3, StampedTyped DEF Asserted, Typed, TypeOK
  <2> QED
    BY <1>3, <2>1 DEF Asserted, KeysFollow, KeysApart, IndexAllows
<1>4. ASSUME NEW t \in Types, NEW c \in Sections, Synced(t, c) PROVE KeysFollow' /\ KeysApart'
  <2>1. \A u \in Types : /\ type'[u].state = type[u].state
                         /\ type'[u].ident = type[u].ident /\ type'[u].key = type[u].key
    BY <1>0, <1>4 DEF Synced, Typed, TypeOK, Type
  <2> QED
    BY <2>1 DEF KeysFollow, KeysApart
<1>5. ASSUME NEW t \in Types, Dropped(t) PROVE KeysFollow' /\ KeysApart'
  <2>1. type'[t].state = "gone" /\ \A u \in Types \ {t} : type'[u] = type[u]
    BY <1>5 DEF Dropped, Typed, TypeOK, UnbornType
  <2> QED
    BY <2>1 DEF KeysFollow, KeysApart
<1> QED
  BY <1>1, <1>2, <1>3, <1>4, <1>5 DEF RecordsStep, RecordsKept

LEMMA KeysInit == Init => KeysFollow /\ KeysApart
BY DEF Init, KeysFollow, KeysApart, LiveType, UnbornType

LEMMA KeysAlways == Spec => [](Typed /\ KeysFollow /\ KeysApart)
BY InitTyped, TypedStep, KeysInit, KeysStep, PTL DEF Spec

\* No two live records have one natural identity, whatever creates, asserts, batches and
\* imports race and whichever of them are cut off.
THEOREM NaturalKeysUnique == Spec => []OneRecordPerKey
<1>1. Typed /\ KeysFollow /\ KeysApart => OneRecordPerKey
  <2> SUFFICES ASSUME KeysFollow, KeysApart, Typed, NEW t \in Types, NEW u \in Types,
                      t # u, LiveType(t), LiveType(u), type[t].ident # None
               PROVE  KeyOf(type[t].ident) # KeyOf(type[u].ident)
    BY DEF OneRecordPerKey
  <2>1. type[t].ident \in Spellings
    BY DEF Typed, TypeOK, Type
  <2>2. type[t].key = KeyOf(type[t].ident) /\ type[t].key # None
    BY <2>1, NormIsKey, NoneAssumption DEF KeysFollow
  <2> QED
    BY <2>2 DEF KeysFollow, KeysApart
<1> QED
  BY <1>1, KeysAlways, PTL

-----------------------------------------------------------------------------
(* Ties: an instance on its record, a label on its instance.  What a deletion  *)
(* has still to do is in the hands of its request.                             *)

\* Everybody else's request is what it was, disturbed or not.
Stands(v) ==
  LET q == request[v]
      r == request'[v] IN
  /\ r.stage = q.stage /\ r.job = q.job /\ r.can = q.can /\ r.todo = q.todo
  /\ r.known = q.known /\ r.seen = q.seen /\ r.members = q.members
  /\ r.type = q.type /\ r.inst = q.inst /\ r.label = q.label /\ r.rest = q.rest
  /\ r.quiet => q.quiet

LEMMA QuietFields ==
  ASSUME NEW r \in Request, NEW q \in BOOLEAN
  PROVE  LET d == [r EXCEPT !.quiet = q] IN
         /\ d.stage = r.stage /\ d.job = r.job /\ d.can = r.can /\ d.todo = r.todo
         /\ d.known = r.known /\ d.seen = r.seen /\ d.members = r.members
         /\ d.type = r.type /\ d.inst = r.inst /\ d.label = r.label /\ d.rest = r.rest
         /\ d.quiet = q
BY DEF Request

LEMMA DisturbedFields ==
  ASSUME NEW r \in Request
  PROVE  LET d == Disturbed(r) IN
         /\ d.stage = r.stage /\ d.job = r.job /\ d.can = r.can /\ d.todo = r.todo
         /\ d.known = r.known /\ d.seen = r.seen /\ d.members = r.members
         /\ d.type = r.type /\ d.inst = r.inst /\ d.label = r.label /\ d.rest = r.rest
         /\ d.quiet => r.quiet /\ r.job = None
BY DEF Disturbed, Request

OneMoves(w) ==
  \A v \in Workers \ {w} : request'[v] = request[v] \/ request'[v] = Disturbed(request[v])

LEMMA OneMovesStands == ASSUME Typed, NEW w, OneMoves(w) PROVE \A v \in Workers \ {w} : Stands(v)
BY DisturbedFields DEF OneMoves, Stands, Typed, TypeOK

LEMMA DoorStands == Typed /\ Door => \A v \in Workers : Stands(v)
<1>1. TouchAll /\ Typed => \A v \in Workers : Stands(v)
  BY DisturbedFields DEF TouchAll, Stands, Typed, TypeOK
<1>2. UNCHANGED request => \A v \in Workers : Stands(v)
  BY DEF Stands
<1> QED
  BY <1>1, <1>2
  DEF Door, CreateCatalogRecord, AssertCanonical, WriteClientSection, CreateCatalog, RenameCatalog,
      SetMembers, DeleteCatalog, MintLabel, DeleteLabel, UnlabelInstance

\* Where a request's step leaves it.
LEMMA RequestStands ==
  ASSUME Typed, NEW w \in Workers, Step(w) \/ Start(w)
  PROVE  /\ \A v \in Workers \ {w} : Stands(v)
         /\ At(w, "unlink")' => UnlinkInstance(w) \/ \E t \in Types : DeleteCatalogRecord(w, t)
         /\ At(w, "burn")' => BurnLabel(w) \/ \E i \in Instances : DeleteInstance(w, i)
         /\ At(w, "put")' \/ At(w, "scanned")' =>
              \/ \E i \in Instances, l \in Labels : LabelInstance(w, i, l)
              \/ \E l \in Labels : LabelFromScan(w, l)
         /\ request'[w].stage \in {"item", "draft", "raw", "collect"} =>
              \/ SkipItem(w) \/ SyncExisting(w) \/ CreateFromItem(w)
              \/ SkipDraft(w) \/ ImportDraft(w) \/ PreserveRaw(w) \/ EndDrafts(w)
              \/ FindCollection(w)
              \/ \E b \in Batches, can \in BOOLEAN : StartBatch(w, b, can)
              \/ \E f \in Files : StartImport(w, f)
<1>0. /\ Idle.stage = "idle" /\ request[w] \in Request /\ request \in [Workers -> Request]
      /\ \A v \in Workers : request[v] \in Request
  BY DEF Idle, Typed, TypeOK
<1> USE DEF At
<1>1. CASE UnlinkInstance(w) \/ \E t \in Types : DeleteCatalogRecord(w, t)
  <2>1. OneMoves(w)
    BY <1>0, <1>1 DEF UnlinkInstance, DeleteCatalogRecord, Continue, OneMoves
  <2>2. request'[w].stage = "unlink"
    <3>1. CASE UnlinkInstance(w)
      BY <1>0, <3>1 DEF UnlinkInstance, Continue, Request
    <3>2. CASE \E t \in Types : DeleteCatalogRecord(w, t)
      BY <1>0, <3>2 DEF DeleteCatalogRecord, Continue, Idle
    <3> QED
      BY <1>1, <3>1, <3>2
  <2> QED
    BY <1>1, <2>1, <2>2, OneMovesStands
<1>2. CASE BurnLabel(w) \/ \E i \in Instances : DeleteInstance(w, i)
  <2>1. OneMoves(w)
    BY <1>0, <1>2 DEF BurnLabel, DeleteInstance, Continue, OneMoves
  <2>2. request'[w].stage \in {"burn", "idle"}
    <3>1. CASE BurnLabel(w)
      BY <1>0, <3>1 DEF BurnLabel, Continue, Request
    <3>2. ASSUME NEW i \in Instances, DeleteInstance(w, i) PROVE request'[w].stage \in {"burn", "idle"}
      <4>1. CASE UNCHANGED request
        BY <1>0, <3>2, <4>1 DEF DeleteInstance
      <4>2. ASSUME NEW l \in LabelsOn(i),
                   Continue(w, [Idle EXCEPT !.stage = "burn", !.inst = i, !.rest = LabelsOn(i) \ {l}])
            PROVE  request'[w].stage \in {"burn", "idle"}
        BY <1>0, <4>2 DEF Continue, Idle
      <4> QED
        BY <3>2, <4>1, <4>2 DEF DeleteInstance
    <3> QED
      BY <1>2, <3>1, <3>2
  <2> QED
    BY <1>2, <2>1, <2>2, OneMovesStands
<1>3. CASE PutLabel(w)
  <2> DEFINE q(v) == request[v].quiet /\ request[v].label # request[w].label
  <2>1. request'[w] = Idle /\ \A v \in Workers \ {w} : request'[v] = [request[v] EXCEPT !.quiet = q(v)]
    BY <1>3 DEF PutLabel
  <2>2. \A v \in Workers : q(v) \in BOOLEAN /\ (q(v) => request[v].quiet)
    OBVIOUS
  <2> HIDE DEF q
  <2>3. ASSUME NEW v \in Workers \ {w} PROVE Stands(v)
    <3>1. request'[v] = [request[v] EXCEPT !.quiet = q(v)]
      BY <2>1
    <3> QED
      BY <1>0, <2>2, <3>1, QuietFields DEF Stands
  <2> QED
    BY <1>0, <2>1, <2>3
<1>4. CASE SkipItem(w) \/ SyncExisting(w) \/ CreateFromItem(w) \/ SkipDraft(w) \/ ImportDraft(w)
  <2>1. Rest(w) \in Request /\ Rest(w).stage \in {"item", "draft"}
    BY <1>4, HeadTyped DEF SkipItem, SyncExisting, CreateFromItem, SkipDraft, ImportDraft
  <2>2. OneMoves(w)
    BY <1>0, <1>4
    DEF SkipItem, SyncExisting, CreateFromItem, SkipDraft, ImportDraft, Touch, Continue, Others,
        OneMoves
  <2>3. request'[w].stage \in {"item", "draft", "raw"}
    <3>1. CASE SkipItem(w) \/ SkipDraft(w)
      BY <1>0, <2>1, <3>1 DEF SkipItem, SkipDraft, Continue
    <3>2. CASE SyncExisting(w)
      <4>1. \/ request'[w] = Rest(w)
            \/ request'[w] = [Rest(w) EXCEPT !.seen = None]
        <5>1. CASE Continue(w, Rest(w))
          BY <1>0, <5>1 DEF Continue
        <5>2. CASE Touch(w, [Rest(w) EXCEPT !.seen = None])
          BY <1>0, <5>2 DEF Touch, Others
        <5> QED
          BY <3>2, <5>1, <5>2 DEF SyncExisting
      <4> QED
        BY <2>1, <4>1 DEF Request
    <3>3. CASE CreateFromItem(w)
      <4>1. PICK t \in Types :
              Touch(w, [Rest(w) EXCEPT !.known[Norm[Head1(w).ident]] = t, !.seen = None])
        BY <3>3 DEF CreateFromItem
      <4>2. request'[w] = [Rest(w) EXCEPT !.known[Norm[Head1(w).ident]] = t, !.seen = None]
        BY <1>0, <4>1 DEF Touch, Others
      <4> QED
        BY <2>1, <4>2 DEF Request
    <3>4. CASE ImportDraft(w)
      <4>1. PICK t \in Types :
              Touch(w, [Rest(w) EXCEPT !.stage = "raw", !.type = t, !.members = @ \cup {t}])
        BY <3>4 DEF ImportDraft
      <4>2. request'[w] = [Rest(w) EXCEPT !.stage = "raw", !.type = t,
                                          !.members = @ \cup {t}]
        BY <1>0, <4>1 DEF Touch, Others
      <4> QED
        BY <2>1, <4>2 DEF Request
    <3> QED
      BY <1>4, <3>1, <3>2, <3>3, <3>4
  <2> QED
    BY <1>4, <2>2, <2>3, OneMovesStands
<1>5. CASE \/ DropCatalogRecord(w) \/ FinishBatch(w) \/ FillCollection(w) \/ InsertInstance(w)
           \/ DropInstance(w) \/ CutOff(w)
  <2>1. OneMoves(w) /\ request'[w] = Idle
    BY <1>0, <1>5
    DEF DropCatalogRecord, FinishBatch, FillCollection, InsertInstance, DropInstance, CutOff,
        Touch, Continue, Others, OneMoves
  <2> QED
    BY <1>0, <2>1, OneMovesStands
<1>6. CASE PreserveRaw(w) \/ EndDrafts(w) \/ FindCollection(w)
  <2>1. OneMoves(w)
    BY <1>0, <1>6
    DEF PreserveRaw, EndDrafts, FindCollection, Touch, Continue, Others, OneMoves
  <2>2. request'[w].stage \in {"draft", "collect", "idle"}
    <3>1. CASE PreserveRaw(w)
      BY <1>0, <3>1 DEF PreserveRaw, Touch, Others, Request
    <3>2. CASE EndDrafts(w)
      BY <1>0, <3>2 DEF EndDrafts, Continue, Request
    <3>3. CASE FindCollection(w)
      BY <1>0, <3>3 DEF FindCollection, Touch, Others, Request
    <3> QED
      BY <1>6, <3>1, <3>2, <3>3
  <2> QED
    BY <1>6, <2>1, <2>2, OneMovesStands
<1>7. CASE \/ \E b \in Batches, can \in BOOLEAN : StartBatch(w, b, can)
           \/ \E f \in Files : StartImport(w, f)
  <2>1. OneMoves(w)
    BY <1>0, <1>7 DEF StartBatch, StartImport, Continue, OneMoves
  <2>2. request'[w].stage \in {"item", "draft"}
    <3>1. CASE \E b \in Batches, can \in BOOLEAN : StartBatch(w, b, can)
      BY <1>0, <3>1 DEF StartBatch, Continue, Idle
    <3>2. CASE \E f \in Files : StartImport(w, f)
      BY <1>0, <3>2 DEF StartImport, Continue, Idle
    <3> QED
      BY <1>7, <3>1, <3>2
  <2> QED
    BY <1>7, <2>1, <2>2, OneMovesStands
<1>8. CASE \E t \in Types : CreateInstance(w, t)
  <2>1. OneMoves(w) /\ request'[w].stage = "instantiate"
    BY <1>0, <1>8 DEF CreateInstance, Continue, OneMoves, Idle
  <2> QED
    BY <2>1, OneMovesStands
<1>9. CASE \/ \E i \in Instances, l \in Labels : LabelInstance(w, i, l)
           \/ \E l \in Labels : LabelFromScan(w, l)
  <2>1. OneMoves(w)
    BY <1>0, <1>9 DEF LabelInstance, LabelFromScan, Continue, OneMoves
  <2>2. request'[w].stage \in {"put", "scanned"}
    BY <1>0, <1>9 DEF LabelInstance, LabelFromScan, Continue, Idle
  <2> QED
    BY <1>9, <2>1, <2>2, OneMovesStands
<1> QED
  BY <1>1, <1>2, <1>3, <1>4, <1>5, <1>6, <1>7, <1>8, <1>9 DEF Step, Start

-----------------------------------------------------------------------------
(* Instances and their records. *)

Links ==
  /\ \A i \in Instances : ~LiveInst(i) => inst[i].link = None
  /\ \A i \in Instances : LiveInst(i) /\ inst[i].link # None /\ ~LiveType(inst[i].link) => i \in late
  /\ \A w \in Workers, i \in Instances :
       At(w, "unlink") /\ LiveInst(i) /\ inst[i].link = request[w].type
         => i \in request[w].rest \cup late

LEMMA LiveKept == Typed /\ RecordsKept => \A t \in Types : LiveType(t) => LiveType(t)'
<1> SUFFICES ASSUME Typed, RecordsKept, NEW t \in Types, type[t].state = "live"
             PROVE  type'[t].state = "live"
  BY DEF LiveType
<1>0. type \in [Types -> Type] /\ UnbornType.state = "unborn"
  BY DEF Typed, TypeOK, UnbornType
<1>1. CASE UNCHANGED type
  BY <1>1
<1>2. ASSUME NEW u \in Types, NEW s \in Spellings \cup {None}, NEW c \in Sections, Created(u, s, c)
      PROVE  type'[t].state = "live"
  BY <1>0, <1>2 DEF Created
<1>3. ASSUME NEW u \in Types, NEW s \in Spellings \cup {None}, Asserted(u, s)
      PROVE  type'[t].state = "live"
  BY <1>0, <1>3, StampedTyped DEF Asserted
<1>4. ASSUME NEW u \in Types, NEW c \in Sections, Synced(u, c) PROVE type'[t].state = "live"
  BY <1>0, <1>4 DEF Synced, Type
<1> QED
  BY <1>1, <1>2, <1>3, <1>4 DEF RecordsKept

\* A step that ties nothing, and drops no record, leaves the links in order.
LEMMA LinksFrame ==
  ASSUME Typed, Links, \A t \in Types : LiveType(t) => LiveType(t)',
         \A i \in Instances : inst'[i] = inst[i] \/ inst'[i].link = None,
         \A i \in Instances : i \in late => i \in late',
         \A v \in Workers : At(v, "unlink")' =>
           /\ At(v, "unlink") /\ request'[v].type = request[v].type
           /\ \A i \in request[v].rest : i \in request'[v].rest \/ inst'[i].link = None
  PROVE  Links'
<1>1. \A i \in Instances : ~LiveInst(i)' => inst'[i].link = None
  BY DEF Links, LiveInst
<1>2. ASSUME NEW i \in Instances, LiveInst(i)', inst'[i].link # None, ~LiveType(inst[i].link)'
      PROVE  i \in late'
  BY <1>2 DEF Links, LiveInst, Typed, TypeOK, Instance
<1>3. ASSUME NEW w \in Workers, At(w, "unlink")', NEW i \in Instances, LiveInst(i)', inst'[i].link = request'[w].type
      PROVE  i \in request'[w].rest \cup late'
  <2>1. request'[w].type = request[w].type /\ request[w].type \in Types /\ At(w, "unlink")
    BY <1>3 DEF At, Typed, TypeOK, StageTyped
  <2>2. i \in Instances /\ inst'[i] = inst[i] /\ LiveInst(i) /\ inst[i].link = request[w].type
        /\ inst'[i].link # None
    BY <1>3, <2>1, NoneAssumption DEF LiveInst
  <2> QED
    BY <2>1, <2>2, <1>3 DEF Links
<1> QED
  BY <1>1, <1>2, <1>3 DEF Links

LEMMA LinksDoor == Typed /\ Links /\ Door => Links'
<1> SUFFICES ASSUME Typed, Links, Door PROVE Links'
  OBVIOUS
<1>1. \A t \in Types : LiveType(t) => LiveType(t)'
  BY RecordsDoor, LiveKept
<1>2. \A v \in Workers : Stands(v)
  BY DoorStands
<1>3. UNCHANGED inst /\ \A i \in Instances : i \in late => i \in late'
  BY NoneAssumption
  DEF Door, CreateCatalogRecord, AssertCanonical, WriteClientSection, CreateCatalog, RenameCatalog,
      SetMembers, DeleteCatalog, MintLabel, DeleteLabel, UnlabelInstance
<1> QED
  BY <1>1, <1>2, <1>3, LinksFrame DEF Stands, At

LEMMA LinksRequest == ASSUME Typed, Links, NEW w \in Workers, Step(w) \/ Start(w) PROVE Links'
<1>0. /\ request[w] \in Request /\ StageTyped(request[w]) /\ request \in [Workers -> Request]
      /\ inst \in [Instances -> Instance]
  BY DEF Typed, TypeOK
<1>1. \A v \in Workers \ {w} : Stands(v)
  BY RequestStands
<1>2. CASE DropCatalogRecord(w)
  <2> DEFINE t == request[w].type
  <2>1. /\ t \in Types /\ UNCHANGED <<inst, late>> /\ \A u \in Types \ {t} : type'[u] = type[u]
        /\ request[w].rest = {} /\ At(w, "unlink")
    BY <1>0, <1>2 DEF DropCatalogRecord, At, StageTyped
  <2>2. ~At(w, "unlink")'
    BY <1>0, <1>2 DEF DropCatalogRecord, Touch, Others, At, Idle
  <2>3. ASSUME NEW i \in Instances, LiveInst(i)', inst'[i].link # None, ~LiveType(inst[i].link)'
        PROVE  i \in late'
    <3>1. CASE inst[i].link = t
      BY <2>1, <2>3, <3>1 DEF Links, LiveInst
    <3>2. CASE inst[i].link # t
      BY <1>0, <2>1, <2>3, <3>2 DEF Links, LiveInst, LiveType, Instance
    <3> QED
      BY <3>1, <3>2
  <2>4. ASSUME NEW v \in Workers, At(v, "unlink")', NEW i \in Instances, LiveInst(i)', inst'[i].link = request'[v].type
        PROVE  i \in request'[v].rest \cup late'
    BY <1>1, <2>1, <2>2, <2>4 DEF Links, LiveInst, Stands, At
  <2>5. \A i \in Instances : ~LiveInst(i)' => inst'[i].link = None
    BY <2>1 DEF Links, LiveInst
  <2> QED
    BY <2>3, <2>4, <2>5 DEF Links
<1>3. ASSUME NEW t \in Types, DeleteCatalogRecord(w, t) PROVE Links'
  <2>1. UNCHANGED <<type, inst, late>>
    BY <1>3 DEF DeleteCatalogRecord
  <2>2. request'[w].type = t /\ request'[w].rest = Linked(t)
    BY <1>0, <1>3 DEF DeleteCatalogRecord, Continue, Idle
  <2>3. ASSUME NEW v \in Workers, At(v, "unlink")', NEW i \in Instances, LiveInst(i)', inst'[i].link = request'[v].type
        PROVE  i \in request'[v].rest \cup late'
    BY <1>1, <2>1, <2>2, <2>3 DEF Links, Linked, LiveInst, Stands, At
  <2> QED
    BY <2>1, <2>3 DEF Links, LiveInst, LiveType
<1>4. CASE InsertInstance(w)
  <2> DEFINE t == request[w].type
  <2>1. PICK i \in Instances :
          /\ inst[i].state = "unborn"
          /\ inst' = [inst EXCEPT ![i] = [state |-> "live", link |-> t]]
          /\ late' = IF Doomed(t) THEN late \cup {i} ELSE late
    BY <1>4 DEF InsertInstance
  <2>2. UNCHANGED type /\ request'[w].stage = "idle" /\ t \in Types /\ late \subseteq late'
    BY <1>0, <1>4, <2>1 DEF InsertInstance, Continue, Idle, At, StageTyped
  <2>3. /\ \A j \in Instances \ {i} : inst'[j] = inst[j]
        /\ inst'[i].state = "live" /\ inst'[i].link = t
    BY <1>0, <2>1
  <2>4. \A j \in Instances : ~LiveInst(j)' => inst'[j].link = None
    BY <2>3 DEF Links, LiveInst
  <2>5. ASSUME NEW j \in Instances, LiveInst(j)', inst'[j].link # None, ~LiveType(inst[j].link)'
        PROVE  j \in late'
    BY <2>1, <2>2, <2>3, <2>5 DEF Links, LiveInst, LiveType, Doomed
  <2>6. ASSUME NEW v \in Workers, At(v, "unlink")', NEW j \in Instances, LiveInst(j)', inst'[j].link = request'[v].type
        PROVE  j \in request'[v].rest \cup late'
    <3>1. v # w /\ At(v, "unlink") /\ request'[v].type = request[v].type
          /\ request'[v].rest = request[v].rest /\ j \in Instances
      BY <1>1, <2>2, <2>6 DEF Stands, At
    <3>2. CASE j = i
      BY <2>1, <2>3, <2>6, <3>1, <3>2 DEF LiveInst, Doomed
    <3>3. CASE j # i
      BY <2>2, <2>3, <2>6, <3>1, <3>3 DEF Links, LiveInst
    <3> QED
      BY <3>2, <3>3
  <2> QED
    BY <2>4, <2>5, <2>6 DEF Links
<1>5. CASE ~DropCatalogRecord(w) /\ ~InsertInstance(w) /\ ~(\E t \in Types : DeleteCatalogRecord(w, t))
  <2>1. \A t \in Types : LiveType(t) => LiveType(t)'
    BY <1>5, RecordsRequest, LiveKept
  <2>2. \A i \in Instances : i \in late => i \in late'
    <3>1. CASE PutLabel(w)
      BY <1>0, <3>1, NoneAssumption DEF PutLabel, StageTyped, At
    <3>2. CASE ~PutLabel(w)
      <4>1. UNCHANGED late
        BY <1>5, <3>2
        DEF Step, Start, UnlinkInstance, SkipItem, SyncExisting, CreateFromItem, FinishBatch,
            SkipDraft, ImportDraft, PreserveRaw, EndDrafts, FindCollection, FillCollection, BurnLabel,
            DropInstance, CutOff, CreateInstance, StartBatch, StartImport, DeleteInstance,
            LabelInstance, LabelFromScan
      <4> QED
        BY <4>1
    <3> QED
      BY <3>1, <3>2
  <2>3. \A i \in Instances : inst'[i] = inst[i] \/ inst'[i].link = None
    <3>1. CASE UnlinkInstance(w) \/ DropInstance(w) \/ \E i \in Instances : DeleteInstance(w, i)
      <4>1. CASE UnlinkInstance(w)
        BY <1>0, <4>1 DEF UnlinkInstance, Instance
      <4>2. CASE inst' = inst \/ \E i \in Instances : inst' = [inst EXCEPT ![i] = GoneInst]
        BY <1>0, <4>2 DEF GoneInst
      <4>3. DropInstance(w) => inst' = [inst EXCEPT ![request[w].inst] = GoneInst]
        BY DEF DropInstance
      <4>4. DropInstance(w) => request[w].inst \in Instances
        BY <1>0 DEF DropInstance, At, StageTyped
      <4>5. (\E i \in Instances : DeleteInstance(w, i)) =>
              inst' = inst \/ \E i \in Instances : inst' = [inst EXCEPT ![i] = GoneInst]
        BY DEF DeleteInstance
      <4> QED
        BY <3>1, <4>1, <4>2, <4>3, <4>4, <4>5
    <3>2. CASE \E l \in Labels : LabelFromScan(w, l)
      BY <1>0, <3>2 DEF LabelFromScan, Links, LiveInst, Instance
    <3>3. CASE ~UnlinkInstance(w) /\ ~DropInstance(w) /\ ~(\E i \in Instances : DeleteInstance(w, i))
               /\ ~(\E l \in Labels : LabelFromScan(w, l))
      <4>1. UNCHANGED inst
        BY <1>5, <3>3
        DEF Step, Start, SkipItem, SyncExisting, CreateFromItem, FinishBatch,
            SkipDraft, ImportDraft, PreserveRaw, EndDrafts, FindCollection, FillCollection, BurnLabel,
            PutLabel, CutOff, CreateInstance, StartBatch, StartImport, LabelInstance
      <4> QED
        BY <4>1
    <3> QED
      BY <3>1, <3>2, <3>3
  <2>4. At(w, "unlink")' =>
           /\ At(w, "unlink") /\ request'[w].type = request[w].type
           /\ \A i \in request[w].rest : i \in request'[w].rest \/ inst'[i].link = None
    <3> SUFFICES ASSUME At(w, "unlink")'
                 PROVE  /\ At(w, "unlink") /\ request'[w].type = request[w].type
                        /\ \A i \in request[w].rest : i \in request'[w].rest \/ inst'[i].link = None
      OBVIOUS
    <3>1. UnlinkInstance(w)
      BY <1>5, RequestStands
    <3>2. PICK i \in request[w].rest :
            /\ inst' = [inst EXCEPT ![i].link = None]
            /\ request' = [request EXCEPT ![w] = [request[w] EXCEPT !.rest = @ \ {i}]]
      BY <3>1 DEF UnlinkInstance, Continue
    <3>3. request'[w].type = request[w].type /\ request'[w].rest = request[w].rest \ {i}
      BY <1>0, <3>2 DEF Request
    <3>4. i \in Instances /\ At(w, "unlink")
      BY <1>0, <3>1 DEF UnlinkInstance, At, StageTyped
    <3>5. inst'[i].link = None
      BY <1>0, <3>2, <3>4 DEF Instance
    <3> QED
      BY <3>3, <3>4, <3>5
  <2> QED
    BY <1>1, <2>1, <2>2, <2>3, <2>4, LinksFrame DEF Stands, At
<1> QED
  BY <1>2, <1>3, <1>4, <1>5

LEMMA LinksStep == Typed /\ Links /\ [Next]_vars => Links'
<1>1. ASSUME Typed, Links, UNCHANGED vars PROVE Links'
  BY <1>1 DEF vars, Links, LiveInst, LiveType, At
<1> QED
  BY <1>1, LinksDoor, LinksRequest DEF Next, Silence

-----------------------------------------------------------------------------
(* Labels and the instances they are on. *)

Stickers ==
  /\ \A l \in Labels : ~LiveLabel(l) => label[l].on = None
  /\ \A l \in Labels : LiveLabel(l) /\ label[l].on # None /\ ~LiveInst(label[l].on) => l \in late
  /\ \A w \in Workers, l \in Labels :
       At(w, "burn") /\ LiveLabel(l) /\ label[l].on = request[w].inst
         => l \in request[w].rest \cup late

\* A step that puts no label on anything, and drops no instance, leaves the labels in order.
LEMMA StickersFrame ==
  ASSUME Typed, Stickers, \A i \in Instances : LiveInst(i) => LiveInst(i)',
         \A l \in Labels : label'[l] = label[l] \/ label'[l].on = None,
         \A l \in Labels : l \in late => l \in late' \/ label'[l].on = None,
         \A v \in Workers : At(v, "burn")' =>
           /\ At(v, "burn") /\ request'[v].inst = request[v].inst
           /\ \A l \in request[v].rest : l \in request'[v].rest \/ label'[l].on = None
  PROVE  Stickers'
<1>1. \A l \in Labels : ~LiveLabel(l)' => label'[l].on = None
  BY DEF Stickers, LiveLabel
<1>2. ASSUME NEW l \in Labels, LiveLabel(l)', label'[l].on # None, ~LiveInst(label[l].on)'
      PROVE  l \in late'
  BY <1>2 DEF Stickers, LiveLabel, LiveInst, Typed, TypeOK, Label
<1>3. ASSUME NEW w \in Workers, At(w, "burn")',
             NEW l \in Labels, LiveLabel(l)', label'[l].on = request'[w].inst
      PROVE  l \in request'[w].rest \cup late'
  <2>1. request'[w].inst = request[w].inst /\ request[w].inst \in Instances /\ At(w, "burn")
    BY <1>3 DEF At, Typed, TypeOK, StageTyped
  <2>2. label'[l] = label[l] /\ LiveLabel(l) /\ label'[l].on # None
    BY <1>3, <2>1, NoneAssumption DEF LiveLabel
  <2> QED
    BY <2>1, <2>2, <1>3 DEF Stickers
<1> QED
  BY <1>1, <1>2, <1>3 DEF Stickers

LEMMA StickersDoor == Typed /\ Stickers /\ Door => Stickers'
<1> SUFFICES ASSUME Typed, Stickers, Door PROVE Stickers'
  OBVIOUS
<1>0. label \in [Labels -> Label]
  BY DEF Typed, TypeOK
<1>1. \A v \in Workers : Stands(v)
  BY DoorStands
<1>2. UNCHANGED inst
  BY DEF Door, CreateCatalogRecord, AssertCanonical, WriteClientSection, CreateCatalog, RenameCatalog,
      SetMembers, DeleteCatalog, MintLabel, DeleteLabel, UnlabelInstance
<1>3. CASE MintLabel
  BY <1>0, <1>1, <1>2, <1>3, StickersFrame DEF MintLabel, Stickers, LiveLabel, LiveInst, Stands, At, Label
<1>4. CASE \E l \in Labels : DeleteLabel(l) \/ \E i \in Instances : UnlabelInstance(i, l)
  <2>1. PICK l \in Labels : /\ label'[l].on = None
                            /\ \A k \in Labels \ {l} : label'[k] = label[k]
                            /\ \A k \in Labels \ {l} : k \in late => k \in late'
    BY <1>0, <1>4 DEF DeleteLabel, UnlabelInstance, GoneLabel, Label
  <2> QED
    BY <1>1, <1>2, <2>1, StickersFrame DEF LiveInst, Stands, At
<1>5. CASE UNCHANGED <<label, late>>
  BY <1>1, <1>2, <1>5, StickersFrame DEF LiveInst, Stands, At
<1> QED
  BY <1>3, <1>4, <1>5
  DEF Door, CreateCatalogRecord, AssertCanonical, WriteClientSection, CreateCatalog, RenameCatalog,
      SetMembers, DeleteCatalog

LEMMA StickersRequest == ASSUME Typed, Stickers, NEW w \in Workers, Step(w) \/ Start(w) PROVE Stickers'
<1>0. /\ request[w] \in Request /\ StageTyped(request[w]) /\ request \in [Workers -> Request]
      /\ inst \in [Instances -> Instance] /\ label \in [Labels -> Label]
  BY DEF Typed, TypeOK
<1>1. \A v \in Workers \ {w} : Stands(v)
  BY RequestStands
<1>2. ASSUME NEW i \in Instances, UNCHANGED <<label, late>>, ~At(w, "burn")',
             inst' = [inst EXCEPT ![i] = GoneInst],
             \A l \in Labels : LiveLabel(l) /\ label[l].on = i => l \in late
      PROVE  Stickers'
  <2>1. \A j \in Instances \ {i} : inst'[j] = inst[j]
    BY <1>0, <1>2
  <2>2. ASSUME NEW l \in Labels, LiveLabel(l)', label'[l].on # None, ~LiveInst(label[l].on)'
        PROVE  l \in late'
    BY <1>0, <1>2, <2>1, <2>2 DEF Stickers, LiveLabel, LiveInst, Label
  <2>3. ASSUME NEW v \in Workers, At(v, "burn")',
               NEW l \in Labels, LiveLabel(l)', label'[l].on = request'[v].inst
        PROVE  l \in request'[v].rest \cup late'
    BY <1>1, <1>2, <2>3 DEF Stickers, LiveLabel, Stands, At
  <2>4. \A l \in Labels : ~LiveLabel(l)' => label'[l].on = None
    BY <1>2 DEF Stickers, LiveLabel
  <2> QED
    BY <2>2, <2>3, <2>4 DEF Stickers
<1>3. CASE DropInstance(w)
  <2>1. request[w].inst \in Instances /\ At(w, "burn") /\ request[w].rest = {}
    BY <1>0, <1>3 DEF DropInstance, At, StageTyped
  <2>2. \A l \in Labels : LiveLabel(l) /\ label[l].on = request[w].inst => l \in late
    BY <2>1 DEF Stickers
  <2>3. ~At(w, "burn")'
    BY <1>0, <1>3 DEF DropInstance, Continue, Idle, At
  <2>4. UNCHANGED <<label, late>> /\ inst' = [inst EXCEPT ![request[w].inst] = GoneInst]
    BY <1>3 DEF DropInstance
  <2> QED
    BY <1>2, <2>1, <2>2, <2>3, <2>4
<1>4. ASSUME NEW i \in Instances, DeleteInstance(w, i) PROVE Stickers'
  <2>1. CASE LabelsOn(i) = {} /\ inst' = [inst EXCEPT ![i] = GoneInst] /\ UNCHANGED <<label, request>>
    <3>1. \A l \in Labels : LiveLabel(l) /\ label[l].on = i => l \in late
      BY <2>1 DEF LabelsOn
    <3>2. ~At(w, "burn")' /\ UNCHANGED late
      BY <1>4, <2>1 DEF DeleteInstance, At
    <3> QED
      BY <1>2, <2>1, <3>1, <3>2
  <2>2. ASSUME NEW l \in LabelsOn(i), label' = [label EXCEPT ![l] = GoneLabel], UNCHANGED inst,
               Continue(w, [Idle EXCEPT !.stage = "burn", !.inst = i, !.rest = LabelsOn(i) \ {l}])
        PROVE  Stickers'
    <3>1. request'[w].inst = i /\ request'[w].rest = LabelsOn(i) \ {l} /\ UNCHANGED late
      BY <1>0, <1>4, <2>2 DEF Continue, Idle, DeleteInstance
    <3>2. label'[l].on = None /\ \A k \in Labels \ {l} : label'[k] = label[k]
      BY <1>0, <2>2 DEF GoneLabel, LabelsOn
    <3>3. \A k \in Labels : ~LiveLabel(k)' => label'[k].on = None
      BY <3>2 DEF Stickers, LiveLabel
    <3>4. ASSUME NEW k \in Labels, LiveLabel(k)', label'[k].on # None, ~LiveInst(label[k].on)'
          PROVE  k \in late'
      BY <2>2, <3>1, <3>2, <3>4 DEF Stickers, LiveLabel, LiveInst
    <3>5. ASSUME NEW v \in Workers, At(v, "burn")',
                 NEW k \in Labels, LiveLabel(k)', label'[k].on = request'[v].inst
          PROVE  k \in request'[v].rest \cup late'
      <4>1. request'[v].inst \in Instances
        BY <1>1, <3>1, <3>5 DEF Stands, At, Typed, TypeOK, StageTyped
      <4>2. k # l
        BY <3>2, <3>5, <4>1, NoneAssumption
      <4> QED
        BY <1>1, <3>1, <3>2, <3>5, <4>2 DEF Stickers, LiveLabel, LabelsOn, Stands, At
    <3> QED
      BY <3>3, <3>4, <3>5 DEF Stickers
  <2> QED
    BY <1>4, <2>1, <2>2 DEF DeleteInstance
<1>5. CASE PutLabel(w)
  <2> DEFINE i == request[w].inst
             l == request[w].label
  <2>1. i \in Instances /\ l \in Labels
    BY <1>0, <1>5 DEF PutLabel, At, StageTyped
  <2>2. /\ UNCHANGED inst /\ request'[w].stage = "idle"
        /\ label'[l].state = "live" /\ label'[l].on = i
        /\ \A k \in Labels \ {l} : label'[k] = label[k]
        /\ late' = IF DoomedInst(i) THEN late \cup {l} ELSE late \ {l}
    BY <1>0, <1>5, <2>1 DEF PutLabel, Idle
  <2> HIDE DEF i, l
  <2>3. \A k \in Labels : ~LiveLabel(k)' => label'[k].on = None
    BY <2>2 DEF Stickers, LiveLabel
  <2>4. ASSUME NEW k \in Labels, LiveLabel(k)', label'[k].on # None, ~LiveInst(label[k].on)'
        PROVE  k \in late'
    BY <2>2, <2>4 DEF Stickers, LiveLabel, LiveInst, DoomedInst
  <2>5. ASSUME NEW v \in Workers, At(v, "burn")',
               NEW k \in Labels, LiveLabel(k)', label'[k].on = request'[v].inst
        PROVE  k \in request'[v].rest \cup late'
    <3>1. v # w /\ At(v, "burn") /\ request'[v].inst = request[v].inst
          /\ request'[v].rest = request[v].rest
      BY <1>1, <2>2, <2>5 DEF Stands, At
    <3>2. CASE k = l
      BY <2>2, <2>5, <3>1, <3>2 DEF DoomedInst
    <3>3. CASE k # l
      BY <2>2, <2>5, <3>1, <3>3 DEF Stickers, LiveLabel
    <3> QED
      BY <3>2, <3>3
  <2> QED
    BY <2>3, <2>4, <2>5 DEF Stickers
<1>6. CASE ~DropInstance(w) /\ ~PutLabel(w) /\ ~(\E i \in Instances : DeleteInstance(w, i))
  <2>1. \A l \in Labels : l \in late => l \in late'
    <3>1. CASE InsertInstance(w)
      BY <3>1 DEF InsertInstance
    <3>2. CASE ~InsertInstance(w)
      <4>1. UNCHANGED late
        BY <1>6, <3>2
        DEF Step, Start, UnlinkInstance, SkipItem, SyncExisting, CreateFromItem, FinishBatch,
            DropCatalogRecord, DeleteCatalogRecord,
            SkipDraft, ImportDraft, PreserveRaw, EndDrafts, FindCollection, FillCollection, BurnLabel,
            CutOff, CreateInstance, StartBatch, StartImport, LabelInstance, LabelFromScan
      <4> QED
        BY <4>1
    <3> QED
      BY <3>1, <3>2
  <2>2. \A i \in Instances : LiveInst(i) => LiveInst(i)'
    <3>1. CASE UnlinkInstance(w)
      BY <1>0, <3>1 DEF UnlinkInstance, LiveInst, Instance
    <3>2. CASE InsertInstance(w)
      BY <1>0, <3>2 DEF InsertInstance, LiveInst
    <3>3. CASE \E l \in Labels : LabelFromScan(w, l)
      BY <1>0, <3>3 DEF LabelFromScan, LiveInst, Instance
    <3>4. CASE ~UnlinkInstance(w) /\ ~InsertInstance(w) /\ ~(\E l \in Labels : LabelFromScan(w, l))
      <4>1. UNCHANGED inst
        BY <1>6, <3>4
        DEF Step, Start, SkipItem, SyncExisting, CreateFromItem, FinishBatch, DropCatalogRecord,
            SkipDraft, ImportDraft, PreserveRaw, EndDrafts, FindCollection, FillCollection, BurnLabel,
            CutOff, DeleteCatalogRecord, CreateInstance, StartBatch, StartImport, LabelInstance
      <4> QED
        BY <4>1 DEF LiveInst
    <3> QED
      BY <3>1, <3>2, <3>3, <3>4
  <2>3. CASE BurnLabel(w)
    <3>1. PICK l \in request[w].rest :
            /\ label' = [label EXCEPT ![l] = GoneLabel]
            /\ request' = [request EXCEPT ![w] = [request[w] EXCEPT !.rest = @ \ {l}]]
      BY <2>3 DEF BurnLabel, Continue
    <3>2. request'[w].inst = request[w].inst /\ request'[w].rest = request[w].rest \ {l}
      BY <1>0, <3>1 DEF Request
    <3>3. l \in Labels /\ At(w, "burn")
      BY <1>0, <2>3 DEF BurnLabel, At, StageTyped
    <3>4. label'[l].on = None /\ \A k \in Labels : label'[k] = label[k] \/ label'[k].on = None
      BY <1>0, <3>1, <3>3 DEF GoneLabel
    <3> QED
      BY <1>1, <2>1, <2>2, <3>2, <3>3, <3>4, StickersFrame DEF Stands, At
  <2>4. CASE ~BurnLabel(w)
    <3>1. UNCHANGED label
      BY <1>6, <2>4
      DEF Step, Start, UnlinkInstance, SkipItem, SyncExisting, CreateFromItem, FinishBatch,
          DropCatalogRecord, DeleteCatalogRecord, InsertInstance,
          SkipDraft, ImportDraft, PreserveRaw, EndDrafts, FindCollection, FillCollection,
          CutOff, CreateInstance, StartBatch, StartImport, LabelInstance, LabelFromScan
    <3>2. ~At(w, "burn")'
      BY <1>6, <2>4, RequestStands
    <3> QED
      BY <1>1, <2>1, <2>2, <3>1, <3>2, StickersFrame DEF Stands, At
  <2> QED
    BY <2>3, <2>4
<1> QED
  BY <1>3, <1>4, <1>5, <1>6

LEMMA StickersStep == Typed /\ Stickers /\ [Next]_vars => Stickers'
<1>1. ASSUME Typed, Stickers, UNCHANGED vars PROVE Stickers'
  BY <1>1 DEF vars, Stickers, LiveInst, LiveLabel, At
<1> QED
  BY <1>1, StickersDoor, StickersRequest DEF Next, Silence

\* The tie of a live instance to a record, and of a live label to an instance, outlives what
\* it is tied to only if it was made after the deletion had begun.
THEOREM DeletionsDissolve == Spec => []OnlyLateTiesDangle
<1>1. Init => Links /\ Stickers
  <2>1. Init => \A w \in Workers : request[w].stage = "idle"
    BY DEF Init, Idle
  <2> QED
    BY <2>1 DEF Init, Links, Stickers, LiveInst, LiveLabel, At
<1>2. Links /\ Stickers => OnlyLateTiesDangle
  BY DEF Links, Stickers, OnlyLateTiesDangle
<1> QED
  BY <1>1, <1>2, InitTyped, TypedStep, LinksStep, StickersStep, PTL DEF Spec

-----------------------------------------------------------------------------
(* What a step may never do. *)

\* No step of an import takes a record out of any catalog, whoever else edits catalogs.
THEOREM ImportsAdd == Spec => ImportsOnlyAdd
<1>1. ASSUME Typed, [Next]_vars, NEW w \in Workers, Importing(w), Step(w), NEW c \in Collections
      PROVE  coll[c].members \subseteq coll'[c].members
  <2>0. coll \in [Collections -> Collection]
    BY <1>1 DEF Typed, TypeOK
  <2>1. CASE FindCollection(w)
    BY <2>0, <2>1 DEF FindCollection, Collection
  <2>2. CASE FillCollection(w)
    BY <2>0, <2>2 DEF FillCollection, NamedSo, Merged, Collection
  <2>3. CASE UNCHANGED coll
    BY <2>3
  <2> QED
    BY <1>1, <2>1, <2>2, <2>3
    DEF Step, UnlinkInstance, DropCatalogRecord, SkipItem, SyncExisting, CreateFromItem, FinishBatch,
        SkipDraft, ImportDraft, PreserveRaw, EndDrafts, InsertInstance, BurnLabel, DropInstance,
        PutLabel, CutOff
<1>2. Typed /\ [Next]_vars =>
        [\A w \in Workers : Importing(w) /\ Step(w)
           => \A c \in Collections : coll[c].members \subseteq coll'[c].members]_vars
  BY <1>1
<1> QED
  BY <1>2, InitTyped, TypedStep, PTL DEF Spec, ImportsOnlyAdd

\* A put that nobody overtook still finds the label blank.
StillBlank ==
  \A w \in Workers :
    request[w].stage \in {"put", "scanned"} /\ request[w].quiet => label[request[w].label].on = None

\* A label gets onto a record by a put alone.
LEMMA OnlyPuts ==
  ASSUME Typed, Stickers, [Next]_vars
  PROVE  \/ \A l \in Labels : label'[l].on \in {label[l].on, None}
         \/ \E w \in Workers : PutLabel(w)
<1>0. label \in [Labels -> Label]
  BY DEF Typed, TypeOK
<1>1. UNCHANGED label => \A l \in Labels : label'[l].on \in {label[l].on, None}
  OBVIOUS
<1>2. MintLabel => \A l \in Labels : label'[l].on \in {label[l].on, None}
  BY <1>0 DEF MintLabel, Label
<1>3. (\E l \in Labels : DeleteLabel(l) \/ \E i \in Instances : UnlabelInstance(i, l))
        => \A l \in Labels : label'[l].on \in {label[l].on, None}
  BY <1>0 DEF DeleteLabel, UnlabelInstance, GoneLabel, Label
<1>4. Door => \A l \in Labels : label'[l].on \in {label[l].on, None}
  BY <1>1, <1>2, <1>3
  DEF Door, CreateCatalogRecord, AssertCanonical, WriteClientSection, CreateCatalog, RenameCatalog,
      SetMembers, DeleteCatalog
<1>5. ASSUME NEW w \in Workers, BurnLabel(w) \/ \E i \in Instances : DeleteInstance(w, i)
      PROVE  \A l \in Labels : label'[l].on \in {label[l].on, None}
  <2>1. label' = label \/ \E l \in Labels : label' = [label EXCEPT ![l] = GoneLabel]
    BY <1>5 DEF BurnLabel, DeleteInstance, LabelsOn, At, StageTyped, Typed
  <2> QED
    BY <1>0, <2>1 DEF GoneLabel
<1>6. ASSUME NEW w \in Workers, Step(w) \/ Start(w), ~PutLabel(w)
      PROVE  \A l \in Labels : label'[l].on \in {label[l].on, None}
  BY <1>1, <1>5, <1>6
  DEF Step, Start, UnlinkInstance, SkipItem, SyncExisting, CreateFromItem, FinishBatch,
      DropCatalogRecord, DeleteCatalogRecord, InsertInstance, SkipDraft, ImportDraft, PreserveRaw,
      EndDrafts, FindCollection, FillCollection, CutOff, CreateInstance, StartBatch, StartImport,
      LabelInstance, LabelFromScan, DropInstance
<1> QED
  BY <1>1, <1>4, <1>6 DEF Next, Silence, vars

LEMMA BlankStep == Typed /\ Stickers /\ StillBlank /\ [Next]_vars => StillBlank'
<1> SUFFICES ASSUME Typed, Stickers, StillBlank, [Next]_vars,
                    NEW v \in Workers, request'[v].stage \in {"put", "scanned"}, request'[v].quiet
             PROVE  label'[request'[v].label].on = None
  BY DEF StillBlank
<1>0. /\ \A w \in Workers : request[w] \in Request /\ StageTyped(request[w])
      /\ request \in [Workers -> Request]
  BY DEF Typed, TypeOK
<1>1. CASE Stands(v)
  <2>1. /\ request[v].stage \in {"put", "scanned"} /\ request[v].quiet
        /\ request'[v].label = request[v].label /\ request[v].label \in Labels
    BY <1>0, <1>1 DEF Stands, StageTyped
  <2>2. label[request[v].label].on = None
    BY <2>1 DEF StillBlank
  <2>3. CASE \A l \in Labels : label'[l].on \in {label[l].on, None}
    BY <2>1, <2>2, <2>3
  <2>4. ASSUME NEW w \in Workers, PutLabel(w) PROVE label'[request'[v].label].on = None
    <3>1. v # w
      BY <2>4 DEF PutLabel, Idle
    <3>2. request'[v] = [request[v] EXCEPT !.quiet = @ /\ request[v].label # request[w].label]
      BY <2>4, <3>1 DEF PutLabel
    <3>3. request[v].label # request[w].label
      BY <1>0, <3>2 DEF Request
    <3>4. label'[request[v].label] = label[request[v].label]
      BY <2>1, <2>4, <3>3 DEF PutLabel, Typed, TypeOK
    <3> QED
      BY <2>1, <2>2, <3>4
  <2> QED
    BY <2>3, <2>4, OnlyPuts
<1>2. CASE ~Stands(v)
  <2>1. Step(v) \/ Start(v)
    BY <1>2, DoorStands, RequestStands DEF Next, Silence, vars, Stands
  <2>2. \/ \E i \in Instances, l \in Labels : LabelInstance(v, i, l)
        \/ \E l \in Labels : LabelFromScan(v, l)
    BY <2>1, RequestStands DEF At
  <2> QED
    <3>1. CASE \E i \in Instances, l \in Labels : LabelInstance(v, i, l)
      BY <1>0, <3>1 DEF LabelInstance, Continue, Idle, MayPut
    <3>2. CASE \E l \in Labels : LabelFromScan(v, l)
      BY <1>0, <3>2 DEF LabelFromScan, Continue, Idle, MayPut
    <3> QED
      BY <2>2, <3>1, <3>2
<1> QED
  BY <1>1, <1>2

\* A code that shows one record never shows another before it has shown none, unless by a
\* put that found the label blank and was overtaken by another.
THEOREM StickersMove == Spec => StickersAreMovedOnPurpose
<1>1. Init => StillBlank /\ Stickers
  BY DEF Init, Idle, StillBlank, Stickers, LiveLabel, At
<1>2. ASSUME Typed, Stickers, StillBlank, [Next]_vars, NEW l \in Labels,
             Resolves(l) # None, Resolves(l)' \notin {None, Resolves(l)}
      PROVE  \E w \in Workers : request[w].label = l /\ ~request[w].quiet /\ At(w, "idle")'
  <2>1. label[l].on # None /\ label'[l].on \notin {None, label[l].on}
    BY <1>2 DEF Resolves
  <2>2. PICK w \in Workers : PutLabel(w)
    BY <1>2, <2>1, OnlyPuts
  <2>3. request[w].label = l /\ request[w].stage \in {"put", "scanned"}
    BY <2>1, <2>2 DEF PutLabel, At, Typed, TypeOK
  <2>4. ~request[w].quiet
    BY <1>2, <2>1, <2>3 DEF StillBlank
  <2>5. At(w, "idle")'
    BY <2>2 DEF PutLabel, At, Idle
  <2> QED
    BY <2>3, <2>4, <2>5
<1>3. Typed /\ Stickers /\ StillBlank /\ [Next]_vars =>
        [\A l \in Labels : Resolves(l) # None /\ Resolves(l)' \notin {None, Resolves(l)}
           => \E w \in Workers : request[w].label = l /\ ~request[w].quiet /\ At(w, "idle")']_vars
  BY <1>2
<1> QED
  BY <1>1, <1>3, InitTyped, TypedStep, StickersStep, BlankStep, PTL
  DEF Spec, StickersAreMovedOnPurpose

-----------------------------------------------------------------------------
(* Imports and batches that nobody disturbs.                                 *)

\* What is left to do is the end of what was asked for.
Aligned(all, todo) ==
  /\ Len(todo) <= Len(all)
  /\ \A n \in 1 .. Len(todo) : todo[n] = all[Len(all) - Len(todo) + n]

LEMMA WholeAligned == ASSUME NEW S, NEW all \in Seq(S) PROVE Aligned(all, all)
BY LenProperties DEF Aligned

LEMMA TailAligned ==
  ASSUME NEW S, NEW all \in Seq(S), NEW todo \in Seq(S), Aligned(all, todo), todo # <<>>
  PROVE  /\ Aligned(all, Tail(todo)) /\ Tail(todo) \in Seq(S)
         /\ Len(all) - Len(Tail(todo)) = Len(all) - Len(todo) + 1
         /\ Len(all) - Len(todo) + 1 \in 1 .. Len(all)
         /\ Head(todo) = all[Len(all) - Len(todo) + 1]
<1>1. /\ Tail(todo) \in Seq(S) /\ Len(Tail(todo)) = Len(todo) - 1
      /\ \A i \in 1 .. Len(Tail(todo)) : Tail(todo)[i] = todo[i + 1]
  BY HeadTailProperties
<1>2. Len(all) \in Nat /\ Len(todo) \in Nat /\ Len(todo) >= 1 /\ Head(todo) = todo[1]
  BY EmptySeq, LenProperties
<1> QED
  BY <1>1, <1>2 DEF Aligned

LEMMA DoneAligned ==
  ASSUME NEW S, NEW all \in Seq(S), Aligned(all, <<>>)
  PROVE  Len(all) - Len(<<>>) = Len(all)
BY LenProperties

\* Record t stands for the spelling s.
Holds(t, s) == LiveType(t) /\ type[t].key = Norm[s]
StillHolds(t, s) == type'[t].state = "live" /\ type'[t].key = Norm[s]

\* The first n drafts have their record; the first n items their record and its data,
\* unless a later one of them says otherwise.
Present(drafts, n) == \A m \in 1 .. n : drafts[m] # None => \E t \in Types : Holds(t, drafts[m])

Served(items, n) ==
  \A m \in 1 .. n :
    /\ items[m].ident # None
    /\ \A o \in m + 1 .. n : KeyOf(items[o].ident) # KeyOf(items[m].ident)
    => \E t \in Types : Holds(t, items[m].ident) /\ type[t].clients.data = items[m].data

\* by_natural is what the table says, and so are the sections as they were loaded.
KnowsKeys(known) ==
  \A k \in Keys :
    /\ known[k] = None => \A t \in Types : LiveType(t) => type[t].key # k
    /\ known[k] # None => LiveType(known[k]) /\ type[known[k]].key = k

KnowsSections(seen) == seen # None => \A t \in Types : seen[t] = type[t].clients

BatchInOrder(r) ==
  /\ Aligned(r.job.items, r.todo) /\ KnowsKeys(r.known) /\ KnowsSections(r.seen)
  /\ Served(r.job.items, Len(r.job.items) - Len(r.todo))

ImportInOrder(r) ==
  Aligned(r.job.drafts, r.todo) /\ Present(r.job.drafts, Len(r.job.drafts) - Len(r.todo))

Collects(r) ==
  \A n \in 1 .. Len(r.job.drafts) :
    r.job.drafts[n] # None => \E t \in r.members : t \in Types /\ Holds(t, r.job.drafts[n])

InOrder(r) ==
  r.quiet => /\ r.stage = "item" /\ r.can => BatchInOrder(r)
             /\ r.stage \in {"draft", "raw"} => ImportInOrder(r)
             /\ r.stage = "collect" => Collects(r)

JobsInOrder == \A w \in Workers : InOrder(request[w])

\* Whoever else writes a record disturbs the job.
LEMMA WritesDisturb ==
  ASSUME Typed, NEW w \in Workers, Step(w) \/ Start(w), NEW v \in Workers \ {w}, request[v].job # None
  PROVE  UNCHANGED type \/ ~request'[v].quiet
<1>1. request[v] \in Request
  BY DEF Typed, TypeOK
<1>2. ASSUME NEW r, Touch(w, r) PROVE ~request'[v].quiet
  BY <1>1, <1>2, DisturbedFields DEF Touch, Others
<1>3. DropCatalogRecord(w) \/ ImportDraft(w) \/ PreserveRaw(w) \/ CreateFromItem(w) =>
        \E r : Touch(w, r)
  BY DEF DropCatalogRecord, ImportDraft, PreserveRaw, CreateFromItem
<1>4. SyncExisting(w) => UNCHANGED type \/ \E r : Touch(w, r)
  BY DEF SyncExisting
<1> QED
  BY <1>2, <1>3, <1>4
  DEF Step, Start, UnlinkInstance, SkipItem, FinishBatch, SkipDraft, EndDrafts, FindCollection,
      FillCollection, InsertInstance, BurnLabel, DropInstance, PutLabel, CutOff, DeleteCatalogRecord,
      CreateInstance, StartBatch, StartImport, DeleteInstance, LabelInstance, LabelFromScan

LEMMA DoorDisturbs ==
  ASSUME Typed, Door, NEW v \in Workers, request[v].job # None
  PROVE  UNCHANGED type \/ ~request'[v].quiet
<1>1. request[v] \in Request
  BY DEF Typed, TypeOK
<1>2. TouchAll => ~request'[v].quiet
  BY <1>1, DisturbedFields DEF TouchAll
<1> QED
  BY <1>2
  DEF Door, CreateCatalogRecord, AssertCanonical, WriteClientSection, CreateCatalog, RenameCatalog,
      SetMembers, DeleteCatalog, MintLabel, DeleteLabel, UnlabelInstance

\* A request that stands while no record changes is as much in order as it was.
LEMMA StandsInOrder ==
  ASSUME Typed, NEW v \in Workers, Stands(v), InOrder(request[v]), UNCHANGED type \/ ~request'[v].quiet
  PROVE  InOrder(request[v])'
<1>1. CASE ~request'[v].quiet
  BY <1>1 DEF InOrder
<1>2. CASE UNCHANGED type
  BY <1>2 DEF Stands, InOrder, BatchInOrder, ImportInOrder, Collects, KnowsKeys, KnowsSections,
              Served, Present, Holds, LiveType
<1> QED
  BY <1>1, <1>2

LEMMA StartsInOrder ==
  ASSUME Typed, NEW w \in Workers,
         \/ \E b \in Batches, can \in BOOLEAN : StartBatch(w, b, can)
         \/ \E f \in Files : StartImport(w, f)
  PROVE  InOrder(request[w])'
<1>0. request \in [Workers -> Request] /\ type \in [Types -> Type]
  BY DEF Typed, TypeOK
<1>1. ASSUME NEW b \in Batches, NEW can \in BOOLEAN, StartBatch(w, b, can)
      PROVE  InOrder(request[w])'
  <2>1. /\ request'[w].stage = "item" /\ request'[w].job = b /\ request'[w].todo = b.items
        /\ request'[w].known = ByNatural /\ request'[w].seen = [t \in Types |-> type[t].clients]
        /\ UNCHANGED type
    BY <1>0, <1>1 DEF StartBatch, Continue, Idle
  <2>2. b.items \in Seq(Item)
    BY BatchesAssumption DEF Batch
  <2>3. Aligned(b.items, b.items) /\ Len(b.items) - Len(b.items) = 0
    BY <2>2, WholeAligned, LenProperties
  <2>4. KnowsKeys(ByNatural)
    <3> SUFFICES ASSUME NEW k \in Keys
                 PROVE  /\ ByNatural[k] = None => \A t \in Types : LiveType(t) => type[t].key # k
                        /\ ByNatural[k] # None => LiveType(ByNatural[k]) /\ type[ByNatural[k]].key = k
      BY DEF KnowsKeys
    <3> DEFINE with == {t \in Types : LiveType(t) /\ type[t].key = k}
    <3>1. ByNatural[k] = IF with = {} THEN None ELSE CHOOSE t \in with : TRUE
      BY DEF ByNatural
    <3>2. CASE with = {}
      BY <3>1, <3>2
    <3>3. CASE with # {}
      <4>1. ByNatural[k] \in with
        BY <3>1, <3>3
      <4> QED
        BY <4>1, NoneAssumption
    <3> QED
      BY <3>2, <3>3
  <2>5. KnowsSections([t \in Types |-> type[t].clients])
    BY DEF KnowsSections
  <2>6. Served(b.items, 0)
    BY DEF Served
  <2> QED
    BY <2>1, <2>3, <2>4, <2>5, <2>6
    DEF InOrder, BatchInOrder, KnowsKeys, KnowsSections, Served, Holds, LiveType
<1>2. ASSUME NEW f \in Files, StartImport(w, f) PROVE InOrder(request[w])'
  <2>1. request'[w].stage = "draft" /\ request'[w].job = f /\ request'[w].todo = f.drafts
    BY <1>0, <1>2 DEF StartImport, Continue, Idle
  <2>2. f.drafts \in Seq(Spellings \cup {None})
    BY FilesAssumption DEF File
  <2>3. Aligned(f.drafts, f.drafts) /\ Len(f.drafts) - Len(f.drafts) = 0
    BY <2>2, WholeAligned, LenProperties
  <2>4. \A n \in 1 .. 0 : FALSE
    OBVIOUS
  <2> QED
    BY <2>1, <2>3, <2>4 DEF InOrder, ImportInOrder, Present
<1> QED
  BY <1>1, <1>2

\* A new record takes nothing from the others.
LEMMA CreatedKeeps ==
  ASSUME Typed, NEW u \in Types, NEW s \in Spellings, NEW c \in Sections, Created(u, s, c)
  PROVE  /\ type'[u].clients = c /\ LiveType(u)' /\ type'[u].key = Norm[s]
         /\ \A t \in Types : LiveType(t) => t # u /\ type'[t] = type[t]
         /\ \A t \in Types : LiveType(t)' => t = u \/ (LiveType(t) /\ type'[t] = type[t])
         /\ \A t \in Types : \A x : Holds(t, x) => StillHolds(t, x) /\ t # u /\ type'[t] = type[t]
<1>1. type'[u] = NewType(s, c) /\ \A t \in Types \ {u} : type'[t] = type[t]
  BY DEF Created, Typed, TypeOK
<1>2. type[u].state = "unborn"
  BY DEF Created, UnbornType
<1>3. s \in Spellings \cup {None}
  OBVIOUS
<1> QED
  BY <1>1, <1>2, <1>3, NewTypeTyped, NormIsKey DEF Holds, StillHolds, LiveType

LEMMA ImportInOrderStep ==
  ASSUME Typed, NEW w \in Workers, InOrder(request[w]),
         SkipDraft(w) \/ ImportDraft(w) \/ PreserveRaw(w) \/ EndDrafts(w) \/ FindCollection(w)
  PROVE  InOrder(request[w])'
<1> DEFINE r == request[w]
           drafts == r.job.drafts
           done == Len(drafts) - Len(r.todo)
<1>0. /\ request \in [Workers -> Request] /\ type \in [Types -> Type]
      /\ r \in Request /\ StageTyped(r)
  BY DEF Typed, TypeOK
<1>a. r.stage \in {"draft", "raw", "collect"}
  BY DEF SkipDraft, ImportDraft, PreserveRaw, EndDrafts, FindCollection, At
<1>b. drafts \in Seq(Spellings \cup {None}) /\ r.todo \in Seq(Spellings \cup {None})
  BY <1>0, <1>a, FilesAssumption DEF StageTyped, File
<1>1. CASE SkipDraft(w) \/ ImportDraft(w)
  <2>1. /\ More(w) /\ At(w, "draft")
    BY <1>1 DEF SkipDraft, ImportDraft
  <2>2. /\ Rest(w).stage = "draft" /\ Rest(w).todo = Tail(r.todo) /\ Rest(w).job = r.job
        /\ Rest(w).quiet = r.quiet /\ Rest(w) \in Request /\ Head1(w) \in Spellings \cup {None}
    BY <2>1, HeadTyped DEF At
  <2>3. /\ request'[w].stage \in {"draft", "raw"} /\ request'[w].todo = Tail(r.todo)
        /\ request'[w].job = r.job /\ request'[w].quiet = r.quiet
    <3>1. CASE SkipDraft(w)
      BY <1>0, <2>2, <3>1 DEF SkipDraft, Continue
    <3>2. CASE ImportDraft(w)
      <4>1. PICK t \in Types :
              Touch(w, [Rest(w) EXCEPT !.stage = "raw", !.type = t, !.members = @ \cup {t}])
        BY <3>2 DEF ImportDraft
      <4>2. request'[w] = [Rest(w) EXCEPT !.stage = "raw", !.type = t, !.members = @ \cup {t}]
        BY <1>0, <4>1 DEF Touch, Others
      <4> QED
        BY <2>2, <4>2 DEF Request
    <3> QED
      BY <1>1, <3>1, <3>2
  <2> SUFFICES ASSUME r.quiet PROVE ImportInOrder(request[w])'
    BY <2>3 DEF InOrder
  <2>4. Aligned(drafts, r.todo) /\ Present(drafts, done)
    BY <2>1 DEF InOrder, ImportInOrder, At
  <2>5. /\ Aligned(drafts, Tail(r.todo)) /\ Len(drafts) - Len(Tail(r.todo)) = done + 1
        /\ done + 1 \in 1 .. Len(drafts) /\ Head1(w) = drafts[done + 1]
    BY <1>b, <2>1, <2>4, TailAligned DEF More, Head1
  <2>6. done \in Nat /\ \A m \in 1 .. done + 1 : m \in 1 .. done \/ m = done + 1
    <3>1. Len(drafts) \in Nat /\ Len(r.todo) \in Nat
      BY <1>b, LenProperties
    <3>2. Len(r.todo) <= Len(drafts)
      BY <2>4 DEF Aligned
    <3> QED
      BY <3>1, <3>2
  <2> HIDE DEF done, drafts, r
  <2>7. /\ Head1(w) # None => \E t \in Types : StillHolds(t, Head1(w))
        /\ \A t \in Types : \A x : Holds(t, x) => StillHolds(t, x)
    <3>1. CASE SkipDraft(w)
      BY <3>1 DEF SkipDraft, Holds, StillHolds, LiveType
    <3>2. CASE ImportDraft(w)
      <4>1. Head1(w) \in Spellings
        BY <2>2, <3>2 DEF ImportDraft
      <4>2. PICK t \in Types : Created(t, Head1(w), NoSections)
        BY <3>2, <4>1, NormIsKey DEF ImportDraft, Created
      <4> QED
        BY <4>1, <4>2, CreatedKeeps, RowsTyped DEF StillHolds, LiveType
    <3> QED
      BY <1>1, <3>1, <3>2
  <2>8. \A m \in 1 .. done + 1 : drafts[m] # None => \E t \in Types : StillHolds(t, drafts[m])
    BY <2>4, <2>5, <2>6, <2>7 DEF Present
  <2>9. /\ request'[w].job.drafts = drafts
        /\ Len(request'[w].job.drafts) - Len(request'[w].todo) = done + 1
    BY <2>3, <2>5 DEF drafts, r
  <2> QED
    BY <2>3, <2>5, <2>8, <2>9 DEF ImportInOrder, Present, Holds, StillHolds, LiveType, drafts, r
<1>2. CASE PreserveRaw(w)
  <2>1. /\ request'[w].stage = "draft" /\ request'[w].todo = r.todo
        /\ request'[w].job = r.job /\ request'[w].quiet = r.quiet
    BY <1>0, <1>2 DEF PreserveRaw, Touch, Others, Request
  <2>2. \A t \in Types : \A x : Holds(t, x) => StillHolds(t, x)
    BY <1>0, <1>2 DEF PreserveRaw, Holds, StillHolds, LiveType, Type
  <2>3. r.stage = "raw"
    BY <1>2 DEF PreserveRaw, At
  <2> SUFFICES ASSUME r.quiet PROVE ImportInOrder(request[w])'
    BY <2>1 DEF InOrder
  <2>4. Aligned(drafts, r.todo) /\ Present(drafts, done)
    BY <2>3 DEF InOrder, ImportInOrder
  <2>5. \A m \in 1 .. done : drafts[m] # None => \E t \in Types : StillHolds(t, drafts[m])
    BY <2>2, <2>4 DEF Present
  <2> QED
    BY <2>1, <2>4, <2>5 DEF ImportInOrder, Present, Holds, StillHolds, LiveType
<1>3. CASE EndDrafts(w)
  <2> DEFINE members == r.members \cup Existing(r.job)
  <2>1. r.stage = "draft" /\ r.todo = <<>> /\ UNCHANGED type
    BY <1>3 DEF EndDrafts, At, More
  <2>2. CASE Continue(w, [r EXCEPT !.stage = "collect", !.members = members])
    <3>1. /\ request'[w].stage = "collect" /\ request'[w].members = members
          /\ request'[w].job = r.job /\ request'[w].quiet = r.quiet
      BY <1>0, <2>2 DEF Continue, Request
    <3> SUFFICES ASSUME r.quiet, NEW n \in 1 .. Len(drafts), drafts[n] # None
                 PROVE  \E t \in members : t \in Types /\ StillHolds(t, drafts[n])
      BY <3>1 DEF InOrder, Collects, Holds, StillHolds, LiveType
    <3>2. Present(drafts, Len(drafts)) /\ Len(drafts) \in Nat
      BY <1>b, <2>1, DoneAligned, LenProperties DEF InOrder, ImportInOrder
    <3>3. PICK t \in Types : Holds(t, drafts[n])
      BY <3>2 DEF Present
    <3>4. drafts[n] \in Range(drafts)
      BY <1>b, LenProperties DEF Range
    <3>5. t \in members
      BY <3>3, <3>4 DEF Existing, Holds
    <3> QED
      BY <2>1, <3>3, <3>5 DEF Holds, StillHolds, LiveType
  <2>3. CASE Continue(w, Idle)
    BY <1>0, <2>3 DEF Continue, Idle, InOrder
  <2> QED
    BY <1>3, <2>2, <2>3 DEF EndDrafts
<1>4. CASE FindCollection(w)
  <2>1. request'[w] = r /\ UNCHANGED type /\ r.stage = "collect"
    BY <1>0, <1>4 DEF FindCollection, Touch, Others, At
  <2> QED
    BY <2>1 DEF InOrder, Collects, Holds, LiveType
<1> QED
  BY <1>1, <1>2, <1>3, <1>4

LEMMA ItemHandled ==
  ASSUME NEW items \in Seq(Item), NEW n \in Nat, n + 1 \in 1 .. Len(items), Served(items, n),
         items[n + 1].ident # None =>
           /\ items[n + 1].ident \in Spellings
           /\ \E t \in Types : /\ StillHolds(t, items[n + 1].ident)
                               /\ type'[t].clients.data = items[n + 1].data,
         \A t \in Types, x \in Spellings :
           Holds(t, x) /\ Norm[x] # KeyOf(items[n + 1].ident)
             => StillHolds(t, x) /\ type'[t].clients.data = type[t].clients.data
  PROVE  \A m \in 1 .. n + 1 :
           /\ items[m].ident # None
           /\ \A o \in m + 1 .. n + 1 : KeyOf(items[o].ident) # KeyOf(items[m].ident)
           => \E t \in Types : /\ StillHolds(t, items[m].ident)
                               /\ type'[t].clients.data = items[m].data
<1> SUFFICES ASSUME NEW m \in 1 .. n + 1, items[m].ident # None,
                    \A o \in m + 1 .. n + 1 : KeyOf(items[o].ident) # KeyOf(items[m].ident)
             PROVE  \E t \in Types : /\ StillHolds(t, items[m].ident)
                                     /\ type'[t].clients.data = items[m].data
  OBVIOUS
<1>1. CASE m = n + 1
  BY <1>1
<1>2. CASE m # n + 1
  <2>1. m \in 1 .. n /\ n + 1 \in m + 1 .. n + 1 /\ m \in 1 .. Len(items)
        /\ \A o \in m + 1 .. n : o \in m + 1 .. n + 1
    BY <1>2, LenProperties
  <2>2. items[m] \in Item
    BY <2>1, LenProperties
  <2>3. items[m].ident \in Spellings
    BY <2>2 DEF Item
  <2>4. PICK t \in Types : Holds(t, items[m].ident) /\ type[t].clients.data = items[m].data
    BY <2>1 DEF Served
  <2>5. Norm[items[m].ident] # KeyOf(items[n + 1].ident)
    BY <2>1, <2>3, NormIsKey
  <2> QED
    BY <2>3, <2>4, <2>5
<1> QED
  BY <1>1, <1>2

LEMMA BatchInOrderStep ==
  ASSUME Typed, NEW w \in Workers, InOrder(request[w]),
         SkipItem(w) \/ SyncExisting(w) \/ CreateFromItem(w)
  PROVE  InOrder(request[w])'
<1> DEFINE r == request[w]
           items == r.job.items
           done == Len(items) - Len(r.todo)
           s == Head1(w).ident
           data == Head1(w).data
<1>0. /\ request \in [Workers -> Request] /\ type \in [Types -> Type]
      /\ r \in Request /\ StageTyped(r)
  BY DEF Typed, TypeOK
<1>1. At(w, "item") /\ More(w) /\ r.stage = "item"
  BY DEF SkipItem, SyncExisting, CreateFromItem, At
<1>2. items \in Seq(Item) /\ r.todo \in Seq(Item)
  BY <1>0, <1>1, BatchesAssumption DEF StageTyped, Batch
<1>3. /\ Rest(w).stage = "item" /\ Rest(w).todo = Tail(r.todo) /\ Rest(w).job = r.job
      /\ Rest(w).quiet = r.quiet /\ Rest(w) \in Request
      /\ s \in Spellings \cup {None} /\ data \in Data /\ (s # None => Norm[s] \in Keys)
  BY <1>1, HeadTyped DEF At
<1>4. Rest(w).can = r.can /\ Rest(w).known = r.known /\ Rest(w).seen = r.seen
  BY <1>0 DEF Rest, Request
<1>5. /\ request'[w].stage = "item" /\ request'[w].todo = Tail(r.todo) /\ request'[w].job = r.job
      /\ request'[w].quiet = r.quiet /\ request'[w].can = r.can
  <2>1. CASE Continue(w, Rest(w))
    BY <1>0, <1>3, <1>4, <2>1 DEF Continue
  <2>2. CASE Touch(w, [Rest(w) EXCEPT !.seen = None])
    <3>1. request'[w] = [Rest(w) EXCEPT !.seen = None]
      BY <1>0, <2>2 DEF Touch, Others
    <3> QED
      BY <1>3, <1>4, <3>1 DEF Request
  <2>3. ASSUME NEW t \in Types, Touch(w, [Rest(w) EXCEPT !.known[Norm[s]] = t, !.seen = None])
        PROVE  /\ request'[w].stage = "item" /\ request'[w].todo = Tail(r.todo)
               /\ request'[w].job = r.job
               /\ request'[w].quiet = r.quiet /\ request'[w].can = r.can
    <3>1. request'[w] = [Rest(w) EXCEPT !.known[Norm[s]] = t, !.seen = None]
      BY <1>0, <2>3 DEF Touch, Others
    <3> QED
      BY <1>3, <1>4, <3>1 DEF Request
  <2>4. SkipItem(w) => Continue(w, Rest(w))
    BY DEF SkipItem
  <2>5. SyncExisting(w) => Continue(w, Rest(w)) \/ Touch(w, [Rest(w) EXCEPT !.seen = None])
    BY DEF SyncExisting
  <2>6. CreateFromItem(w) =>
          \E t \in Types : Touch(w, [Rest(w) EXCEPT !.known[Norm[s]] = t, !.seen = None])
    BY DEF CreateFromItem
  <2> QED
    BY <2>1, <2>2, <2>3, <2>4, <2>5, <2>6
<1> SUFFICES ASSUME r.quiet, r.can PROVE BatchInOrder(request[w])'
  BY <1>5 DEF InOrder
<1>6. /\ Aligned(items, r.todo) /\ Served(items, done)
      /\ KnowsKeys(r.known) /\ KnowsSections(r.seen)
  BY <1>1 DEF InOrder, BatchInOrder
<1>7. /\ Aligned(items, Tail(r.todo)) /\ Len(items) - Len(Tail(r.todo)) = done + 1
      /\ done + 1 \in 1 .. Len(items) /\ Head1(w) = items[done + 1]
  <2>1. r.todo # <<>> /\ Head1(w) = Head(r.todo)
    BY <1>1 DEF More, Head1
  <2> HIDE DEF items, r
  <2> QED
    BY <1>2, <1>6, <2>1, TailAligned
<1>8. done \in Nat
  <2>1. Len(items) \in Nat /\ Len(r.todo) \in Nat
    BY <1>2, LenProperties
  <2> QED
    BY <2>1, <1>6 DEF Aligned
<1> HIDE DEF done, items, r, s, data
\* What the item asked for is there, and nothing but its own record has changed.
<1>9. ASSUME s # None => \E t \in Types : StillHolds(t, s) /\ type'[t].clients.data = data,
             \A t \in Types, x \in Spellings : Holds(t, x) /\ Norm[x] # KeyOf(s)
               => StillHolds(t, x) /\ type'[t].clients.data = type[t].clients.data,
             KnowsKeys(request[w].known)', KnowsSections(request[w].seen)'
      PROVE  BatchInOrder(request[w])'
  <2>1. s = items[done + 1].ident /\ data = items[done + 1].data
    BY <1>7 DEF s, data
  <2>2. \A m \in 1 .. done + 1 :
           /\ items[m].ident # None
           /\ \A o \in m + 1 .. done + 1 : KeyOf(items[o].ident) # KeyOf(items[m].ident)
           => \E t \in Types : /\ StillHolds(t, items[m].ident)
                               /\ type'[t].clients.data = items[m].data
    BY <1>2, <1>3, <1>6, <1>7, <1>8, <1>9, <2>1, ItemHandled
  <2>3. request'[w].job.items = items /\ request'[w].todo = Tail(r.todo)
        /\ Len(request'[w].job.items) - Len(request'[w].todo) = done + 1
    BY <1>5, <1>7 DEF items, r
  <2>4. Aligned(request[w].job.items, request[w].todo)'
    BY <1>7, <2>3 DEF Aligned
  <2>5. Served(request[w].job.items, Len(request[w].job.items) - Len(request[w].todo))'
    BY <2>2, <2>3 DEF Served, Holds, StillHolds, LiveType
  <2> QED
    BY <1>9, <2>4, <2>5 DEF BatchInOrder
<1>10. CASE SkipItem(w)
  <2>1. UNCHANGED type /\ request'[w] = Rest(w)
    BY <1>0, <1>10 DEF SkipItem, Continue
  <2>2. s = None \/ (r.known[Norm[s]] = None /\ ~r.can)
    BY <1>0, <1>10 DEF SkipItem, s, r
  <2>3. s = None
    BY <2>2
  <2>4. KnowsKeys(request[w].known)' /\ KnowsSections(request[w].seen)'
    BY <1>4, <1>6, <2>1 DEF KnowsKeys, KnowsSections, LiveType, r
  <2>5. \A t \in Types, x \in Spellings : Holds(t, x) =>
          StillHolds(t, x) /\ type'[t].clients.data = type[t].clients.data
    BY <2>1 DEF Holds, StillHolds, LiveType
  <2> QED
    BY <1>9, <2>3, <2>4, <2>5
<1>11. CASE SyncExisting(w)
  <2> DEFINE t == r.known[Norm[s]]
             loaded == IF r.seen = None THEN type[t].clients ELSE r.seen[t]
             c == [loaded EXCEPT !.data = data]
  <2>1. s # None /\ s \in Spellings /\ Norm[s] \in Keys /\ t # None
    BY <1>3, <1>11 DEF SyncExisting, s, r
  <2>2. t \in Types /\ LiveType(t) /\ type[t].key = Norm[s]
    BY <1>0, <1>6, <2>1 DEF KnowsKeys, Request, r
  <2>3. loaded = type[t].clients /\ loaded \in Sections
    BY <1>0, <1>6, <2>2 DEF KnowsSections, Type
  <2>4. c.data = data
    BY <2>3 DEF Sections
  <2>5. CASE loaded.data = data /\ UNCHANGED type /\ request' = [request EXCEPT ![w] = Rest(w)]
    <3>1. request'[w] = Rest(w)
      BY <1>0, <2>5
    <3>2. KnowsKeys(request[w].known)' /\ KnowsSections(request[w].seen)'
      BY <1>4, <1>6, <2>5, <3>1 DEF KnowsKeys, KnowsSections, LiveType, r
    <3>3. StillHolds(t, s) /\ type'[t].clients.data = data
      BY <2>2, <2>3, <2>5 DEF StillHolds, LiveType
    <3>4. \A u \in Types, x \in Spellings : Holds(u, x) =>
            StillHolds(u, x) /\ type'[u].clients.data = type[u].clients.data
      BY <2>5 DEF Holds, StillHolds, LiveType
    <3> QED
      BY <1>9, <2>2, <3>2, <3>3, <3>4
  <2>6. CASE type' = [type EXCEPT ![t].clients = c] /\ Touch(w, [Rest(w) EXCEPT !.seen = None])
    <3>1. request'[w].seen = None /\ request'[w].known = r.known
      <4>1. request'[w] = [Rest(w) EXCEPT !.seen = None]
        BY <1>0, <2>6 DEF Touch, Others
      <4> QED
        BY <1>3, <1>4, <4>1 DEF Request
    <3> HIDE DEF c
    <3>2. /\ \A u \in Types : type'[u].state = type[u].state /\ type'[u].key = type[u].key
          /\ \A u \in Types \ {t} : type'[u] = type[u]
          /\ type'[t].clients = c
      BY <1>0, <2>2, <2>6 DEF Type
    <3>3. KnowsKeys(request[w].known)' /\ KnowsSections(request[w].seen)'
      <4>1. \A k \in Keys : r.known[k] \in Types \cup {None}
        BY <1>0 DEF Request, r
      <4> QED
        BY <1>6, <3>1, <3>2, <4>1 DEF KnowsKeys, KnowsSections, LiveType
    <3>4. StillHolds(t, s) /\ type'[t].clients.data = data
      BY <2>2, <2>4, <3>2 DEF StillHolds, LiveType
    <3>5. \A u \in Types, x \in Spellings : Holds(u, x) /\ Norm[x] # KeyOf(s) =>
            StillHolds(u, x) /\ type'[u].clients.data = type[u].clients.data
      BY <2>1, <2>2, <3>2, NormIsKey DEF Holds, StillHolds, LiveType
    <3> QED
      BY <1>9, <2>2, <3>3, <3>4, <3>5
  <2> QED
    BY <1>11, <2>5, <2>6 DEF SyncExisting, Continue, s, data, r
<1>12. CASE CreateFromItem(w)
  <2> DEFINE c == [NoSections EXCEPT !.data = data]
  <2>1. s \in Spellings /\ Norm[s] \in Keys /\ r.known[Norm[s]] = None
    BY <1>3, <1>12 DEF CreateFromItem, s, r
  <2>2. PICK t \in Types :
          /\ type[t] = UnbornType /\ IndexAllows(t, Norm[s])
          /\ type' = [type EXCEPT ![t] = NewType(s, c)]
          /\ Touch(w, [Rest(w) EXCEPT !.known[Norm[s]] = t, !.seen = None])
    BY <1>12 DEF CreateFromItem, s, data
  <2>3. c \in Sections /\ c.data = data
    BY <1>3 DEF Sections, NoSections
  <2>4. Created(t, s, c)
    BY <2>1, <2>2, NormIsKey DEF Created
  <2> HIDE DEF c
  <2>5. /\ type'[t].clients = c /\ LiveType(t)' /\ type'[t].key = Norm[s]
        /\ \A u \in Types : LiveType(u) => u # t /\ type'[u] = type[u]
        /\ \A u \in Types : LiveType(u)' => u = t \/ (LiveType(u) /\ type'[u] = type[u])
        /\ \A u \in Types : \A x : Holds(u, x) => StillHolds(u, x) /\ u # t /\ type'[u] = type[u]
    BY <2>1, <2>3, <2>4, CreatedKeeps
  <2>6. request'[w].seen = None /\ request'[w].known = [r.known EXCEPT ![Norm[s]] = t]
    <3>1. request'[w] = [Rest(w) EXCEPT !.known[Norm[s]] = t, !.seen = None]
      BY <1>0, <2>2 DEF Touch, Others
    <3> QED
      BY <1>3, <1>4, <3>1 DEF Request
  <2>7. KnowsSections(request[w].seen)'
    BY <2>6 DEF KnowsSections
  <2>8. KnowsKeys(request[w].known)'
    <3>1. r.known \in [Keys -> Types \cup {None}]
      BY <1>0 DEF Request, r
    <3>2. ASSUME NEW k \in Keys
          PROVE  /\ request'[w].known[k] = None => \A u \in Types : LiveType(u)' => type'[u].key # k
                 /\ request'[w].known[k] # None =>
                      type'[request'[w].known[k]].state = "live" /\ type'[request'[w].known[k]].key = k
      <4>1. CASE k = Norm[s]
        BY <2>5, <2>6, <3>1, <4>1, NoneAssumption DEF LiveType
      <4>2. CASE k # Norm[s]
        BY <1>6, <2>5, <2>6, <3>1, <4>2 DEF KnowsKeys, LiveType
      <4> QED
        BY <4>1, <4>2
    <3> QED
      BY <3>2 DEF KnowsKeys, LiveType
  <2>9. StillHolds(t, s) /\ type'[t].clients.data = data
    BY <2>3, <2>5 DEF StillHolds, LiveType
  <2> QED
    BY <1>9, <2>5, <2>7, <2>8, <2>9
<1> QED
  BY <1>10, <1>11, <1>12

LEMMA OrderStep == Typed /\ JobsInOrder /\ [Next]_vars => JobsInOrder'
<1> SUFFICES ASSUME Typed, JobsInOrder, [Next]_vars, NEW v \in Workers PROVE InOrder(request[v])'
  BY DEF JobsInOrder
<1>0. InOrder(request[v]) /\ request[v] \in Request /\ StageTyped(request[v])
  BY DEF JobsInOrder, Typed, TypeOK
<1>1. CASE Stands(v) /\ (UNCHANGED type \/ ~request'[v].quiet)
  BY <1>0, <1>1, StandsInOrder
<1>2. CASE Stands(v) /\ request[v].job = None
  <2>1. request'[v].stage \notin {"item", "draft", "raw", "collect"}
    BY <1>0, <1>2, NoneAssumption DEF Stands, StageTyped
  <2> QED
    BY <2>1 DEF InOrder
<1>3. CASE Step(v) \/ Start(v)
  <2>1. CASE request'[v].stage \notin {"item", "draft", "raw", "collect"}
    BY <2>1 DEF InOrder
  <2>2. CASE request'[v].stage \in {"item", "draft", "raw", "collect"}
    BY <1>0, <1>3, <2>2, RequestStands, StartsInOrder, ImportInOrderStep, BatchInOrderStep
  <2> QED
    BY <2>1, <2>2
<1>4. CASE Door
  BY <1>1, <1>2, <1>4, DoorStands, DoorDisturbs
<1>5. ASSUME NEW w \in Workers \ {v}, Step(w) \/ Start(w) PROVE InOrder(request[v])'
  BY <1>1, <1>2, <1>5, RequestStands, WritesDisturb
<1>6. CASE UNCHANGED vars
  BY <1>1, <1>6 DEF vars, Stands
<1> QED
  BY <1>3, <1>4, <1>5, <1>6 DEF Next, Silence

LEMMA FilesAreNotBatches == \A f \in Files : f \notin Batches
<1> SUFFICES ASSUME NEW f \in Files, f \in Batches PROVE FALSE
  OBVIOUS
<1>1. DOMAIN f = {"name", "drafts"}
  BY FilesAssumption DEF File
<1>2. DOMAIN f = {"items"}
  BY BatchesAssumption DEF Batch
<1> QED
  BY <1>1, <1>2

\* What was said of the last import or batch is forgotten when records or catalogs change.
LEMMA LastMoves ==
  ASSUME [Next]_vars
  PROVE  \/ last' = None
         \/ UNCHANGED <<type, coll, last>>
         \/ \E w \in Workers : FillCollection(w) \/ FinishBatch(w)
<1>1. Door => last' = None \/ UNCHANGED <<type, coll, last>>
  BY DEF Door, CreateCatalogRecord, AssertCanonical, WriteClientSection, CreateCatalog,
         RenameCatalog, SetMembers, DeleteCatalog, MintLabel, DeleteLabel, UnlabelInstance, TouchAll
<1>2. ASSUME NEW w \in Workers, Start(w) PROVE last' = None \/ UNCHANGED <<type, coll, last>>
  BY <1>2
  DEF Start, DeleteCatalogRecord, CreateInstance, StartBatch, StartImport, DeleteInstance,
      LabelInstance, LabelFromScan
<1>3. ASSUME NEW w \in Workers, Step(w), ~FillCollection(w), ~FinishBatch(w)
      PROVE  last' = None \/ UNCHANGED <<type, coll, last>>
  BY <1>3
  DEF Step, UnlinkInstance, DropCatalogRecord, SkipItem, SyncExisting, CreateFromItem, SkipDraft,
      ImportDraft, PreserveRaw, EndDrafts, FindCollection, InsertInstance, BurnLabel,
      DropInstance, PutLabel, CutOff, Touch
<1> QED
  BY <1>1, <1>2, <1>3 DEF Next, Silence, vars

LEMMA FinishedStep ==
  ASSUME Typed, JobsInOrder, FinishedMeansThere, [Next]_vars
  PROVE  FinishedMeansThere'
<1>1. CASE last' = None
  BY <1>1, NoneAssumption DEF FinishedMeansThere
<1>2. CASE UNCHANGED <<type, coll, last>>
  BY <1>2 DEF FinishedMeansThere, NamedSo, LiveType
<1>3. ASSUME NEW w \in Workers, FillCollection(w), last' # None PROVE FinishedMeansThere'
  <2> DEFINE r == request[w]
  <2>1. /\ r.quiet /\ last' = r.job /\ r.stage = "collect" /\ UNCHANGED type
    BY <1>3 DEF FillCollection, At
  <2>2. r.job \in Files /\ r.job \notin Batches /\ coll \in [Collections -> Collection]
    BY <2>1, FilesAreNotBatches DEF Typed, TypeOK, StageTyped
  <2>3. PICK c \in NamedSo(r.job.name) :
          coll' = [coll EXCEPT ![c].members = Merged(@, r.members)]
    BY <1>3 DEF FillCollection
  <2>4. /\ c \in Collections /\ coll[c].name = r.job.name
        /\ coll'[c].name = r.job.name /\ r.members \subseteq coll'[c].members
    BY <2>2, <2>3 DEF NamedSo, Merged, Collection
  <2>5. DOMAIN r.job.drafts = 1 .. Len(r.job.drafts)
    BY <2>2, FilesAssumption, LenProperties DEF File
  <2>6. ASSUME NEW s \in Range(r.job.drafts) \ {None}
        PROVE  \E t \in Types : StillHolds(t, s) /\ t \in coll'[c].members
    <3>1. PICK n \in 1 .. Len(r.job.drafts) : s = r.job.drafts[n]
      BY <2>5 DEF Range
    <3>2. \E t \in r.members : t \in Types /\ Holds(t, s)
      BY <2>1, <3>1 DEF JobsInOrder, InOrder, Collects
    <3> QED
      BY <2>1, <2>4, <3>2 DEF Holds, StillHolds, LiveType
  <2>7. c \in NamedSo(last.name)'
    BY <2>1, <2>4 DEF NamedSo
  <2> HIDE DEF r
  <2> QED
    BY <2>1, <2>2, <2>6, <2>7 DEF FinishedMeansThere, StillHolds, LiveType
<1>4. ASSUME NEW w \in Workers, FinishBatch(w), last' # None PROVE FinishedMeansThere'
  <2> DEFINE r == request[w]
             items == r.job.items
  <2>1. /\ r.quiet /\ r.can /\ last' = r.job /\ r.stage = "item" /\ r.todo = <<>>
        /\ UNCHANGED <<type, coll>>
    BY <1>4 DEF FinishBatch, At, More
  <2>2. r.job \in Batches /\ r.job \notin Files
    BY <2>1, FilesAreNotBatches DEF Typed, TypeOK, StageTyped
  <2>3. items \in Seq(Item)
    BY <2>2, BatchesAssumption DEF Batch
  <2>4. Served(items, Len(items) - Len(r.todo)) /\ Aligned(items, r.todo)
    BY <2>1 DEF JobsInOrder, InOrder, BatchInOrder
  <2>5. Len(items) - Len(r.todo) = Len(items)
    BY <2>1, <2>3, <2>4, DoneAligned
  <2>6. Served(items, Len(items))
    BY <2>4, <2>5
  <2>7. last' = r.job /\ DOMAIN items = 1 .. Len(items)
    BY <2>1, <2>3, LenProperties
  <2>8. ASSUME NEW n \in DOMAIN items, items[n].ident # None,
               ~ \E m \in n + 1 .. Len(items) : KeyOf(items[m].ident) = KeyOf(items[n].ident)
        PROVE  \E t \in Types : StillHolds(t, items[n].ident) /\ type'[t].clients.data = items[n].data
    BY <2>1, <2>6, <2>7, <2>8 DEF Served, Holds, StillHolds, LiveType
  <2> HIDE DEF r
  <2> QED
    BY <2>2, <2>7, <2>8 DEF FinishedMeansThere, StillHolds, LiveType
<1> QED
  BY <1>1, <1>2, <1>3, <1>4, LastMoves

\* An import or a batch that nobody disturbed leaves a record for all that it named, with its
\* data, and the records of an import in one catalog, whatever attempts were cut off before.
THEOREM FinishedIsThere == Spec => []FinishedMeansThere
<1>1. Init => JobsInOrder /\ FinishedMeansThere
  BY NoneAssumption DEF Init, Idle, JobsInOrder, InOrder, FinishedMeansThere
<1> QED
  BY <1>1, InitTyped, TypedStep, OrderStep, FinishedStep, PTL DEF Spec
=============================================================================
