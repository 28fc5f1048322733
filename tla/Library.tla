------------------------------ MODULE Library ------------------------------
(***************************************************************************)
(* What refers to what in the tool library: catalog records (types) with   *)
(* their natural key, the instances created from them, the catalogs that   *)
(* collect them, and the labels that are stuck on instances.               *)
(* api/tool_catalog_records.py, the catalog half of batch_sync.py,         *)
(* api/catalogs.py, api/labels.py, label_codes.py, api/resolver.py and the *)
(* delete and label doors of api/tool_instance_records.py.                 *)
(*                                                                         *)
(* Handlers run in a thread pool and each audit row commits, so a handler  *)
(* is as many steps as it has commits, plus one where what it checked can  *)
(* be stale when it writes.  Doors that read, check and write one row are  *)
(* one step.  Row versions, presets and media are the concern of BatchSync.*)
(***************************************************************************)
EXTENDS Naturals, FiniteSets, Sequences, SequencesExt

CONSTANTS
  Types, Instances, Labels,   \* ids; bound: what needs a fresh one waits for none
  Collections,  \* rows of catalogs; a deleted one leaves nothing and is reused
  Workers, None,
  Spellings,    \* (manufacturer, product code) as typed
  Keys, Norm,   \* their trimmed and casefolded form
  Names,        \* names of catalogs
  Data,         \* payloads of the client that syncs catalog records
  Files,        \* tool-data files to import
  Batches,      \* bodies of the catalog batch door
  MaxRequests,  \* bound: requests that clients send
  Failures      \* bound: requests cut off by the database or the process

ASSUME NormAssumption == Norm \in [Spellings -> Keys]
ASSUME BoundsAssumption == MaxRequests \in Nat /\ Failures \in Nat

\* A draft or an item without an identity has no spelling.
File == [name : Names, drafts : Seq(Spellings \cup {None})]
Item == [ident : Spellings \cup {None}, data : Data]
Batch == [items : Seq(Item)]

\* Ids, codes, keys and bodies are told from the null, and ids from codes.
ASSUME NoneAssumption ==
  /\ None \notin Types \cup Instances \cup Labels \cup Keys \cup Spellings \cup Names \cup Data
  /\ None \notin Files \cup Batches
  /\ Instances \cap Labels = {}

ASSUME FilesAssumption == Files \subseteq File
ASSUME BatchesAssumption == \A b \in Batches : b \in Batch

VARIABLES
  type,     \* tool_catalog_records
  inst,     \* tool_instance_records
  label,    \* labels
  coll,     \* catalogs
  request,  \* what each worker's handler holds between two steps
  last,     \* history: the import or batch that finished and nothing touched since
  late,     \* history: instances and labels that were tied to a record whose
            \* deletion had begun
  failed,   \* how many requests were cut off
  sent      \* how many requests were sent

vars == <<type, inst, label, coll, request, last, late, failed, sent>>

Sections == [raw : BOOLEAN, data : Data \cup {None}]
Type == [state : {"unborn", "live", "gone"}, ident : Spellings \cup {None},
         key : Keys \cup {None}, clients : Sections]
Instance == [state : {"unborn", "live", "gone"}, link : Types \cup {None}]
Label == [state : {"unborn", "live", "gone"}, on : Instances \cup {None}]
Collection == [name : Names \cup {None}, members : SUBSET Types]

NoSections == [raw |-> FALSE, data |-> None]
UnbornType == [state |-> "unborn", ident |-> None, key |-> None, clients |-> NoSections]
NoCollection == [name |-> None, members |-> {}]

Request == [stage   : {"idle", "item", "draft", "raw", "collect", "unlink",
                       "instantiate", "burn", "put", "scanned"},
            job     : Files \cup Batches \cup {None},
            can     : BOOLEAN,        \* the credential holds assert
            todo    : Seq(Item) \cup Seq(Spellings \cup {None}),
            known   : [Keys -> Types \cup {None}],   \* by_natural
            seen    : [Types -> Sections] \cup {None},  \* clients as loaded at the start
            members : SUBSET Types,   \* of the catalog that the import makes
            type    : Types \cup {None},
            inst    : Instances \cup {None},
            label   : Labels \cup {None},
            rest    : SUBSET (Instances \cup Labels),
            quiet   : BOOLEAN]        \* history: nobody else has written types or
                                      \* catalogs, or this label, since the start

Idle == [stage |-> "idle", job |-> None, can |-> FALSE, todo |-> <<>>,
         known |-> [k \in Keys |-> None], seen |-> None, members |-> {}, type |-> None,
         inst |-> None, label |-> None, rest |-> {}, quiet |-> FALSE]

TypeOK ==
  /\ type \in [Types -> Type]
  /\ inst \in [Instances -> Instance]
  /\ label \in [Labels -> Label]
  /\ coll \in [Collections -> Collection]
  /\ request \in [Workers -> Request]
  /\ late \subseteq Instances \cup Labels
  /\ failed \in 0 .. Failures /\ sent \in 0 .. MaxRequests

Init ==
  /\ type = [t \in Types |-> UnbornType]
  /\ inst = [i \in Instances |-> [state |-> "unborn", link |-> None]]
  /\ label = [l \in Labels |-> [state |-> "unborn", on |-> None]]
  /\ coll = [c \in Collections |-> NoCollection]
  /\ request = [w \in Workers |-> Idle]
  /\ last = None /\ late = {} /\ failed = 0 /\ sent = 0

-----------------------------------------------------------------------------
(* Rows and requests. *)

LiveType(t) == type[t].state = "live"
LiveInst(i) == inst[i].state = "live"
LiveLabel(l) == label[l].state = "live"

At(w, stage) == request[w].stage = stage
Continue(w, r) == request' = [request EXCEPT ![w] = r]

\* A step of w that writes types or catalogs: it disturbs everybody else's jobs.
Disturbed(r) == [r EXCEPT !.quiet = @ /\ r.job = None]
Others(w, r) == [v \in Workers |-> IF v = w THEN r ELSE Disturbed(request[v])]
Touch(w, r) == request' = Others(w, r) /\ last' = None

\* The same for a door that is one step.
TouchAll == request' = [v \in Workers |-> Disturbed(request[v])] /\ last' = None

\* uq_catalog_record_natural_key; a NULL is equal to nothing.
IndexAllows(t, k) == k # None => \A u \in Types \ {t} : LiveType(u) => type[u].key # k

KeyOf(s) == IF s = None THEN None ELSE Norm[s]

\* Mutant of Stamped: the columns are stamped by the create doors only.
StampedOnCreate(row, s) ==
  [row EXCEPT !.ident = s, !.key = IF row.state = "live" THEN @ ELSE KeyOf(s)]

\* The columns of the index follow the canonical identity.
Stamped(row, s) == [row EXCEPT !.ident = s, !.key = KeyOf(s)]

\* Mutant of NewType: a record is created without its sections.
NewTypeBare(s, sections) == [Stamped(UnbornType, s) EXCEPT !.state = "live", !.clients = None]

NewType(s, sections) ==
  [Stamped(UnbornType, s) EXCEPT !.state = "live", !.clients = sections]

-----------------------------------------------------------------------------
(* Catalog records, one at a time. *)

CreateCatalogRecord ==
  /\ \E t \in Types, s \in Spellings, data \in Data \cup {None} :
       /\ type[t] = UnbornType /\ IndexAllows(t, Norm[s])
       /\ type' = [type EXCEPT ![t] = NewType(s, [NoSections EXCEPT !.data = data])]
  /\ TouchAll
  /\ UNCHANGED <<inst, label, coll, late, failed>>

\* An assert may null an identity leaf: only a create has the identity floor.
AssertCanonical(t, s) ==
  /\ LiveType(t) /\ s # type[t].ident
  /\ IndexAllows(t, Stamped(type[t], s).key)
  /\ type' = [type EXCEPT ![t] = Stamped(@, s)]
  /\ TouchAll
  /\ UNCHANGED <<inst, label, coll, late, failed>>

WriteClientSection(t, data) ==
  /\ LiveType(t)
  /\ type' = [type EXCEPT ![t].clients.data = data]
  /\ TouchAll
  /\ UNCHANGED <<inst, label, coll, late, failed>>

Linked(t) == {i \in Instances : LiveInst(i) /\ inst[i].link = t}

DeleteCatalogRecord(w, t) ==
  /\ At(w, "idle") /\ LiveType(t)
  /\ Continue(w, [Idle EXCEPT !.stage = "unlink", !.type = t, !.rest = Linked(t)])
  /\ UNCHANGED <<type, inst, label, coll, last, late, failed>>

\* The link is dissolved, whatever it has become; each with its own UPDATE row.
UnlinkInstance(w) ==
  /\ At(w, "unlink")
  /\ \E i \in request[w].rest :
       /\ LiveInst(i)
       /\ inst' = [inst EXCEPT ![i].link = None]
       /\ Continue(w, [request[w] EXCEPT !.rest = @ \ {i}])
  /\ UNCHANGED <<type, label, coll, last, late, failed>>

\* The record goes; catalogs that list it are left as they are.
DropCatalogRecord(w) ==
  /\ At(w, "unlink") /\ request[w].rest = {}
  /\ type' = [type EXCEPT ![request[w].type] = [UnbornType EXCEPT !.state = "gone"]]
  /\ Touch(w, Idle)
  /\ UNCHANGED <<inst, label, coll, late, failed>>

-----------------------------------------------------------------------------
(* The catalog batch door. *)

\* by_natural, of rows that may share the key None only.
ByNatural ==
  [k \in Keys |-> LET with == {t \in Types : LiveType(t) /\ type[t].key = k}
                  IN  IF with = {} THEN None ELSE CHOOSE t \in with : TRUE]

StartBatch(w, b, can) ==
  /\ At(w, "idle")
  /\ Continue(w, [Idle EXCEPT !.stage = "item", !.job = b, !.can = can, !.todo = b.items,
                              !.known = ByNatural,
                              !.seen = [t \in Types |-> type[t].clients], !.quiet = TRUE])
  /\ last' = None
  /\ UNCHANGED <<type, inst, label, coll, late, failed>>

Head1(w) == Head(request[w].todo)
Rest(w) == [request[w] EXCEPT !.todo = Tail(@)]
More(w) == request[w].todo # <<>>

\* An item without identity, or one that only an assert credential may create.
SkipItem(w) ==
  /\ At(w, "item") /\ More(w)
  /\ \/ Head1(w).ident = None
     \/ Head1(w).ident # None /\ request[w].known[Norm[Head1(w).ident]] = None /\ ~request[w].can
  /\ Continue(w, Rest(w))
  /\ UNCHANGED <<type, inst, label, coll, last, late, failed>>

\* `exists`: the client's own section follows, its SYNC row commits.  The other
\* sections are written back as they were loaded.
SyncExisting(w) ==
  /\ At(w, "item") /\ More(w) /\ Head1(w).ident # None
  /\ LET t == request[w].known[Norm[Head1(w).ident]]
         loaded == IF request[w].seen = None THEN type[t].clients ELSE request[w].seen[t] IN
     /\ t # None
     /\ \/ /\ loaded.data = Head1(w).data
           /\ LiveType(t) \/ request[w].seen # None
           /\ Continue(w, Rest(w))
           /\ UNCHANGED <<type, last>>
        \/ /\ loaded.data # Head1(w).data /\ LiveType(t)
           /\ type' = [type EXCEPT ![t].clients = [loaded EXCEPT !.data = Head1(w).data]]
           /\ Touch(w, [Rest(w) EXCEPT !.seen = None])
  /\ UNCHANGED <<inst, label, coll, late, failed>>

\* No match: an atomic create; by_natural knows it from then on.
CreateFromItem(w) ==
  /\ At(w, "item") /\ More(w) /\ Head1(w).ident # None /\ request[w].can
  /\ LET k == Norm[Head1(w).ident] IN
     /\ request[w].known[k] = None
     /\ \E t \in Types :
          /\ type[t] = UnbornType /\ IndexAllows(t, k)
          /\ type' = [type EXCEPT ![t] =
                        NewType(Head1(w).ident, [NoSections EXCEPT !.data = Head1(w).data])]
          /\ Touch(w, [Rest(w) EXCEPT !.known[k] = t, !.seen = None])
  /\ UNCHANGED <<inst, label, coll, late, failed>>

FinishBatch(w) ==
  /\ At(w, "item") /\ ~More(w)
  /\ last' = IF request[w].quiet /\ request[w].can THEN request[w].job ELSE None
  /\ Continue(w, Idle)
  /\ UNCHANGED <<type, inst, label, coll, late, failed>>

-----------------------------------------------------------------------------
(* The import of a manufacturer's file. *)

Importing(w) == request[w].stage \in {"draft", "raw", "collect"}

\* The handler runs on the event loop, so two imports never interleave.
StartImport(w, f) ==
  /\ At(w, "idle") /\ \A v \in Workers : ~Importing(v)
  /\ Continue(w, [Idle EXCEPT !.stage = "draft", !.job = f, !.todo = f.drafts, !.quiet = TRUE])
  /\ last' = None
  /\ UNCHANGED <<type, inst, label, coll, late, failed>>

SkipDraft(w) ==
  /\ At(w, "draft") /\ More(w)
  /\ \/ Head1(w) = None
     \/ Head1(w) # None /\ \E t \in Types : LiveType(t) /\ type[t].key = Norm[Head1(w)]
  /\ Continue(w, Rest(w))
  /\ UNCHANGED <<type, inst, label, coll, last, late, failed>>

ImportDraft(w) ==
  /\ At(w, "draft") /\ More(w) /\ Head1(w) # None
  /\ \E t \in Types :
       /\ type[t] = UnbornType /\ IndexAllows(t, Norm[Head1(w)])
       /\ type' = [type EXCEPT ![t] = NewType(Head1(w), NoSections)]
       /\ Touch(w, [Rest(w) EXCEPT !.stage = "raw", !.type = t, !.members = @ \cup {t}])
  /\ UNCHANGED <<inst, label, coll, late, failed>>

\* The lossless payload follows the record in a commit of its own; a record
\* that is already gone is reported as failed.
PreserveRaw(w) ==
  LET t == request[w].type IN
  /\ At(w, "raw")
  /\ type' = IF LiveType(t) THEN [type EXCEPT ![t].clients.raw = TRUE] ELSE type
  /\ Touch(w, [request[w] EXCEPT !.stage = "draft", !.type = None])
  /\ UNCHANGED <<inst, label, coll, late, failed>>

\* Mutant of Existing: only what this run created is collected.
ExistingForgotten(f) == {}

\* Records that the drafts found already there.
Existing(f) == {t \in Types : LiveType(t) /\ \E s \in Range(f.drafts) : s # None /\ type[t].key = Norm[s]}

\* An import that made and found nothing makes no catalog.
EndDrafts(w) ==
  LET members == request[w].members \cup Existing(request[w].job) IN
  /\ At(w, "draft") /\ ~More(w)
  /\ \/ members # {} /\ Continue(w, [request[w] EXCEPT !.stage = "collect", !.members = members])
     \/ members = {} /\ Continue(w, Idle)
  /\ UNCHANGED <<type, inst, label, coll, last, late, failed>>

NamedSo(n) == {c \in Collections : coll[c].name = n}

Merged(members, more) == members \cup more

\* upsert_import_catalog: find it by name or create it, in a commit of its own.
FindCollection(w) ==
  /\ At(w, "collect") /\ NamedSo(request[w].job.name) = {}
  /\ \E c \in Collections :
       /\ coll[c] = NoCollection
       /\ coll' = [coll EXCEPT ![c].name = request[w].job.name]
  /\ Touch(w, request[w])
  /\ UNCHANGED <<type, inst, label, late, failed>>

FillCollection(w) ==
  /\ At(w, "collect")
  /\ \E c \in NamedSo(request[w].job.name) :
       coll' = [coll EXCEPT ![c].members = Merged(@, request[w].members)]
  /\ request' = Others(w, Idle)
  /\ last' = IF request[w].quiet THEN request[w].job ELSE None
  /\ UNCHANGED <<type, inst, label, late, failed>>

-----------------------------------------------------------------------------
(* Catalogs. *)

CreateCatalog(c, n) ==
  /\ coll[c] = NoCollection
  /\ coll' = [coll EXCEPT ![c].name = n]
  /\ TouchAll
  /\ UNCHANGED <<type, inst, label, late, failed>>

RenameCatalog(c, n) ==
  /\ coll[c] # NoCollection /\ coll[c].name # n
  /\ coll' = [coll EXCEPT ![c].name = n]
  /\ TouchAll
  /\ UNCHANGED <<type, inst, label, late, failed>>

SetMembers(c, members) ==
  /\ coll[c] # NoCollection /\ \A t \in members : LiveType(t)
  /\ coll' = [coll EXCEPT ![c].members = members]
  /\ TouchAll
  /\ UNCHANGED <<type, inst, label, late, failed>>

DeleteCatalog(c) ==
  /\ coll[c] # NoCollection
  /\ coll' = [coll EXCEPT ![c] = NoCollection]
  /\ TouchAll
  /\ UNCHANGED <<type, inst, label, late, failed>>

-----------------------------------------------------------------------------
(* Instances and labels. *)

\* create_instance_from_catalog: the type is read, the instance is inserted later.
CreateInstance(w, t) ==
  /\ At(w, "idle") /\ LiveType(t)
  /\ Continue(w, [Idle EXCEPT !.stage = "instantiate", !.type = t])
  /\ UNCHANGED <<type, inst, label, coll, last, late, failed>>

\* t is being deleted: what is tied to it now can escape the deletion.
Doomed(t) == ~LiveType(t) \/ \E w \in Workers : At(w, "unlink") /\ request[w].type = t
DoomedInst(i) == ~LiveInst(i) \/ \E w \in Workers : At(w, "burn") /\ request[w].inst = i

InsertInstance(w) ==
  LET t == request[w].type IN
  /\ At(w, "instantiate")
  /\ \E i \in Instances :
       /\ inst[i].state = "unborn"
       /\ inst' = [inst EXCEPT ![i] = [state |-> "live", link |-> t]]
       /\ late' = IF Doomed(t) THEN late \cup {i} ELSE late
  /\ Continue(w, Idle)
  /\ UNCHANGED <<type, label, coll, last, failed>>

\* Mutant of LabelsOn: the labels of a deleted record are not looked for.
LabelsOnNone(i) == {}

LabelsOn(i) == {l \in Labels : LiveLabel(l) /\ label[l].on = i}

GoneInst == [state |-> "gone", link |-> None]
GoneLabel == [state |-> "gone", on |-> None]

\* The delete of the record's presets locks the database until the first commit:
\* it burns a label, or is the end.
DeleteInstance(w, i) ==
  /\ At(w, "idle") /\ LiveInst(i)
  /\ \/ /\ LabelsOn(i) = {}
        /\ inst' = [inst EXCEPT ![i] = GoneInst]
        /\ UNCHANGED <<label, request>>
     \/ \E l \in LabelsOn(i) :
          /\ label' = [label EXCEPT ![l] = GoneLabel]
          /\ Continue(w, [Idle EXCEPT !.stage = "burn", !.inst = i, !.rest = LabelsOn(i) \ {l}])
          /\ UNCHANGED inst
  /\ UNCHANGED <<type, coll, last, late, failed>>

BurnLabel(w) ==
  /\ At(w, "burn")
  /\ \E l \in request[w].rest :
       /\ LiveLabel(l)
       /\ label' = [label EXCEPT ![l] = GoneLabel]
       /\ Continue(w, [request[w] EXCEPT !.rest = @ \ {l}])
  /\ UNCHANGED <<type, inst, coll, last, late, failed>>

DropInstance(w) ==
  /\ At(w, "burn") /\ request[w].rest = {}
  /\ inst' = [inst EXCEPT ![request[w].inst] = GoneInst]
  /\ Continue(w, Idle)
  /\ UNCHANGED <<type, label, coll, last, late, failed>>

\* Codes are drawn at random and never come twice.  A sheet mints and commits
\* before it looks at its start position, so a refused one leaves its labels.
MintLabel ==
  /\ \E l \in Labels :
       /\ label[l].state = "unborn"
       /\ label' = [label EXCEPT ![l].state = "live"]
  /\ UNCHANGED <<type, inst, coll, request, last, late, failed>>

MayPut(l) == label[l].state # "gone" /\ label[l].on = None

\* label_instance, create_labels on a record, and a scan that picks a record:
\* the record and the label are read ...
LabelInstance(w, i, l) ==
  /\ At(w, "idle") /\ LiveInst(i) /\ MayPut(l)
  /\ Continue(w, [Idle EXCEPT !.stage = "put", !.inst = i, !.label = l, !.quiet = TRUE])
  /\ UNCHANGED <<type, inst, label, coll, last, late, failed>>

\* ... or the scan makes a record on the spot, and commits it first.
LabelFromScan(w, l) ==
  /\ At(w, "idle") /\ LiveLabel(l) /\ MayPut(l)
  /\ \E i \in Instances :
       /\ inst[i].state = "unborn"
       /\ inst' = [inst EXCEPT ![i].state = "live"]
       /\ Continue(w, [Idle EXCEPT !.stage = "scanned", !.inst = i, !.label = l, !.quiet = TRUE])
  /\ UNCHANGED <<type, label, coll, last, late, failed>>

\* ... and the label is written without another look at what it is on; a scan
\* has expired its record and misses it when it is gone.
PutLabel(w) ==
  LET i == request[w].inst
      l == request[w].label IN
  /\ At(w, "put") \/ (At(w, "scanned") /\ LiveInst(i))
  /\ label[l].state # "gone"
  /\ label' = [label EXCEPT ![l] = [state |-> "live", on |-> i]]
  /\ late' = IF DoomedInst(i) THEN late \cup {l} ELSE late \ {l}
  /\ request' = [v \in Workers |->
       IF v = w THEN Idle
       ELSE [request[v] EXCEPT !.quiet = @ /\ request[v].label # l]]
  /\ UNCHANGED <<type, inst, coll, last, failed>>

UnlabelInstance(i, l) ==
  /\ LiveInst(i) /\ LiveLabel(l) /\ label[l].on = i
  /\ label' = [label EXCEPT ![l].on = None]
  /\ late' = late \ {l}
  /\ UNCHANGED <<type, inst, coll, request, last, failed>>

DeleteLabel(l) ==
  /\ LiveLabel(l)
  /\ label' = [label EXCEPT ![l] = GoneLabel]
  /\ UNCHANGED <<type, inst, coll, request, last, late, failed>>

\* A scan: the record whose page it shows, if any.
Resolves(l) ==
  IF LiveLabel(l) /\ label[l].on # None /\ LiveInst(label[l].on) THEN label[l].on ELSE None

-----------------------------------------------------------------------------

\* A session finds a row gone, a create finds the key taken, or ids run out.
Stuck(w) ==
  LET r == request[w]
      full == \A t \in Types : type[t] # UnbornType IN
  \/ At(w, "unlink") /\ \E i \in r.rest : ~LiveInst(i)
  \/ At(w, "burn") /\ \E l \in r.rest : ~LiveLabel(l)
  \/ At(w, "instantiate") /\ \A i \in Instances : inst[i].state # "unborn"
  \/ (At(w, "put") \/ At(w, "scanned")) /\ label[r.label].state = "gone"
  \/ At(w, "scanned") /\ ~LiveInst(r.inst)
  \/ At(w, "collect") /\ NamedSo(r.job.name) = {} /\ \A c \in Collections : coll[c] # NoCollection
  \/ At(w, "draft") /\ More(w) /\ full
  \/ /\ At(w, "item") /\ More(w) /\ Head1(w).ident # None
     /\ LET k == Norm[Head1(w).ident]
            t == r.known[k] IN
        IF t = None THEN full \/ \E u \in Types : LiveType(u) /\ type[u].key = k
                    ELSE ~LiveType(t)

\* The request ends here; what it has committed stays.  Cutting off one that has
\* committed nothing is as good as never sending it.
CutOff(w) ==
  /\ ~At(w, "idle")
  /\ \/ Stuck(w) /\ UNCHANGED failed
     \/ /\ request[w].job # None \/ request[w].stage \in {"unlink", "burn", "scanned"}
        /\ failed < Failures /\ failed' = failed + 1
  /\ Continue(w, Idle)
  /\ UNCHANGED <<type, inst, label, coll, last, late>>

Step(w) ==
  \/ UnlinkInstance(w) \/ DropCatalogRecord(w)
  \/ SkipItem(w) \/ SyncExisting(w) \/ CreateFromItem(w) \/ FinishBatch(w)
  \/ SkipDraft(w) \/ ImportDraft(w) \/ PreserveRaw(w) \/ EndDrafts(w)
  \/ FindCollection(w) \/ FillCollection(w)
  \/ InsertInstance(w) \/ BurnLabel(w) \/ DropInstance(w) \/ PutLabel(w) \/ CutOff(w)

Start(w) ==
  \/ \E t \in Types : DeleteCatalogRecord(w, t) \/ CreateInstance(w, t)
  \/ \E b \in Batches, can \in BOOLEAN : StartBatch(w, b, can)
  \/ \E f \in Files : StartImport(w, f)
  \/ \E i \in Instances : DeleteInstance(w, i) \/ \E l \in Labels : LabelInstance(w, i, l)
  \/ \E l \in Labels : LabelFromScan(w, l)

Door ==
  \/ CreateCatalogRecord \/ MintLabel
  \/ \E t \in Types : \/ \E s \in Spellings \cup {None} : AssertCanonical(t, s)
                      \/ \E data \in Data : WriteClientSection(t, data)
  \/ \E c \in Collections : \/ \E n \in Names : CreateCatalog(c, n) \/ RenameCatalog(c, n)
                            \/ \E m \in SUBSET Types : SetMembers(c, m)
                            \/ DeleteCatalog(c)
  \/ \E l \in Labels : DeleteLabel(l) \/ \E i \in Instances : UnlabelInstance(i, l)

\* The clients fall silent; nothing may be under way then.
Silence == sent = MaxRequests /\ (\A w \in Workers : At(w, "idle")) /\ UNCHANGED vars

Next ==
  \/ /\ sent < MaxRequests /\ sent' = sent + 1
     /\ Door \/ \E w \in Workers : Start(w)
  \/ (\E w \in Workers : Step(w)) /\ UNCHANGED sent
  \/ Silence

Spec == Init /\ [][Next]_vars

-----------------------------------------------------------------------------
(* What holds, whatever is cut off and whoever else writes. *)

\* "Per-account unique (manufacturer, product_code)", trimmed and casefolded,
\* "race-safe, not a check-then-insert" (schema.py:255-262): of the identities
\* in canonical, not of the columns that stand in for them, through creates,
\* asserts, batches and imports that race.
OneRecordPerKey ==
  \A t, u \in Types :
    t # u /\ LiveType(t) /\ LiveType(u) /\ type[t].ident # None
      => KeyOf(type[t].ident) # KeyOf(type[u].ident)

\* "The freshly created AND the already-existing duplicates land in one Catalog
\* named from the source" (tool_catalog_records.py:294-297): an import that
\* finishes undisturbed has a record for each draft and all of them collected,
\* and a batch has each item's record with its data, whatever attempts were cut
\* off before.
FinishedMeansThere ==
  LET Has(s, ok(_)) == \E t \in Types : LiveType(t) /\ type[t].key = Norm[s] /\ ok(t) IN
  /\ last \in Files =>
       \E c \in NamedSo(last.name) : \A s \in Range(last.drafts) \ {None} :
         Has(s, LAMBDA t : t \in coll[c].members)
  /\ last \in Batches => \A n \in DOMAIN last.items :
       LET i == last.items[n]
           again == \E m \in n + 1 .. Len(last.items) : KeyOf(last.items[m].ident) = KeyOf(i.ident) IN
       i.ident # None /\ ~again => Has(i.ident, LAMBDA t : type[t].clients.data = i.data)

\* "Every instance keeps existing with its link dissolved" and "labels on the
\* deleted record are BURNED" (tool_catalog_records.py:459-463 and
\* tool_instance_records.py:306-311): only what was tied to a record after its
\* deletion began still names it.
OnlyLateTiesDangle ==
  /\ \A i \in Instances : LiveInst(i) /\ inst[i].link # None /\ ~LiveType(inst[i].link) => i \in late
  /\ \A l \in Labels : LiveLabel(l) /\ label[l].on # None /\ ~LiveInst(label[l].on) => l \in late

\* "UNION the given record ids into its members" (catalogs.py:191-193): no step
\* of an import takes a record out of any catalog.
ImportsOnlyAdd ==
  [][\A w \in Workers : Importing(w) /\ Step(w)
       => \A c \in Collections : coll[c].members \subseteq coll'[c].members]_vars

\* "A resurrected code on a different tool would make the old sticker lie"
\* (tool_instance_records.py:308-309): a code that shows one record never shows
\* another before it has shown none; excepted a request that found the label
\* blank and was overtaken by another put.
StickersAreMovedOnPurpose ==
  [][\A l \in Labels :
       Resolves(l) # None /\ Resolves(l)' \notin {None, Resolves(l)}
         => \E w \in Workers : request[w].label = l /\ ~request[w].quiet /\ At(w, "idle")']_vars

-----------------------------------------------------------------------------
(* What the repository says and the code does not do. *)

\* "Membership never silently points at nothing" (catalogs.py:55-56); the delete
\* of a catalog record leaves it in the catalogs that list it.
MembersExist == \A c \in Collections : \A t \in coll[c].members : LiveType(t)

\* "Write THIS client's section" (tool_catalog_records.py:500-502): a batch writes
\* the others' sections back as it loaded them.
RawIsKept == [][\A t \in Types : type[t].clients.raw /\ LiveType(t)' => type'[t].clients.raw]_vars
=============================================================================
