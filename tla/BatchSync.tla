----------------------------- MODULE BatchSync -----------------------------
(***************************************************************************)
(* The doors that write the content of instance records: the batch sync    *)
(* door (batch_sync.py) with the cutting-data presets (presets.py) and     *)
(* media (api/_media.py, media_store.py), next to the single-record doors  *)
(* of api/tool_instance_records.py.                                        *)
(*                                                                         *)
(* A batch walks its items on one session.  Every audit row it writes      *)
(* commits what the session holds so far and expires what it has loaded;   *)
(* `pend` is what is assigned and not yet flushed.  The single doors       *)
(* commit once and are one step each, except the two that do not: an       *)
(* upload awaits its bytes after it has loaded the record, and a preset    *)
(* contribution commits its row before the union.                          *)
(***************************************************************************)
EXTENDS Naturals, FiniteSets, Sequences

CONSTANTS
  Records,      \* ids of the table; bound: a batch that needs one more is cut off
  Workers, None,
  ItemIds,      \* client_item_id of the one client that syncs
  Data,         \* its opaque payloads
  Paths,        \* canonical leaves of the contract
  LinkPath,     \* catalog_type_id, the leaf that a column mirrors
  Observable,   \* leaves a machine may observe
  Derived,      \* usage and presets: every door refuses them
  Unknown,      \* paths the contract forbids
  Values,       \* what a leaf holds: value, unit and source at once
  Keys, Marks,  \* (origin, label) of presets and their contents
  Blobs,        \* contents of media files
  Batches,      \* bodies of the batch door
  MaxVersion,   \* bound: beyond it nothing starts but a repeated batch or a delete
  Failures      \* bound: batches cut off by the database or the process

ASSUME BoundsAssumption == MaxVersion \in Nat /\ Failures \in Nat
ASSUME PathsAssumption ==
  /\ LinkPath \in Paths /\ Observable \subseteq Paths
  /\ Paths \cap (Derived \cup Unknown) = {}
  /\ None \notin Values \cup Marks
AssertEntry == [path : Paths \cup Derived \cup Unknown, value : Values]
\* A preset below the floor has no content.
PresetEntry == [key : Keys, mark : Marks \cup {None}]
BatchItem == [id : Records \cup {None}, item : ItemIds \cup {None}, data : Data,
              asserts : Seq(AssertEntry), presets : Seq(PresetEntry)]

ASSUME BatchesAssumption == \A b \in Batches : b \in Seq(BatchItem)

VARIABLES
  rec,      \* tool_instance_records
  presets,  \* rows of preset_contributions, by record
  blobs,    \* files in the media store
  audit,    \* committed ASSERT and OBSERVE rows: <<record, path, value>>, while
            \* the record exists
  request,  \* what each worker's session holds between two steps
  torn,     \* history: records whose canonical was overwritten unseen, or
            \* whose union a cut left behind
  last,     \* history: the batch that finished and that nothing touched since
  failed    \* how many batches were cut off

vars == <<rec, presets, blobs, audit, request, torn, last, failed>>

Section == [data : Data \cup {None}, item : ItemIds \cup {None}]
Preset == [key : Keys, mark : Marks]
Canonical == [leaf : [Paths -> Values \cup {None}], media : SUBSET Blobs,
              union : SUBSET Preset]
Record == [state : {"unborn", "live", "gone"}, section : Section,
           canon : Canonical, link : Values \cup {None}, version : Nat]

\* An unset attribute is none of the values that it may take.
ASSUME NoneAssumption == None \notin Nat \cup ItemIds \cup Section \cup Canonical

NoSection == [data |-> None, item |-> None]
Blank == [leaf |-> [p \in Paths |-> None], media |-> {}, union |-> {}]
Unborn == [state |-> "unborn", section |-> NoSection, canon |-> Blank,
           link |-> None, version |-> 0]

\* Mutant of New: the version is left to a default that is not there.
NewUnversioned(section) == [Unborn EXCEPT !.state = "live", !.section = section, !.version = None]
New(section) == [Unborn EXCEPT !.state = "live", !.section = section, !.version = 1]

\* Attributes assigned on a loaded row; None where the column is clean.
Pending == [section : Section \cup {None}, canon : Canonical \cup {None},
            base : Canonical \cup {None}, link : Values \cup {None},
            version : Nat \cup {None}]
Clean == [section |-> None, canon |-> None, base |-> None, link |-> None,
          version |-> None]

Request == [stage   : {"idle", "item", "assert", "preset", "upload", "door"},
            batch   : Batches \cup {None},
            can     : BOOLEAN,            \* the credential holds assert
            todo    : Seq(BatchItem),
            known   : SUBSET Records,     \* by_id
            index   : [ItemIds -> SUBSET Records],   \* by_item
            seen    : [Records -> Record] \cup {None},  \* rows as loaded at the start
            pend    : [Records -> Pending],
            row     : Records \cup {None},
            asserts : Seq(AssertEntry), presets : Seq(PresetEntry),
            canon   : Canonical \cup {None},   \* the local copy of row.canonical
            base    : Canonical \cup {None},   \* what that copy was taken from
            changed : BOOLEAN, applied : BOOLEAN, contributed : BOOLEAN,
            quiet   : BOOLEAN,   \* history: nobody else has written since the start
            again   : BOOLEAN]   \* history: it repeats the batch `last`

Idle == [stage |-> "idle", batch |-> None, can |-> FALSE, todo |-> <<>>, known |-> {},
         index |-> [i \in ItemIds |-> {}], seen |-> None,
         pend |-> [r \in Records |-> Clean], row |-> None, asserts |-> <<>>,
         presets |-> <<>>, canon |-> None, base |-> None, changed |-> FALSE,
         applied |-> FALSE, contributed |-> FALSE, quiet |-> FALSE, again |-> FALSE]

TypeOK ==
  /\ rec \in [Records -> Record]
  /\ presets \in [Records -> SUBSET Preset]
  /\ blobs \subseteq Blobs
  /\ audit \subseteq Records \X Paths \X Values
  /\ request \in [Workers -> Request]
  /\ torn \subseteq Records
  /\ failed \in 0 .. Failures

Init ==
  /\ rec = [r \in Records |-> Unborn]
  /\ presets = [r \in Records |-> {}]
  /\ blobs = {} /\ audit = {} /\ torn = {} /\ last = None /\ failed = 0
  /\ request = [w \in Workers |-> Idle]

-----------------------------------------------------------------------------
(* Sessions. *)

Live(r) == rec[r].state = "live"
At(w, stage) == request[w].stage = stage
Continue(w, r) == request' = [request EXCEPT ![w] = r]

Overlay(row, p) ==
  [row EXCEPT !.section = IF p.section = None THEN @ ELSE p.section,
              !.canon   = IF p.canon = None THEN @ ELSE p.canon,
              !.link    = IF p.link = None THEN @ ELSE p.link,
              !.version = IF p.version = None THEN @ ELSE p.version]

\* A row as the session of w sees it: attributes expire with a commit only.
Row(w, r) ==
  Overlay(IF request[w].seen = None THEN rec[r] ELSE request[w].seen[r], request[w].pend[r])

\* A deleted record is missed only when its attributes are loaded again.
Reachable(w, r) == Live(r) \/ request[w].seen # None

\* The flush of a row that is gone raises StaleDataError.
CanFlush(w) == \A r \in Records : request[w].pend[r] # Clean => Live(r)

Flushed(w) == [r \in Records |-> Overlay(rec[r], request[w].pend[r])]

\* Records on which this flush overwrites what it never saw.
Overwritten(w) ==
  {r \in Records : LET p == request[w].pend[r] IN
     \/ p.canon # None /\ rec[r].canon # p.base
     \/ p.version # None /\ rec[r].version + 1 # p.version}

\* A commit of w: rows and history; the request goes on as s.
Commit(w, rows, s) ==
  /\ CanFlush(w)
  /\ rec' = rows
  /\ torn' = torn \cup Overwritten(w)
  /\ request' = [request EXCEPT ![w] =
                   [s EXCEPT !.seen = None]]

\* Somebody else writes: no batch is a repetition any more.
Disturbed == [w \in Workers |-> [request[w] EXCEPT !.quiet = FALSE, !.again = FALSE]]

-----------------------------------------------------------------------------
(* The batch door. *)

WithoutPresets(b) == \A n \in DOMAIN b : b[n].presets = <<>>
Repeats(b, can) == last = <<b, can>> /\ WithoutPresets(b)

StartBatch(w, b, can) ==
  /\ At(w, "idle")
  /\ b = <<>> \/ Repeats(b, can) \/ \A r \in Records : rec[r].version < MaxVersion
  /\ LET mine == {r \in Records : Live(r)} IN
     Continue(w, [Idle EXCEPT
       !.stage = "item", !.batch = b, !.can = can, !.todo = b, !.known = mine,
       !.index = [i \in ItemIds |-> {r \in mine : rec[r].section.item = i}],
       !.seen = rec, !.quiet = TRUE,
       !.again = Repeats(b, can)])
  /\ last' = None
  /\ UNCHANGED <<rec, presets, blobs, audit, torn, failed>>

Item(w) == Head(request[w].todo)
NextItem(s) ==
  [s EXCEPT !.stage = "item", !.todo = Tail(@), !.row = None, !.asserts = <<>>,
            !.presets = <<>>, !.canon = None, !.base = None,
            !.changed = FALSE, !.applied = FALSE, !.contributed = FALSE]

Targets(w, i) ==
  IF i.id # None THEN request[w].known \cap {i.id}
  ELSE IF i.item # None THEN request[w].index[i.item] ELSE {}

\* The assert guards run before the first write of the item.
GuardsPass(i) == \A n \in DOMAIN i.asserts : i.asserts[n].path \notin Derived

MayCreate(w, i) == request[w].can /\ i.id = None /\ i.item # None /\ Targets(w, i) = {}

\* Mutant of Opened: an item whose section did not change is done.
OpenedIfChanged(w, r, s, canon, changed) ==
  [s EXCEPT !.stage = "assert", !.row = r, !.changed = changed,
            !.canon = canon, !.base = canon,
            !.asserts = IF s.can /\ changed THEN Item(w).asserts ELSE <<>>,
            !.presets = IF s.can THEN Item(w).presets ELSE <<>>]

\* The item's record is resolved; its asserts and presets need the assert door.
Opened(w, r, s, canon, changed) ==
  [s EXCEPT !.stage = "assert", !.row = r, !.changed = changed,
            !.canon = canon, !.base = canon,
            !.asserts = IF s.can THEN Item(w).asserts ELSE <<>>,
            !.presets = IF s.can THEN Item(w).presets ELSE <<>>]

\* An item error: unknown or ambiguous target, a guard, or no right to create.
SkipItem(w) ==
  /\ At(w, "item") /\ request[w].todo # <<>>
  /\ \/ ~GuardsPass(Item(w))
     \/ Cardinality(Targets(w, Item(w))) # 1 /\ ~MayCreate(w, Item(w))
  /\ Continue(w, NextItem(request[w]))
  /\ UNCHANGED <<rec, presets, blobs, audit, torn, last, failed>>

\* Mutant of Indexed: by_item stays as it was at the start.
IndexedAtStart(s, r, i) == [s EXCEPT !.known = @ \cup {r}]

Indexed(s, r, i) == [s EXCEPT !.known = @ \cup {r}, !.index[i] = @ \cup {r}]

\* A new record; the CREATE audit row commits it with the client's section.
CreateItem(w) ==
  LET i == Item(w)
      s == [request[w] EXCEPT !.pend = [q \in Records |-> Clean]] IN
  /\ At(w, "item") /\ request[w].todo # <<>>
  /\ GuardsPass(i) /\ MayCreate(w, i)
  /\ \E r \in Records :
       /\ rec[r] = Unborn
       /\ Commit(w, [Flushed(w) EXCEPT ![r] = New([data |-> i.data, item |-> i.item])],
                 Opened(w, r, Indexed(s, r, i.item), Blank, TRUE))
  /\ UNCHANGED <<presets, blobs, audit, last, failed>>

\* The client's own section: a changed payload commits with its SYNC audit row,
\* an equal one only refreshes the envelope.
WriteSection(w) ==
  LET i == Item(w)
      section == [data |-> i.data, item |-> i.item] IN
  /\ At(w, "item") /\ request[w].todo # <<>>
  /\ GuardsPass(i)
  /\ \E r \in Targets(w, i) :
       /\ Targets(w, i) = {r} /\ Reachable(w, r)
       /\ \/ /\ Row(w, r).section.data # i.data /\ Live(r)
             /\ LET rows == [Flushed(w) EXCEPT ![r].section = section] IN
                Commit(w, rows, Opened(w, r,
                  [request[w] EXCEPT !.pend = [q \in Records |-> Clean]],
                  rows[r].canon, TRUE))
          \/ /\ Row(w, r).section.data = i.data
             /\ Continue(w, Opened(w, r,
                  IF Row(w, r).section = section THEN request[w]
                  ELSE [request[w] EXCEPT !.pend[r].section = section],
                  Row(w, r).canon, FALSE))
             /\ UNCHANGED <<rec, torn>>
  /\ UNCHANGED <<presets, blobs, audit, last, failed>>

\* is_same_value_noop, on the local copy.
SameValue(s, e) == s.canon.leaf[e.path] = e.value

\* One assert: the same value is a no-op, a path outside the contract fails the
\* item, anything else commits its audit row now and its effect later.
AssertOne(w) ==
  LET s == request[w]
      e == Head(s.asserts)
      r == s.row IN
  /\ At(w, "assert") /\ s.asserts # <<>>
  /\ \/ /\ e.path \in Unknown
        /\ Continue(w, NextItem(s))
        /\ UNCHANGED <<rec, torn, audit>>
     \/ /\ e.path \in Paths /\ SameValue(s, e)
        /\ Continue(w, [s EXCEPT !.asserts = Tail(@)])
        /\ UNCHANGED <<rec, torn, audit>>
     \/ /\ e.path \in Paths /\ ~SameValue(s, e) /\ Live(r)
        /\ Commit(w, Flushed(w),
             [s EXCEPT !.asserts = Tail(@), !.applied = TRUE,
                       !.canon.leaf[e.path] = e.value,
                       !.pend = [q \in Records |->
                         IF q = r /\ e.path = LinkPath
                         THEN [Clean EXCEPT !.link = e.value] ELSE Clean]])
        /\ audit' = audit \cup {<<r, e.path, e.value>>}
  /\ UNCHANGED <<presets, blobs, last, failed>>

Bumps(s) == s.changed \/ s.applied

\* All asserts done: canonical and version are assigned, and flushed later.
CloseAsserts(w) ==
  LET s == request[w]
      p == s.pend[s.row]
      q == [p EXCEPT !.canon = IF s.applied THEN s.canon ELSE @,
                     !.base = IF s.applied THEN s.base ELSE @,
                     !.version = IF Bumps(s) THEN Row(w, s.row).version + 1 ELSE @] IN
  /\ At(w, "assert") /\ s.asserts = <<>> /\ Reachable(w, s.row)
  /\ Continue(w, [s EXCEPT !.stage = "preset", !.canon = None, !.base = None,
                           !.pend[s.row] = q])
  /\ UNCHANGED <<rec, presets, blobs, audit, torn, last, failed>>

\* contribute: replace-own on (origin, label).
ReplaceOwn(rows, e) ==
  {p \in rows : p.key # e.key} \cup {[key |-> e.key, mark |-> e.mark]}

\* One contribution; its ASSERT audit row commits it before the union knows.
Contribute(w) ==
  LET s == request[w]
      e == Head(s.presets) IN
  /\ At(w, "preset") /\ s.presets # <<>>
  /\ \/ /\ e.mark = None
        /\ Continue(w, [s EXCEPT !.presets = Tail(@)])
        /\ UNCHANGED <<rec, torn, presets>>
     \/ /\ e.mark # None /\ Reachable(w, s.row)
        /\ Commit(w, Flushed(w),
             [s EXCEPT !.presets = Tail(@), !.contributed = TRUE,
                       !.pend = [q \in Records |-> Clean]])
        /\ presets' = [presets EXCEPT ![s.row] = ReplaceOwn(@, e)]
  /\ UNCHANGED <<blobs, audit, last, failed>>

\* materialize: the union is recomputed from the rows.
Materialized(row, entries) ==
  [row EXCEPT !.canon.union = entries, !.version = @ + 1]

\* The end of an item; the DERIVE audit row commits the union.
CloseItem(w) ==
  LET s == request[w] IN
  /\ At(w, "preset") /\ s.presets = <<>>
  /\ \/ /\ s.contributed /\ Live(s.row)
        /\ rec' = [Flushed(w) EXCEPT ![s.row] = Materialized(@, presets[s.row])]
        /\ CanFlush(w)
        /\ torn' = (torn \cup Overwritten(w)) \ {s.row}
        /\ Continue(w, [NextItem(s) EXCEPT !.pend = [q \in Records |-> Clean], !.seen = None])
     \/ /\ ~s.contributed
        /\ Continue(w, NextItem(s))
        /\ UNCHANGED <<rec, torn>>
  /\ UNCHANGED <<presets, blobs, audit, last, failed>>

\* The SYNC_BATCH audit row commits what is left.
FinishBatch(w) ==
  LET s == request[w] IN
  /\ At(w, "item") /\ s.todo = <<>>
  /\ Commit(w, Flushed(w), [Idle EXCEPT !.again = s.again])
  /\ last' = IF s.quiet THEN <<s.batch, s.can>> ELSE None
  /\ UNCHANGED <<presets, blobs, audit, failed>>

\* The database fails, or the session finds a record gone: everything that is
\* not committed is rolled back.
CutOff(w) ==
  LET s == request[w] IN
  /\ s.stage \notin {"idle", "upload"}
  /\ \/ failed < Failures /\ failed' = failed + 1
     \/ /\ \/ ~CanFlush(w)
           \/ s.row # None /\ ~Live(s.row)
           \/ At(w, "item") /\ s.todo # <<>> /\
              \/ \E r \in Targets(w, Item(w)) : ~Live(r)
              \/ MayCreate(w, Item(w)) /\ Unborn \notin {rec[r] : r \in Records}
        /\ UNCHANGED failed
  /\ torn' = IF s.contributed THEN torn \cup {s.row} ELSE torn
  /\ Continue(w, Idle)
  /\ UNCHANGED <<rec, presets, blobs, audit, last>>

-----------------------------------------------------------------------------
(* The single-record doors. *)

Grow(r) == Live(r) /\ rec[r].version < MaxVersion

Write(rows) ==
  /\ rec' = rows
  /\ request' = Disturbed
  /\ last' = None

CreateInstance ==
  /\ \E r \in Records : rec[r] = Unborn /\ Write([rec EXCEPT ![r] = New(NoSection)])
  /\ UNCHANGED <<presets, blobs, audit, torn, failed>>

DeleteInstance(r) ==
  /\ Live(r)
  /\ Write([rec EXCEPT ![r] = [Unborn EXCEPT !.state = "gone"]])
  /\ presets' = [presets EXCEPT ![r] = {}]
  /\ audit' = {a \in audit : a[1] # r} /\ torn' = torn \ {r}
  /\ UNCHANGED <<blobs, failed>>

\* The client names the item the record already carries.
WriteClientSection(r, data) ==
  /\ Grow(r)
  /\ Write([rec EXCEPT ![r].section.data = data, ![r].version = @ + 1])
  /\ UNCHANGED <<presets, blobs, audit, torn, failed>>

\* Mutant of SetLeaf: no audit row.
SetLeafUnaudited(r, p, v) ==
  /\ Write([rec EXCEPT ![r].canon.leaf[p] = v, ![r].version = @ + 1,
                       ![r].link = IF p = LinkPath THEN v ELSE @])
  /\ UNCHANGED audit

\* The leaf, its column and its audit row are one commit.
SetLeaf(r, p, v) ==
  /\ Write([rec EXCEPT ![r].canon.leaf[p] = v, ![r].version = @ + 1,
                       ![r].link = IF p = LinkPath THEN v ELSE @])
  /\ audit' = audit \cup {<<r, p, v>>}

AssertCanonical(r, p, v) ==
  /\ Grow(r) /\ rec[r].canon.leaf[p] # v
  /\ SetLeaf(r, p, v)
  /\ UNCHANGED <<presets, blobs, torn, failed>>

\* An observation is recorded even when it repeats the value.
ObserveCanonical(r, p, v) ==
  /\ Grow(r) /\ p \in Observable
  /\ SetLeaf(r, p, v)
  /\ UNCHANGED <<presets, blobs, torn, failed>>

\* contribute_preset, up to the commit of the contribution.
StartContribution(w, r, e) ==
  /\ At(w, "idle") /\ Grow(r) /\ e.mark # None
  /\ request' = [Disturbed EXCEPT ![w] = [Idle EXCEPT !.stage = "door", !.row = r,
                                                      !.contributed = TRUE]]
  /\ presets' = [presets EXCEPT ![r] = ReplaceOwn(@, e)]
  /\ last' = None
  /\ UNCHANGED <<rec, blobs, audit, torn, failed>>

FinishContribution(w) ==
  LET r == request[w].row IN
  /\ At(w, "door") /\ Live(r)
  /\ rec' = [rec EXCEPT ![r] = Materialized(@, presets[r])]
  /\ torn' = torn \ {r}
  /\ request' = [Disturbed EXCEPT ![w] = Idle]
  /\ last' = None
  /\ UNCHANGED <<presets, blobs, audit, failed>>

\* The delete is flushed after its own audit row, together with the union.
DeletePreset(r, p) ==
  /\ Live(r) /\ p \in presets[r]
  /\ presets' = [presets EXCEPT ![r] = @ \ {p}]
  /\ Write([rec EXCEPT ![r] = Materialized(@, presets'[r])])
  /\ torn' = torn \ {r}
  /\ UNCHANGED <<blobs, audit, failed>>

\* upload_media loads the record and awaits the bytes.
StartUpload(w, r) ==
  /\ At(w, "idle") /\ Grow(r)
  /\ Continue(w, [Idle EXCEPT !.stage = "upload", !.row = r, !.seen = rec])
  /\ UNCHANGED <<rec, presets, blobs, audit, torn, last, failed>>

\* The bytes are stored first; a role the contract does not know is a 400, and a
\* record that is gone a 500, with the bytes kept.
FinishUpload(w, b) ==
  LET r    == request[w].row
      seen == request[w].seen[r] IN
  /\ At(w, "upload")
  /\ blobs' = blobs \cup {b}
  /\ \/ /\ Live(r)
        /\ rec' = [rec EXCEPT ![r].canon = [seen.canon EXCEPT !.media = @ \cup {b}],
                              ![r].version = seen.version + 1]
        /\ torn' = IF rec[r] = seen THEN torn ELSE torn \cup {r}
     \/ UNCHANGED <<rec, torn>>
  /\ request' = [Disturbed EXCEPT ![w] = Idle]
  /\ last' = None
  /\ UNCHANGED <<presets, audit, failed>>

\* Mutant of BytesAfterDelete: the file is deleted with the reference.
BytesAfterDeleteUnlinked(b) == blobs \ {b}

\* remove_media leaves the bytes where they are: they may be shared.
BytesAfterDelete(b) == blobs

DeleteMedia(r, b) ==
  /\ Live(r) /\ b \in rec[r].canon.media
  /\ Write([rec EXCEPT ![r].canon.media = @ \ {b}, ![r].version = @ + 1])
  /\ blobs' = BytesAfterDelete(b)
  /\ UNCHANGED <<presets, audit, torn, failed>>

-----------------------------------------------------------------------------

Step(w) ==
  \/ SkipItem(w) \/ CreateItem(w) \/ WriteSection(w) \/ AssertOne(w) \/ CloseAsserts(w)
  \/ Contribute(w) \/ CloseItem(w) \/ FinishBatch(w) \/ CutOff(w)
  \/ FinishContribution(w)

Door ==
  \/ CreateInstance
  \/ \E r \in Records :
       \/ DeleteInstance(r)
       \/ \E data \in Data : WriteClientSection(r, data)
       \/ \E p \in Paths, v \in Values : AssertCanonical(r, p, v) \/ ObserveCanonical(r, p, v)
       \/ \E p \in Preset : DeletePreset(r, p)
       \/ \E b \in Blobs : DeleteMedia(r, b)

Next ==
  \/ Door
  \/ \E w \in Workers :
       \/ \E b \in Batches, can \in BOOLEAN : StartBatch(w, b, can)
       \/ \E r \in Records : StartUpload(w, r) \/ \E e \in PresetEntry : StartContribution(w, r, e)
       \/ \E b \in Blobs : FinishUpload(w, b)
       \/ Step(w)

Spec == Init /\ [][Next]_vars

-----------------------------------------------------------------------------
(* What holds for one batch at a time, with any single door between two of its *)
(* commits, and cut off anywhere.                                            *)

\* "One transaction per batch ... every guard rides along" (batch_sync.py:9-18):
\* no leaf reaches canonical, from any door and through any cut or stale copy,
\* without a committed ASSERT or OBSERVE row that names it.
AuditedCanon ==
  \A r \in Records, p \in Paths :
    Live(r) /\ rec[r].canon.leaf[p] # None => <<r, p, rec[r].canon.leaf[p]>> \in audit

\* The union on a record is exactly its contribution rows (presets.py:228-233):
\* between a contribution and its materialization it may lag, and after a cut
\* in between or a canonical written from a stale copy it needs the next one.
UnionMirrors ==
  \A r \in Records :
    /\ Live(r) /\ r \notin torn
    /\ \A w \in Workers : ~(request[w].contributed /\ request[w].row = r)
    => rec[r].canon.union = presets[r]

\* A media reference always has its bytes, although records share files, drop
\* references, and an upload stores first and refers later (api/_media.py:51-61).
MediaHasBytes == \A r \in Records : Live(r) => rec[r].canon.media \subseteq blobs

\* "The upsert is idempotent, retrying is safe" (batch_sync.py:20-22): however
\* batches repeat an item, are cut and sent again, one record carries it.
OneRecordPerItem ==
  \A i \in ItemIds : Cardinality({r \in Records : Live(r) /\ rec[r].section.item = i}) <= 1

\* A batch that finishes has applied all of its valid items, whatever an earlier
\* attempt that was cut off had already done (batch_sync.py:20-22).
FinishedMeansApplied ==
  last # None /\ last[2] =>
    \A n \in DOMAIN last[1] :
      LET i == last[1][n] IN
      /\ \A m \in DOMAIN i.asserts : i.asserts[m].path \in Paths
      /\ IF i.id = None THEN i.item # None ELSE Live(i.id)
      => \E r \in Records :
           /\ Live(r) /\ (IF i.id = None THEN rec[r].section.item = i.item ELSE r = i.id)
           /\ rec[r].section.data = i.data
           /\ \A m \in DOMAIN i.asserts :
                rec[r].canon.leaf[i.asserts[m].path] = i.asserts[m].value
           /\ \A m \in DOMAIN i.presets : i.presets[m].mark # None =>
                [key |-> i.presets[m].key, mark |-> i.presets[m].mark] \in rec[r].canon.union

\* "An item's `data` writes only the client's own section and NEVER influences
\* canonical" (batch_sync.py:12-13): no commit of a batch without the assert
\* door changes any canonical.
LaneDiscipline ==
  [][\A w \in Workers :
       Step(w) /\ request[w].batch # None /\ ~request[w].can
         => \A r \in Records : rec'[r].canon = rec[r].canon]_vars

\* Re-sending a batch that finished, when nothing has happened since, changes
\* nothing at all, version included; presets excepted, which are contributed
\* again (batch_sync.py:145-146 and docs/BATCH_SYNC.md, 2.4).
RetryIsIdempotent ==
  [][\A w \in Workers : request[w].again /\ request'[w].again => rec' = rec]_vars

\* A client that follows versions sees every change of canonical, in whichever
\* commit of a batch it lands (batch_sync.py:347-348); a stale write excepted.
VersionFollowsCanonical ==
  [][\A r \in Records :
       Live(r) /\ Live(r)' /\ rec'[r].canon # rec[r].canon
         => rec'[r].version > rec[r].version \/ r \in torn']_vars

-----------------------------------------------------------------------------
(* What the repository says and the code does not do. *)

\* "`catalog_type_id` mirrored to its side column" (docs/BATCH_SYNC.md:120):
\* when no request runs, the column and the canonical leaf agree.  An item whose
\* second assert is malformed leaves the column of the first one assigned.
LinkMirrorsCanonical ==
  (\A w \in Workers : At(w, "idle"))
    => \A r \in Records :
         Live(r) /\ r \notin torn => rec[r].link = rec[r].canon.leaf[LinkPath]
=============================================================================
