---------------------------- MODULE LegacyDoors ----------------------------
(***************************************************************************)
(* The bulk doors of the three older tables (api/tool_items.py,            *)
(* api/tool_assemblies.py, api/tool_instances.py) with the tag rules they  *)
(* share (auth/authorization.py, api/dependencies.py).                     *)
(*                                                                         *)
(* The item and instance handlers are plain functions and run on a thread  *)
(* pool.  A SELECT takes no lock, so a row may change between the version  *)
(* check and the flush of the same entry; from its first flush to its      *)
(* commit a request holds SQLite's write lock.  The assembly handlers are  *)
(* coroutines without an await: the one event loop runs each as one step.  *)
(***************************************************************************)
EXTENDS Naturals, FiniteSets, SequencesExt

CONSTANTS
  Items, Assemblies, Instances,  \* ids of rows in the three tables
  Users,                         \* callers with a browser session
  Keys,                          \* callers with an API key
  KeyUser, KeyTags,              \* the account and the tags of each key
  Tags, None,
  Drafts,      \* bodies of POST: sequences of [tags, parent]
  Changes,     \* bodies of PUT: sequences of [id, version, tags]
  Doomed,      \* bodies of DELETE: sequences of ids
  MaxVersion   \* bound: no update starts on a row of this version

Resources == Items \cup Assemblies \cup Instances
Callers == Users \cup Keys

ASSUME MaxVersionAssumption == MaxVersion \in Nat
ASSUME KeysAssumption ==
  /\ KeyUser \in [Keys -> Users]
  /\ KeyTags \in [Keys -> SUBSET Tags]

\* An item update may leave the version out; the other two must name it.
ItemChange == [id : Items, version : Nat \cup {None}, tags : {None} \cup SUBSET Tags]
InstanceChange == [id : Instances, version : Nat, tags : {None} \cup SUBSET Tags]
AssemblyChange == [id : Assemblies, version : Nat, tags : {None} \cup SUBSET Tags]
ItemDraft == [tags : SUBSET Tags, parent : Items \cup {None}]

ASSUME BodiesAssumption ==
  /\ Drafts \subseteq Seq(ItemDraft)
  /\ Changes \subseteq Seq(ItemChange) \cup Seq(InstanceChange) \cup Seq(AssemblyChange)
  /\ Doomed \subseteq Seq(Items) \cup Seq(Instances) \cup Seq(Assemblies)

\* An id names a row of one table.
ASSUME TablesAssumption ==
  /\ Items \cap Assemblies = {} /\ Items \cap Instances = {} /\ Assemblies \cap Instances = {}
  /\ None \notin Resources

VARIABLES
  row,      \* the three tables
  past,     \* history, read by no handler: what was acknowledged about a row
  request   \* what the session of each caller's request holds between two steps

vars == <<row, past, request>>

Row == [state : {"unborn", "live", "gone"}, owner : Users \cup {None},
        tags : SUBSET Tags, version : Nat]
Unborn == [state |-> "unborn", owner |-> None, tags |-> {}, version |-> 0]
Gone == [Unborn EXCEPT !.state = "gone"]

\* updates: how many were acknowledged; contended: one of them overwrote a row
\* that had changed since it was loaded; blind: one of them named a version
\* other than the one it replaced.
Past == [updates : Nat, contended : BOOLEAN, blind : BOOLEAN]
NoPast == [updates |-> 0, contended |-> FALSE, blind |-> FALSE]

Entry == [id : Resources, version : Nat \cup {None}, tags : {None} \cup SUBSET Tags,
          parent : Items \cup {None}]

\* What the open transaction of a session has made of the tables.
Draft == [row : [Resources -> Row], past : [Resources -> Past]]
ASSUME NoneAssumption == None \notin Draft

Request == [stage  : {"idle", "load", "flush"},
            op     : {"create", "update", "delete", "none"},
            todo   : Seq(Entry),
            hand   : Row \cup {None},           \* the object last loaded
            held   : Resources \cup {None},     \* and its id
            draft  : {None} \cup Draft]

Idle == [stage |-> "idle", op |-> "none", todo |-> <<>>,
         hand |-> None, held |-> None, draft |-> None]

TypeOK ==
  /\ row \in [Resources -> Row]
  /\ past \in [Resources -> Past]
  /\ request \in [Callers -> Request]

Init ==
  /\ row = [r \in Resources |-> Unborn]
  /\ past = [r \in Resources |-> NoPast]
  /\ request = [c \in Callers |-> Idle]

-----------------------------------------------------------------------------
(* Who reaches which row. *)

TagsOf(c) == IF c \in Keys THEN KeyTags[c] ELSE {}

\* Mutant of OwnerFor: what a key creates belongs to the key.
OwnerForCaller(c) == c

\* current_user is the account of the key.
OwnerFor(c) == IF c \in Keys THEN KeyUser[c] ELSE c

\* Mutant of TagAccess: every tag of the resource must be one of the key's.
TagAccessAll(keyTags, tags) == keyTags = {} \/ tags \subseteq keyTags

\* check_tag_access: no tags on either side means no restriction.
TagAccess(keyTags, tags) == keyTags = {} \/ tags = {} \/ keyTags \cap tags # {}

\* A key gives a row only tags of its own, if it has any.
MayGive(c, tags) == TagsOf(c) = {} \/ tags = None \/ tags \subseteq TagsOf(c)

\* The query of a bulk handler: a session finds its own rows, a key any row.
Found(c, r) == r.state = "live" /\ (c \in Keys \/ r.owner = c)

\* The checks of one entry of an update, in the three files.
ItemAccepts(c, r, e) ==
  /\ Found(c, r) /\ TagAccess(TagsOf(c), r.tags) /\ MayGive(c, e.tags)
  /\ e.version \in {None, r.version}
InstanceAccepts(c, r, e) ==
  /\ Found(c, r) /\ TagAccess(TagsOf(c), r.tags) /\ MayGive(c, e.tags)
  /\ e.version = r.version
AssemblyAccepts(c, r, e) ==
  /\ Found(c, r) /\ TagAccess(TagsOf(c), r.tags) /\ MayGive(c, e.tags)
  /\ e.version = r.version

\* The checks of one entry of a delete.
ItemDeletable(c, r) == Found(c, r) /\ TagAccess(TagsOf(c), r.tags)
InstanceDeletable(c, r) == Found(c, r) /\ TagAccess(TagsOf(c), r.tags)
AssemblyDeletable(c, r) == Found(c, r) /\ TagAccess(TagsOf(c), r.tags)

\* The list doors: a tagged key sees only rows that share a tag with it.
Shares(c, r) == TagsOf(c) = {} \/ TagsOf(c) \cap row[r].tags # {}
ListedItems(c) == {r \in Items : Found(c, row[r]) /\ Shares(c, r)}
ListedInstances(c) == {r \in Instances : Found(c, row[r]) /\ Shares(c, r)}
ListedAssemblies(c) == {r \in Assemblies : Found(c, row[r]) /\ Shares(c, r)}

\* The dependency of the get doors, and each door.
TagDependency(c, r) == TagAccess(TagsOf(c), row[r].tags)
ReadsItem(c, r) == TagDependency(c, r) /\ Found(c, row[r])
ReadsInstance(c, r) == TagDependency(c, r) /\ Found(c, row[r])
ReadsAssembly(c, r) == TagDependency(c, r) /\ Found(c, row[r])

-----------------------------------------------------------------------------
(* The thread-pool handlers, entry by entry; bound: one request of a caller at
   a time. *)

At(c, stage) == request[c].stage = stage
Continue(c, r) == request' = [request EXCEPT ![c] = r]

\* What the statements of c read: its open transaction, else what is committed.
View(c) ==
  IF request[c].draft = None THEN [row |-> row, past |-> past] ELSE request[c].draft

HasLock(c) == request[c].draft # None
LockFree(c) == \A v \in Callers \ {c} : ~HasLock(v)

\* A uuid nobody uses yet.
Fresh(id) ==
  \A v \in Callers : /\ View(v).row[id].state = "unborn"
                     /\ \A n \in DOMAIN request[v].todo : request[v].todo[n].id # id

Start(c, op, entries) ==
  /\ At(c, "idle")
  /\ Continue(c, [Idle EXCEPT !.stage = "load", !.op = op, !.todo = entries])
  /\ UNCHANGED <<row, past>>

\* One new id for each entry of a POST.
Named(d, Table) ==
  {[n \in DOMAIN d |-> [id |-> ids[n], version |-> None, tags |-> d[n].tags,
                        parent |-> d[n].parent]] :
     ids \in {f \in [DOMAIN d -> {id \in Table : Fresh(id)}] : IsInjective(f)}}

CreateItems(c, d) == \E entries \in Named(d, Items) : Start(c, "create", entries)

\* An instance has no parent; its assembly_id is not followed.
CreateInstances(c, d) ==
  /\ \A n \in DOMAIN d : d[n].parent = None
  /\ \E entries \in Named(d, Instances) : Start(c, "create", entries)

\* PUT and PATCH of entries that all name rows of this table.
UpdateRows(c, b) ==
  /\ \A n \in DOMAIN b : row[b[n].id].version < MaxVersion
  /\ Start(c, "update",
       [n \in DOMAIN b |-> [id |-> b[n].id, version |-> b[n].version,
                            tags |-> b[n].tags, parent |-> None]])
UpdateItems(c, b) == (\A n \in DOMAIN b : b[n].id \in Items) /\ UpdateRows(c, b)
UpdateInstances(c, b) ==
  (\A n \in DOMAIN b : b[n].id \in Instances) /\ UpdateRows(c, b)

DeleteRows(c, d) ==
  Start(c, "delete",
    [n \in DOMAIN d |-> [id |-> d[n], version |-> None, tags |-> None, parent |-> None]])
DeleteItems(c, d) == (\A n \in DOMAIN d : d[n] \in Items) /\ DeleteRows(c, d)
DeleteInstances(c, d) == (\A n \in DOMAIN d : d[n] \in Instances) /\ DeleteRows(c, d)

\* The row a create inserts: an item takes the tags of its parent if it brings
\* none, and a parent that is gone fails the entry.
NewItem(c, e) ==
  LET parent == View(c).row[e.parent] IN
  [state |-> "live", owner |-> OwnerFor(c), version |-> 1,
   tags |-> IF e.tags = {} /\ e.parent # None THEN parent.tags ELSE e.tags]
ParentMissing(c, e) == e.parent # None /\ View(c).row[e.parent].state # "live"

\* The object an entry gets: the session still holds the one of the entry
\* before, and a second SELECT of it does not refresh its attributes.
Loaded(c, id) == IF request[c].held = id THEN request[c].hand ELSE View(c).row[id]

Passes(c, e) ==
  LET r == request[c]
      o == Loaded(c, e.id) IN
  CASE r.op = "create" -> MayGive(c, e.tags) /\ ~ParentMissing(c, e)
    [] r.op = "update" -> /\ View(c).row[e.id].state = "live"
                          /\ IF e.id \in Items THEN ItemAccepts(c, o, e)
                                               ELSE InstanceAccepts(c, o, e)
    [] r.op = "delete" -> /\ View(c).row[e.id].state = "live"
                          /\ IF e.id \in Items THEN ItemDeletable(c, o)
                                               ELSE InstanceDeletable(c, o)

\* An entry is loaded and checked; one that does not pass is an error in the
\* answer and the loop goes on.
LoadEntry(c) ==
  LET r == request[c]
      e == Head(r.todo)
      o == IF r.op = "create" THEN NewItem(c, e) ELSE Loaded(c, e.id)
      seen == [r EXCEPT !.hand = IF View(c).row[e.id].state = "live" THEN o ELSE None,
                        !.held = IF View(c).row[e.id].state = "live" THEN e.id ELSE None] IN
  /\ At(c, "load")
  /\ r.todo # <<>>
  /\ Continue(c, IF Passes(c, e) THEN [seen EXCEPT !.stage = "flush", !.hand = o, !.held = e.id]
                                 ELSE [seen EXCEPT !.todo = Tail(@)])
  /\ UNCHANGED <<row, past>>

\* Mutant of Changed: tags alone are no reason for a new version.
ChangedQuietly(r, loaded, e) ==
  [r EXCEPT !.tags = IF e.tags \in {None, loaded.tags} THEN @ ELSE e.tags,
            !.version = IF e.tags = None THEN loaded.version + 1 ELSE @]

\* UPDATE writes the columns that differ from the object as it was loaded.
Changed(r, loaded, e) ==
  [r EXCEPT !.version = loaded.version + 1,
            !.tags = IF e.tags \in {None, loaded.tags} THEN @ ELSE e.tags]

Acknowledged(p, r, loaded, e) ==
  [updates |-> p.updates + 1, contended |-> p.contended \/ r # loaded,
   blind |-> p.blind \/ e.version \notin {None, r.version}]

\* An UPDATE that matches no row raises StaleDataError.
RowMissing(r) == r.state # "live"

\* The flush of one entry, with the write lock.
FlushEntry(c) ==
  LET r  == request[c]
      e  == Head(r.todo)
      id == e.id
      v  == View(c)
      done(x, o) == [r EXCEPT !.stage = "load", !.todo = Tail(@), !.draft = x, !.hand = o] IN
  /\ At(c, "flush") /\ LockFree(c)
  /\ \/ /\ r.op = "create"
        /\ Continue(c, done([v EXCEPT !.row[id] = r.hand], r.hand))
     \/ /\ r.op = "update" /\ ~RowMissing(v.row[id])
        /\ Continue(c, done([row  |-> [v.row EXCEPT ![id] = Changed(@, r.hand, e)],
                             past |-> [v.past EXCEPT ![id] =
                                         Acknowledged(@, v.row[id], r.hand, e)]],
                            Changed(r.hand, r.hand, e)))
     \/ /\ r.op = "delete"   \* matching no row is only a warning
        /\ Continue(c, done([row  |-> [v.row EXCEPT ![id] = Gone],
                             past |-> [v.past EXCEPT ![id] = NoPast]], r.hand))
  /\ UNCHANGED <<row, past>>

\* Mutant of FailFlush: the entry is tried again.
FailFlushRetries(c) ==
  /\ At(c, "flush")
  /\ \/ ~LockFree(c)
     \/ request[c].op = "update" /\ RowMissing(View(c).row[Head(request[c].todo).id])
  /\ UNCHANGED vars

\* A failed flush (the row is gone, or the lock stayed taken for the whole busy
\* timeout) ends the transaction; every later statement of the session raises
\* and nothing of the request is kept.
FailFlush(c) ==
  /\ At(c, "flush")
  /\ \/ ~LockFree(c)
     \/ request[c].op = "update" /\ RowMissing(View(c).row[Head(request[c].todo).id])
  /\ Continue(c, Idle)
  /\ UNCHANGED <<row, past>>

\* All entries are done: commit what was flushed, or roll back if nothing was.
Answer(c) ==
  /\ At(c, "load")
  /\ request[c].todo = <<>>
  /\ row' = View(c).row
  /\ past' = View(c).past
  /\ Continue(c, Idle)

-----------------------------------------------------------------------------
(* The coroutines of the assemblies. *)

NobodyWrites == \A v \in Callers : ~HasLock(v)

CreateAssemblies(c, d) ==
  /\ NobodyWrites
  /\ \E entries \in Named(d, Assemblies) :
       LET made == {e \in ToSet(entries) : MayGive(c, e.tags)}
           new(r) == CHOOSE e \in made : e.id = r IN
       row' = [r \in Resources |->
                 IF \E e \in made : e.id = r
                   THEN [state |-> "live", owner |-> OwnerFor(c), tags |-> new(r).tags, version |-> 1]
                   ELSE row[r]]
  /\ \A n \in DOMAIN d : d[n].parent = None
  /\ UNCHANGED <<past, request>>

\* The first pass checks every entry, the second applies those that passed: an
\* id named twice passes twice, the last tags stay, and all but the first
\* replace a version that they did not name.
UpdateAssemblies(c, b) ==
  LET passed(r) == {n \in DOMAIN b : b[n].id = r /\ AssemblyAccepts(c, row[r], b[n])}
      retags(r) == {n \in passed(r) : b[n].tags # None}
      last(r) == CHOOSE n \in retags(r) : \A m \in retags(r) : m <= n IN
  /\ NobodyWrites
  /\ \A n \in DOMAIN b : b[n].id \in Assemblies /\ row[b[n].id].version < MaxVersion
  /\ row' = [r \in Resources |->
               [row[r] EXCEPT !.version = @ + Cardinality(passed(r)),
                              !.tags = IF retags(r) = {} THEN @ ELSE b[last(r)].tags]]
  /\ past' = [r \in Resources |->
               [past[r] EXCEPT !.updates = @ + Cardinality(passed(r)),
                               !.blind = @ \/ Cardinality(passed(r)) > 1]]
  /\ UNCHANGED request

DeleteAssemblies(c, d) ==
  /\ NobodyWrites
  /\ \A n \in DOMAIN d : d[n] \in Assemblies
  /\ LET dead == {r \in ToSet(d) : AssemblyDeletable(c, row[r])} IN
       /\ row' = [r \in Resources |-> IF r \in dead THEN Gone ELSE row[r]]
       /\ past' = [r \in Resources |-> IF r \in dead THEN NoPast ELSE past[r]]
  /\ UNCHANGED request

-----------------------------------------------------------------------------

Accept(c) ==
  \/ \E d \in Drafts : CreateItems(c, d) \/ CreateInstances(c, d)
  \/ \E b \in Changes : UpdateItems(c, b) \/ UpdateInstances(c, b)
  \/ \E d \in Doomed : DeleteItems(c, d) \/ DeleteInstances(c, d)

Step(c) == LoadEntry(c) \/ FlushEntry(c) \/ FailFlush(c) \/ Answer(c)

Loop ==
  \E c \in Callers :
    \/ \E d \in Drafts : CreateAssemblies(c, d)
    \/ \E b \in Changes : UpdateAssemblies(c, b)
    \/ \E d \in Doomed : DeleteAssemblies(c, d)

Next == Loop \/ \E c \in Callers : Accept(c) \/ Step(c)

\* Threads are scheduled and a wait for the lock ends with the busy timeout.
Fairness == \A c \in Callers : WF_vars(Step(c))

Spec == Init /\ [][Next]_vars /\ Fairness

-----------------------------------------------------------------------------

\* "version starts at 1", "must be incremented manually" (database/schema.py:
\* 46-48): over any sequence of bulk requests, by sessions and keys, a row's
\* version counts its acknowledged updates, unless one of them overwrote a row
\* that had changed under it.  Assemblies are never overwritten so.
VersionCountsUpdates ==
  \A r \in Resources :
    /\ row[r].state = "live" /\ ~past[r].contended => row[r].version = 1 + past[r].updates
    /\ r \in Assemblies => ~past[r].contended

\* Optimistic locking where no such race happens: an update that names a
\* version, sent one entry to a row or through a door that checks each entry
\* after the one before, replaces that version (api/tool_items.py:472).
ClaimsAreCurrent ==
  \A r \in Items \cup Instances : ~past[r].contended => ~past[r].blind

\* A delete is final: an update that loaded the row before it and reaches its
\* flush after it is never acknowledged (api/tool_items.py:507-518, 580-583).
DeletedStaysDeleted ==
  [][\A r \in Resources :
       row[r].state = "gone" => row'[r] = row[r] /\ past'[r] = past[r]]_vars

\* Two rules written apart agree: what the list doors show a caller, the get
\* door of the table lets it read (api/tool_items.py:308-326, 364-376; the
\* getters of api/dependencies.py:117-140), however rows are tagged and retagged.
ListedCanBeRead ==
  \A c \in Callers :
    /\ \A r \in ListedItems(c) : ReadsItem(c, r)
    /\ \A r \in ListedInstances(c) : ReadsInstance(c, r)
    /\ \A r \in ListedAssemblies(c) : ReadsAssembly(c, r)

\* Every bulk request is answered: waiting for the write lock ends, whoever
\* holds it, and a failed flush does not leave the handler stuck.
EveryRequestEnds == \A c \in Callers : ~At(c, "idle") ~> At(c, "idle")

-----------------------------------------------------------------------------
(* What the repository says and the code does not do. *)

\* "Check version for optimistic locking (if version provided)"
\* (api/tool_items.py:472): no acknowledged update of an item names a version
\* other than the one it replaced.
OptimisticLocking == \A r \in Items : ~past[r].blind
=============================================================================
