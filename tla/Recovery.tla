------------------------------ MODULE Recovery ------------------------------
(***************************************************************************)
(* What happens to an account's data as a whole: the demo that is seeded   *)
(* into it, the reset that empties it, the backups and the account export  *)
(* that read it and the import that replaces it.  api/account.py,          *)
(* backup.py and api/backup_api.py.                                        *)
(*                                                                         *)
(* A reset, an import and the clean-up of a failed seed are one            *)
(* transaction each.  The doors that make and delete rows read first and   *)
(* commit later, a seed replays such doors, and an export reads one table  *)
(* after the other; all of them can be overtaken.  Ids are never used      *)
(* twice, so a backup is a set of ids.  What is in a row is left out, and  *)
(* with it what it refers to.  A record stands for every record but the    *)
(* table entries, a setup for what a reset deletes and a backup leaves out *)
(* (catalogs too), a label for what neither touches.                       *)
(***************************************************************************)
EXTENDS Naturals, FiniteSets, Sequences, SequencesExt

CONSTANTS
  Users,        \* ids of accounts
  Ids,          \* of rows; bound: what needs a fresh one waits for none
  Workers, None, All,
  Revision,     \* the schema revision of this server
  MaxRequests,  \* bound: requests that clients send
  MaxFiles,     \* bound: exports that are kept
  MaxRestarts   \* bound: restarts of the process

ASSUME BoundsAssumption ==
  /\ Revision \in Nat \ {0} /\ MaxRequests \in Nat /\ MaxFiles \in Nat /\ MaxRestarts \in Nat
  /\ All \notin Users /\ None \notin Users \cup Ids

VARIABLES
  accounts,  \* the accounts there are
  known,     \* ids of accounts that were given
  row,       \* what each row is, once it was made
  live,      \* the rows there are
  files,     \* exports that were downloaded
  request,   \* what each worker's handler holds between two steps
  seeds,     \* history: seeds that were started
  marred,    \* history: seeds that were cut off, or whose rows something else removed
             \* or brought back
  replaced,  \* history: rows that an import has removed or a reset has
  sent, restarts

vars == <<accounts, known, row, live, files, request, seeds, marred, replaced, sent, restarts>>

Tables == {"record", "entry", "setup", "label", "key"}
ToolTables == {"record", "entry", "setup"}               \* account.py _TOOL_DATA_MODELS
BackupTables == <<"record", "entry", "key">>             \* backup.py ENTITY_ORDER
ZipTables == <<"record", "entry", "label">>              \* account.py export_account

DeletableTables == {"record", "entry", "setup", "label"}

Row == [table : Tables, owner : Users, seed : 0..MaxRequests]
\* A row that was not made is none of those that were.
ASSUME NoneAssumption == None \notin Row

File == [kind : {"backup", "zip"}, scope : Users \cup {All}, revision : Nat,
         accounts : SUBSET Users, rows : SUBSET Ids,
         stayed : SUBSET Ids]   \* history: rows that were there from start to end
NoFile == [kind |-> "backup", scope |-> All, revision |-> 0, accounts |-> {}, rows |-> {},
           stayed |-> {}]

DemoSize == 3   \* rows of the demo: a record, a setup and an entry

Request == [stage : {"idle", "create", "delete", "seed", "export"},
            user  : Users \cup {None}, seed : 0..MaxRequests,
            held  : SUBSET Ids,  \* demo rows that were made; rows that a delete has loaded
            before : SUBSET Ids, \* history: the rows there were when it started
            file  : File,        \* the export so far
            next  : Seq(Tables)] \* tables to read
Idle == [stage |-> "idle", user |-> None, seed |-> 0, held |-> {}, before |-> {}, file |-> NoFile,
         next |-> <<>>]

TypeOK ==
  /\ accounts \subseteq known /\ known \subseteq Users
  /\ row \in [Ids -> Row \cup {None}]
  /\ \A i \in live : row[i] # None
  /\ \A f \in files : f \in File
  /\ request \in [Workers -> Request]
  /\ seeds \in 0..MaxRequests /\ marred \subseteq 1..seeds
  /\ replaced \subseteq Ids
  /\ sent \in 0..MaxRequests /\ restarts \in 0..MaxRestarts

Init ==
  /\ accounts \in SUBSET Users \ {{}} /\ known = accounts
  /\ row = [i \in Ids |-> None] /\ live = {} /\ files = {}
  /\ request = [w \in Workers |-> Idle]
  /\ seeds = 0 /\ marred = {} /\ replaced = {} /\ sent = 0 /\ restarts = 0

-----------------------------------------------------------------------------

At(w, stage) == request[w].stage = stage
Send == sent < MaxRequests /\ sent' = sent + 1 /\ UNCHANGED restarts

RowsIn(tables, owners) == {i \in live : row[i].table \in tables /\ row[i].owner \in owners}
Owners(scope) == IF scope = All THEN Users ELSE {scope}
ToolData(u) == RowsIn(ToolTables, {u})
SeedRows(s) == {i \in Ids : row[i] # None /\ row[i].seed = s}
InFlight == {request[w].seed : w \in {x \in Workers : At(x, "seed")}}

\* Others see rows go while they export.
Notice(w, r, removed) ==
  request' = [x \in Workers |->
    IF x = w THEN r
    ELSE IF At(x, "export") THEN [request[x] EXCEPT !.file.stayed = @ \ removed]
    ELSE request[x]]
\* A seed is marred by whoever removes or brings back rows of it.
Marred(rows, but) == {row[i].seed : i \in rows} \ {0, but}

\* A registration, of which Accounts has the details.
Register(u) ==
  /\ u \notin known /\ known' = known \cup {u} /\ accounts' = accounts \cup {u} /\ Send
  /\ UNCHANGED <<row, live, files, request, seeds, marred, replaced>>

\* A door that makes or deletes a row authenticates its caller and reads what it needs,
\* then commits; a reset, an import or another door may come between.
StartCreate(w, u) ==
  /\ At(w, "idle") /\ u \in accounts /\ Send
  /\ request' = [request EXCEPT ![w] = [Idle EXCEPT !.stage = "create", !.user = u]]
  /\ UNCHANGED <<accounts, known, row, live, files, seeds, marred, replaced>>

Make(w, r, made) ==
  /\ \A i \in DOMAIN made : row[i] = None
  /\ row' = [i \in Ids |-> IF i \in DOMAIN made THEN made[i] ELSE row[i]]
  /\ live' = live \cup DOMAIN made
  /\ Notice(w, r, {})

\* The owner is the caller, who may be no account any more.
CreateRow(w, i, table) ==
  /\ At(w, "create")
  /\ Make(w, Idle, [x \in {i} |-> [table |-> table, owner |-> request[w].user, seed |-> 0]])
  /\ UNCHANGED <<accounts, known, files, seeds, marred, replaced, sent, restarts>>

\* _owned finds the row; an instance goes with its labels, a machine with its entries,
\* a snapshot drops the entries that it does not name.  Setups are only ended, the
\* catalogs that stand with them are deleted.
StartDelete(w, u, rows) ==
  /\ At(w, "idle") /\ u \in accounts /\ Send
  /\ rows # {} /\ rows \subseteq RowsIn(DeletableTables, {u})
  /\ request' = [request EXCEPT ![w] = [Idle EXCEPT !.stage = "delete", !.user = u, !.held = rows]]
  /\ UNCHANGED <<accounts, known, row, live, files, seeds, marred, replaced>>

RemoveRows(w, r, rows, but) ==
  /\ live' = live \ rows
  /\ Notice(w, r, rows)
  /\ marred' = marred \cup Marred(rows, but)
  /\ replaced' = replaced \cup rows

\* Each audit row commits what was deleted so far, so that rows go some at a time.  What
\* is gone by then is deleted again to no effect, what came back goes too.
DeleteRows(w, rows) ==
  /\ At(w, "delete") /\ rows # {} /\ rows \subseteq request[w].held
  /\ RemoveRows(w, [request[w] EXCEPT !.held = @ \ rows], rows \cap live, 0)
  /\ UNCHANGED <<accounts, known, row, files, seeds, sent, restarts>>

\* A door that refuses, fails or is done leaves what it has committed.
EndDoor(w) ==
  /\ At(w, "create") \/ At(w, "delete")
  /\ request' = [request EXCEPT ![w] = Idle]
  /\ UNCHANGED <<accounts, known, row, live, files, seeds, marred, replaced, sent, restarts>>

\* _delete_all_tool_data
DeletedByReset(u) == ToolData(u)
ResetAccount(w, u) ==
  /\ At(w, "idle") /\ u \in accounts /\ Send
  /\ RemoveRows(w, Idle, DeletedByReset(u), 0)
  /\ UNCHANGED <<accounts, known, row, files, seeds>>

-----------------------------------------------------------------------------
(* The demo.                                                               *)

\* Mutant of HasToolData: the account is not looked at.
NeverHasToolData(u) == FALSE
HasToolData(u) == ToolData(u) # {}

StartSeed(w, u) ==
  /\ At(w, "idle") /\ u \in accounts /\ Send
  /\ ~HasToolData(u)
  /\ seeds' = seeds + 1
  /\ request' = [request EXCEPT ![w] =
       [Idle EXCEPT !.stage = "seed", !.user = u, !.seed = seeds + 1, !.before = live]]
  /\ UNCHANGED <<accounts, known, row, live, files, marred, replaced>>

\* Mutant of DemoRow: a row that no door makes is made without its owner.
DemoRowUnowned(w, table) ==
  [table |-> table, owner |-> IF table = "setup" THEN None ELSE request[w].user,
   seed |-> request[w].seed]
DemoRow(w, table) == [table |-> table, owner |-> request[w].user, seed |-> request[w].seed]

\* The doors for the machine, the types, the tools and the set commit one by one; one
\* record stands for them.
SeedRecords(w, i) ==
  /\ At(w, "seed") /\ request[w].held = {}
  /\ Make(w, [request[w] EXCEPT !.held = {i}], [x \in {i} |-> DemoRow(w, "record")])
  /\ UNCHANGED <<accounts, known, files, seeds, marred, replaced, sent, restarts>>

\* The setup is flushed, and committed by the push of the table.
SeedTable(w, i, j) ==
  LET r == request[w] IN
  /\ At(w, "seed") /\ Cardinality(r.held) = 1 /\ i # j
  /\ Make(w, [r EXCEPT !.held = @ \cup {i, j}],
          [x \in {i, j} |-> DemoRow(w, IF x = i THEN "setup" ELSE "entry")])
  /\ UNCHANGED <<accounts, known, files, seeds, marred, replaced, sent, restarts>>

SeedFinish(w) ==
  /\ At(w, "seed") /\ Cardinality(request[w].held) = DemoSize
  /\ request' = [request EXCEPT ![w] = Idle]
  /\ UNCHANGED <<accounts, known, row, live, files, seeds, marred, replaced, sent, restarts>>

\* Mutant of DeletedByFailure: only what is not committed is rolled back.
RolledBack(w) == {}
\* A door fails, for whatever reason: all of the caller's tool data is deleted.
DeletedByFailure(w) == ToolData(request[w].user)
SeedFail(w) ==
  LET r == request[w] IN
  /\ At(w, "seed") /\ Cardinality(r.held) < DemoSize
  /\ RemoveRows(w, Idle, DeletedByFailure(w), r.seed)
  /\ UNCHANGED <<accounts, known, row, files, seeds, sent, restarts>>

-----------------------------------------------------------------------------
(* Exports and imports.                                                    *)

TablesOf(kind) == IF kind = "backup" THEN BackupTables ELSE ZipTables
Covered(kind, scope) == RowsIn(ToSet(TablesOf(kind)), Owners(scope))

\* export_backup reads the accounts first; a backup of one account is made by scripts,
\* no door makes one.  The account export is of one account.
StartExport(w, kind, scope) ==
  /\ At(w, "idle") /\ accounts # {} /\ Cardinality(files) < MaxFiles /\ Send
  /\ scope = All => kind = "backup"
  /\ scope # All => scope \in accounts
  /\ request' = [request EXCEPT ![w] =
       [Idle EXCEPT !.stage = "export", !.next = TablesOf(kind),
          !.file = [NoFile EXCEPT !.kind = kind, !.scope = scope, !.revision = Revision,
                    !.accounts = accounts \cap Owners(scope), !.stayed = Covered(kind, scope)]]]
  /\ UNCHANGED <<accounts, known, row, live, files, seeds, marred, replaced>>

\* Mutant of Selected: the rows of one user, for a backup of all of them too.
SelectedByUser(table, scope) == RowsIn({table}, {scope})
Selected(table, scope) == RowsIn({table}, Owners(scope))

ReadTable(w) ==
  LET r == request[w] IN
  /\ At(w, "export") /\ r.next # <<>>
  /\ request' = [request EXCEPT ![w] =
       [r EXCEPT !.file.rows = @ \cup Selected(Head(r.next), r.file.scope), !.next = Tail(@)]]
  /\ UNCHANGED <<accounts, known, row, live, files, seeds, marred, replaced, sent, restarts>>

FinishExport(w) ==
  /\ At(w, "export") /\ request[w].next = <<>>
  /\ files' = files \cup {request[w].file}
  /\ request' = [request EXCEPT ![w] = Idle]
  /\ UNCHANGED <<accounts, known, row, live, seeds, marred, replaced, sent, restarts>>

\* restore_backup: not for a backup of a newer schema; clear what it covers, load what
\* it has, commit.  A row that is refused rolls all of it back.
Import(w, f) ==
  LET cleared == Covered("backup", f.scope) IN
  /\ At(w, "idle") /\ accounts # {} /\ Send
  /\ f.kind = "backup" /\ f.revision <= Revision
  /\ accounts' = (accounts \ Owners(f.scope)) \cup f.accounts /\ UNCHANGED known
  /\ live' = (live \ cleared) \cup f.rows
  /\ Notice(w, Idle, cleared)
  /\ marred' = marred \cup Marred(cleared \cup f.rows, 0)
  /\ replaced' = replaced \cup cleared
  /\ UNCHANGED <<row, files, seeds>>

\* A file that a newer server has made is offered, and refused.
ForeignFile == [NoFile EXCEPT !.revision = Revision + 1]

Restart ==
  /\ restarts < MaxRestarts /\ restarts' = restarts + 1
  /\ request' = [w \in Workers |-> Idle]
  /\ marred' = marred \cup InFlight
  /\ UNCHANGED <<accounts, known, row, live, files, seeds, replaced, sent>>

\* The clients have nothing more to ask, or what is asked needs an id past the bound.
Silence ==
  /\ \A w \in Workers : ~At(w, "export")
  /\ UNCHANGED vars

Next ==
  \/ \E u \in Users : Register(u)
  \/ \E w \in Workers :
       \/ \E u \in Users : ResetAccount(w, u) \/ StartSeed(w, u) \/ StartCreate(w, u)
       \/ \E rows \in SUBSET Ids : DeleteRows(w, rows) \/ \E u \in Users : StartDelete(w, u, rows)
       \/ \E i \in Ids, table \in Tables : CreateRow(w, i, table)
       \/ \E i, j \in Ids : SeedTable(w, i, j)
       \/ \E i \in Ids : SeedRecords(w, i)
       \/ \E kind \in {"backup", "zip"}, scope \in Users \cup {All} : StartExport(w, kind, scope)
       \/ \E f \in files \cup {ForeignFile} : Import(w, f)
       \/ EndDoor(w) \/ SeedFinish(w) \/ SeedFail(w) \/ ReadTable(w) \/ FinishExport(w)
  \/ Restart
  \/ Silence

Spec == Init /\ [][Next]_vars

-----------------------------------------------------------------------------
(* Properties.                                                             *)

\* A seed leaves its whole demo or nothing of it, at whatever step it fails
\* (api/account.py:20 "rolls back to the clean slate it started from if any step
\* fails"), as long as the process lives and nothing else empties or restores the account.
SeedIsWholeOrNothing ==
  \A s \in (1..seeds) \ (InFlight \cup marred) :
    Cardinality(SeedRows(s) \cap live) \in {0, DemoSize}

\* A seed that fails removes only tool data of its own account, and nothing that was there
\* when it started, whoever comes and goes meanwhile (api/account.py:123-126).
FailedSeedsTakeNothing ==
  [][\A w \in Workers : (At(w, "seed") /\ At(w, "idle")') =>
       \A i \in live \ live' :
         i \in ToolData(request[w].user) /\ i \notin request[w].before]_vars

\* An export has every row of its scope that was there from its start to its end, in
\* whatever order its tables were read and whatever else came and went (backup.py:121-135).
ExportHasWhatStayed == \A f \in files : f.stayed \subseteq f.rows

-----------------------------------------------------------------------------
(* What the repository says and the code does not do.                      *)

\* backup.py:337 "Admin-level restore: Clears entire database": setups stay.
RestoreClearsAll ==
  [][\A w \in Workers, f \in files : (Import(w, f) /\ f.scope = All) => live' = f.rows]_vars

\* api/account.py:121 "so a retry is always clean": a seed that is cut off leaves a
\* part of the demo, and the next one is refused.
RetryIsClean ==
  \A s \in (1..seeds) \ InFlight :
    Cardinality(SeedRows(s) \cap live) \in {0, DemoSize} \/ SeedRows(s) \cap replaced # {}

\* api/account.py:191-192 "returning the caller's tool data to empty is exactly a
\* rollback": what the caller made meanwhile goes too.
SeedTakesOnlyItsOwn ==
  [][\A w \in Workers : (At(w, "seed") /\ At(w, "idle")') =>
       \A i \in live \ live' : row[i].seed = request[w].seed]_vars
=============================================================================
