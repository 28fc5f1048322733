# Formal model of loobric-server

Loobric keeps the truth about cutting tools for a machine shop: which tools
exist, which physical tool sits at which number of which machine, which set of
tools a job needs, and how long each tool has cut. Machine controllers, CAM
programs and people write to it at the same time through a REST API. This
directory specifies the parts of the server where those writers meet, and the
parts that must survive being cut off, in TLA+: TLC checks the specifications
on small instances and TLAPS proves the central theorems for all instances.

Paths without a directory are under `src/loobric_server/`; the line numbers
are in the `map` of `PROJECT.json`.

    tlc -workers 2 -config BindingSerial.cfg MCBinding.tla
    tlapm BindingProofs.tla

## How the server runs, and what every model takes from it

* Handlers are plain functions, which FastAPI runs on a pool of threads; each
  request has a database session of its own (`database/session.py`), without
  autoflush. The database is SQLite (without foreign-key enforcement) or
  PostgreSQL at READ COMMITTED; no handler takes a lock.
* `create_audit_log` (`audit.py:95`) **commits**. A handler that audits in the
  middle of its work is therefore cut into several transactions. This is the
  source of most of the interesting behaviour, and every commit is a step of
  its own in the models that interleave requests.
* At a commit the session writes the columns that differ from the ones it had
  loaded, over whatever the row holds by then. A deleted row, or a
  unique index, makes the flush raise; the request then rolls back.
* `Abandon` (or `door = "cut"`) is the process dying, the client's 4xx or the
  500 after a failed flush: what was not committed is gone, the rest stays.

* The three older bulk APIs hold SQLite's write lock from their first flush to
  their commit; two of them run on the pool, the third is made of coroutines
  that never await and so runs one request at a time.

Common abstractions: one account where every query filters by owner (not in
`LegacyDoors`, `Accounts` and `Recovery`, which are about several); the SELECTs
of one transaction happen at one instant; unordered query results are sets,
and whatever the code picks from them is any element; a document is reduced to
the leaf the property is about; a match of measured diameters
(`binding_v2.score` against its threshold) is the constant relation `Matches`;
uuids are never reused while something remembers them.

## Inventory

| Component | State | Operations | Interacts with | What is hard | What makes it correct |
|---|---|---|---|---|---|
| Binding doors, instance inbox (`api/tool_table_entry_records.py`, `api/instance_inbox.py`, `binding_v2.py`) | entry rows, instance rows, proposals | create, bind, move, mint, unbind, observe, delete; inbox, confirm, reject | push, setups, usage, labels | check-then-write on stale rows; two-commit move; proposals that outlive what they name | one place per tool; proposal lifecycle; both copies of a binding agree |
| Setups (`api/machine_set_maps.py`) | which set is active on which machine, history | activate, end, reads | sets, bridge, audit | racing activations; end and start in two commits | one active; append-only history |
| Usage ledger (`usage_ledger.py`) | readings, baselines, contributions, totals | ingest in a push or an observation, recompute | push, bindings | resets, rebinding inside an interval, cut-off pushes and their retries | no hour twice, none lost, none guessed; totals decompose |
| Machine table, bridge, setup view (`sync_entries`, `reconcile_*`, `bridge_requested_claims`) | entry rows, proposals, claims | push merge, snapshot and force; reconcile | sets, setups, inbox | claims and rows arrive in any order; deletes the bridge does not see | ready means the right tools; snapshots are authoritative; rejections last |
| Tool sets (`api/tool_set_records.py`) | sets, members, claimed numbers | create, members, delete, client sections | setups, bridge, batch | absent number against null | claims are durable |
| Batch sync (`batch_sync.py`) | instances and catalog records by client reference | batch push with guards, asserts, presets | instances, presets, catalogs | audit commits inside a documented all-or-nothing batch | a retry is idempotent; what reaches canonical is audited |
| Presets (`presets.py`), media (`media_store.py`, `api/_media.py`) | contributions per origin and label, derived union; blobs | contribute, remove, materialise; store, refer, drop | batch, instances | a union and a document written from stale copies; bytes before reference | union equals contributions; a reference has its bytes |
| Catalog records, catalogs (`api/tool_catalog_records.py`, `api/catalogs.py`) | records by natural key, membership | create, assert, import, batch, delete, members | batch, instances | two spellings of one key; record by record commits | key unique; a finished import is complete |
| Labels (`api/labels.py`, `api/resolver.py`) | code states | mint, put, scan, unlabel, burn | instances, public pages | two puts of one blank label | a code names one thing; burnt stays burnt |
| Legacy doors (`api/tool_items.py`, `api/tool_assemblies.py`, `api/tool_instances.py`, `auth/authorization.py`) | rows with versions and tags | bulk create, update, delete, list, get | accounts | version check and update apart; rules of list and get written apart | versions count updates; delete is final; list agrees with get |
| Accounts (`auth/`, `api/auth.py`, `api/users.py`, `api/admin.py`) | users, sessions, keys | register, roles, login, keys, password, factory reset, import of a backup | all doors | two counts and two commits of a registration; sessions in memory; slow hashing; resets and imports that overtake | a founder is administrator; a revoked key stays revoked; a reset ends access |
| Account reset, demo, backup (`api/account.py`, `backup.py`) | all tool data of an account | seed, reset, export, import | everything | seeds that commit step by step; exports table by table; tables a restore does not clear | a seed is whole or nothing, and its failure takes nothing else; an export has every row that stayed |
| Migrations (`migrations/`, `database/session.py`) | schema, ledger, backups | create, stamp, upgrade at start | start-up | DDL that survives a failed migration; several starts per upgrade | start converges; data is moved once; a backup first |
| Change feed, versioning (`change_detection.py`, `versioning.py`) | per-record versions | changes since, max version | every record | a cursor over per-record counters | a change raises its version |
| Audit log (`audit.py`) | rows | append, query | everything | commits its caller | a row for each change |
| Machine records, contract models, importers, sheets, public pages, shell | documents | CRUD, parse, render | – | little | field shapes |

## Modules

| Module | Models |
|---|---|
| `Placement` | the abstract promise: a tool enters an entry only while it is in no other |
| `Binding` | the binding doors and the inbox, interleaved at every commit; implements `Placement` |
| `BindingProofs` | types, install-once and the refinement, for all instances; the two copies of a binding and the life of a proposal, for any serial service |
| `Setups` | activate, end and deletion of sets, interleaved at every commit |
| `UsageLedger` | controllers' counters, pushes and the ledger; its binding steps are those of `Placement` |
| `UsageLedgerProofs` | types for all instances; the ledger and the totals, for pushes served one at a time |
| `MachineTable` | a push, the bridge and the setup view, with every door that feeds them, one request at a time |
| `MachineTableProofs` | the table, its proposals, the setup view, snapshots and claims; of `Setups` types, one active and append-only history; for all instances |
| `BatchSync` | the instance batch door with presets and media, next to the single-record doors |
| `BatchSyncProofs` | audit, media, versions, lanes and unions for any number of workers; one record per item and finished batches for one |
| `Library` | catalog records, instances made from them, catalogs and labels: what refers to what |
| `LibraryProofs` | identities, links, labels and finished imports, for all instances |
| `LegacyDoors` | the bulk doors of the three older tables with their tag rules |
| `LegacyDoorsProofs` | types, versions, claims, final deletes and lists that can be read, for all instances |
| `Accounts` | accounts, sessions, keys, passwords, factory reset, export and import of the whole database, restart |
| `AccountsProofs` | types and nine properties, among them all of the run, for all instances |
| `Recovery` | demo seed, reset, export and import of an account's data among its creates and deletes, restart |
| `Migrations` | a start of the server on any earlier database, cut off between any two commits |
| `RecoveryProofs` | whole seeds, failed seeds, exports; of `Migrations` a ledger without a gap, changes backed up, links that become setups and the schema that is served; for all instances |
| `MC*` | constants and symmetry for TLC |

### Binding

`entry[e]` is a row of `tool_table_entry_records`: its life, the
`bound_instance_id` column under the unique index, and the copy in the
canonical document. `proposal[p]` is a row of `entry_proposals`; `request[w]`
is what the session of thread `w` holds: the row as it was loaded, the open
proposal found, the entry that still must be vacated. Each door is a `Start`
action (authorisation, lookups, the guards that answer 404 or 409) and one
action per commit: a move is `StartMove`, `VacateOther`, `ReloadEntry`,
`FinishBind`; a bind without an id is `StartMint`, `MintInstance`,
`ReloadEntry`, `FinishBind`; an inbox is `StartInbox`, then `ScanEntry` and
`InsertProposal` per entry. `Save` is the flush: `Flushed` merges the changed
columns into the stored row and `IndexAllows` is the unique index. Labels and
presets of a deleted instance are left out.

### Setups

`setup[m]` is a row of `machine_set_maps`. Replacing a setup is `StartActivate`,
`EndPrior` (the END audit row commits) and `InsertActive` (the flush under the
partial unique index, then the ACTIVATE commit). `DeleteSet` does what
`delete_set` does to setups: nothing.

### UsageLedger

`counter[e]` is the cumulative counter at the machine, `reading[e]` and
`baseline[e]` what the server stored of it, `ledger[e][i]` the hours recorded on
`e` for `i` (`None`: orphaned) and `hours[i]` the derived total. A push walks
its entries in any order: `IngestItem` decides, `CommitLedgerRow` is the USAGE
commit, `SumContributions` and `CommitTotal` are the recomputation, and
`FinishPush` the last commit. A sum is the number of single hours recorded
(`SingleHours`), which says the same of natural numbers and can be proved about.
What each commit flushes is what the session has assigned by then: the baselines
in `stamps` and the readings in `readings`. The reading of an entry is assigned
only after its ledger row has committed. `truth` and `failed` are history: what
really happened at the machine, and how many pushes were cut off.

### MachineTable

`table` holds one machine's rows and the proposals that name them, `claim[s]`
the numbers a set claims, `active` the set of the machine's setup, and `last`
the kind of request just served. `Lines` is `reconcile_set_membership`,
`Shown`, `Consumed` and `Ready` are `reconcile_machine`, `Proposable` is
`propose_for_requested_entry`, and `Bridge` runs it over some rows, cut off
after any of its commits. `Push` is `sync_entries`; the bridge inside it reads
`seen`, the table with the rows whose deletion is not flushed yet, because the
session has no autoflush. A request of the set's side (`ReplaceMembers`,
`Activate`) runs `bridge_requested_claims`; all other doors of an entry are
one step each, interleaved by `Binding`. `Distinct` says that a client sends
each number at most once and observes no number another row has.

### BatchSync

`rec[r]` is a row of `tool_instance_records`: the client's section, the
canonical document (leaves, media references, preset union), the column that
mirrors the catalog link, and the version; `presets[r]` are its contribution
rows, `blobs` the files of the media store, `audit` the committed ASSERT and
OBSERVE rows. `request[w]` is the session of a batch: the index of known items,
which is read at the first item, the item it is at, and `pend`, what is assigned
and not flushed. `SkipItem`, `CreateItem` and `WriteSection` open an item,
`AssertOne` and `Contribute` are its asserts and presets, each committed by an
audit row, `CloseItem` raises the version; `CutOff` is a failed flush or the end
of the process and discards `pend`. The single doors are one step each, except
an upload, which awaits its bytes after it has loaded the record, and a preset
contribution, which commits its row before the union.

### Library

`type[t]` is a catalog record with its identity as typed and the
unique `key` column, `inst[i]` an instance with the record it was created
from, `label[l]` a code and what it is on, `coll[c]` a catalog. An import
commits each record, then its payload, then the catalog; a deletion of a
catalog record unlinks its instances one commit at a time; a label is checked
and put in two steps. `Norm` is the normalisation of the key (trimmed and
casefolded), given as a function from spellings to keys.

### LegacyDoors

`row[r]` is a row of one of the three tables; `request[c]` what the session of a
caller's bulk request holds: the entries still to do, the object last loaded,
and `draft`, what it has flushed and not committed, which exists exactly while
it holds the write lock. `LoadEntry` and `FlushEntry` are the two halves of an
entry, `FailFlush` a flush that found its row gone, `Answer` the commit.
Assemblies are coroutines without an await and run as one step, given in closed
form: an id gains a version for each of its entries, and the tags of the last
stay. `ListedItems` and `ReadsItem` (and their like) are the two rules of list
and get.

### Accounts

`user`, `key` are rows and survive a restart; `session` is the dictionary of
the process and does not. `made` is the order of `api_keys.created_at`, by
which the newest key is announced. A registration is `Register` (the count of
the handler), `CountUsers` (the count of `create_user`), `InsertUser` and
`GiveRole` (two commits); a login, a change of password, a creation and a
revocation of a key are two steps each; a factory reset is `Wipe`,
`DeleteEverything` and `ClearSessions`. An administrator, or an API key of one
with the admin door, downloads the whole database (`ExportDatabase`, `ReadUsers`
and `ReadKeys`, one table after the other) into `files` and sends a backup back:
`ImportDatabase` authenticates, `RestoreBackup` deletes and inserts users and
keys in one commit and leaves the sessions alone. An id of a deleted row is used
again only by the backup that brings the row back. `late` and `quiet` in a
request, `founder` and `stray` in a row and `astray` are history: a reset or an
import has overtaken it, or another request of the same account has; `astray`
also has the sessions whose account an import took away.

### Recovery

`row[i]` is what a row is (its table, its owner, and the seed that made it, if
one did), `live` which rows there are, `files` the exports that were downloaded.
An export reads one table per step (`BackupTables`, `ZipTables` are the orders
of the code), a seed makes its demo in two commits (`SeedRecords`, `SeedTable`)
and empties the account when a step fails; a reset, an import and that clean-up
are one transaction each. The doors that make and delete rows are two-step:
`StartCreate` and `StartDelete` authenticate and read, `CreateRow` and
`DeleteRows` commit, a delete some of its rows at a time since its audit rows
commit; `EndDoor` is a door that is done, refuses or fails. A record stands for
every table but the entries, a setup for what a reset deletes and a backup
leaves out, a label for what neither touches. What is in a row is left out, and
so is what it refers to. Backups of one account are made by the scripts only and
restored by the same code. The factory reset is in `Accounts`.

### Migrations

`schema` is the set of tables, columns and indexes, `ledger` the table
`schema_migrations`, `link` and `maps` the data migration 0003 moves (`Owner` is
the account of a set), `backups` and `newest` the `.bak` files: the name of the
newest is of the second it was written in, so a start within that second writes
over it, which `lost` remembers. The first state is any database a release left
behind: none, one from before the ledger, or one at any revision. `Start`,
`CreateMissing` (one statement: a table, or one of its indexes, in any order),
`SafetyBackup`, `Stamp`, `BeginMigration`, `RunStatement` and `CopyLinks`,
`Record`, `NormalizeLegacyData` and `Serve` follow `init_db` and the runner; a
statement commits by itself until the transaction has written a row. `Crash`
cuts anywhere, also the copy of a backup; `Abort` is a statement that fails
because its object exists, or does not, or because the copy would make two
setups of one machine active: the winners of `CopyLinks` are chosen per account
and machine, the index is on the machine (`Refused`). `Upgrade0002` to
`Upgrade0008` give the statements of each migration under its guards. Indexes
that the same statements make and that no property tells apart share a name.
That an applied migration was edited since, which stops the start
(`migrations/runner.py:117-125`), is left out.

## What the runs check

| Run | Instance | Shows |
|---|---|---|
| `BindingSerial` | 2 entries, 2 instances, 3 proposals, 1 worker | the two copies of a binding agree (`ColumnMirrorsCanonical`), and an open proposal awaits an entry that is unbound (`OpenProposalAwaitsUnbound`) |
| `BindingConcurrent` | 2 entries, 2 instances, 1 proposal, 2 workers | a tool is in at most one entry, and each commit is a step of `Placement` |
| `SetupsConcurrent` | 3 setups, 2 machines, 2 sets, 2 workers | one active setup per machine |
| `UsageLedger` | 2 entries, 2 instances, 2 hours, 1 cut-off push, 1 worker | while pushes run to their end no hour is recorded twice or lost; after one that did not, totals only lag |
| `TableViews` | 2 entries, 2 instances, 2 numbers, 1 set | ready means the right tools, rejections last, snapshots are authoritative, claimed tools are proposed in both orders |
| `BatchSync` | 2 records, 4 bodies, 1 worker, version 2, 1 cut | through any cut and any single door in between: what reaches canonical is audited, a media reference has its bytes, one record carries an item, a finished batch is applied in full |
| `Library` | 2 types, 2 instances, 2 labels, 1 catalog, 3 spellings of 2 keys, 2 workers, 4 requests, 1 cut | identities stay unique, a finished import or batch is complete, only what was tied to a record under deletion dangles |
| `LegacyDoors` | 2 items, 1 assembly, 1 instance, a session and a key confined to a tag, version 2 | versions count acknowledged updates, list and get agree, every request is answered |
| `Accounts` | 3 accounts, 2 keys, 2 sessions, 2 workers, 4 requests, 1 restart | where there are accounts there is an administrator, no session outlives a factory reset, a created key is announced under its own id, and keys and passwords change only for people with a session, or all at once with a reset or an import |
| `Recovery` | 2 accounts, 3 rows, 2 workers, 4 requests, 1 export, 1 restart | a seed is whole or nothing and a failed one takes nothing that was there before; an export has every row that stayed |
| `Migrations` | 3 sets of 2 accounts, 2 machines, every earlier release, 2 cuts | the server comes to serve, with the schema of its models but for the indexes a cut can lose, every link turned into a setup and a backup from before unless one was written over |
| `MigrationRetry` | 1 set, 2 machines, every earlier release, 1 cut | see Findings |

**Bounds.** Two entries and two instances are the least with a conflict over a
place, a move, and a second candidate after a rejection; three proposals let
one entry see a rejected, a confirmed and an open one. Rows that are deleted
leave their ids used, so behaviours end when ids run out; the proofs lift the
most important of the properties to all sizes. Two workers give every pair of
handlers in every interleaving; each handler conflicts over one row at a time.
In `UsageLedger` two hours suffice to count, zero and count again on one entry,
or to count on two; `MaxHours` bounds the hours of all counters together and
`Failures` the cut-off pushes. In `TableViews` one of the instances matches by
geometry and the other was never measured, so that both ways to a proposal
occur. In `BindingSerial` the instances differ in the entries they match; in
`BindingConcurrent` all pairs match, which makes the instance symmetric and
leaves the most proposals possible. In `BatchSync` the bodies are chosen, in
`MCBatchSync`, so that a create with a link and a preset, a body that fails
halfway, and one that mixes a refused, a repeated and an existing item all
occur, each cut off anywhere and sent again. In `Library` a file names one
record in two spellings, and so does the batch. In `LegacyDoors` bodies of two
entries to one row meet a version check within a request, and bodies of the two
callers one across requests. Three accounts in `Accounts` are the founder,
one that a reset overtook and one that registers after both; fewer hide that
the overtaken account may be there before an open registration.
`MaxRequests` is four because the longest of the races, a registration or
login, a reset and two requests that must follow, needs four. In `Migrations`
three sets on two machines give a machine with two links and one without; two
cuts let a retry be cut off too. The third set is another
account's, so that databases occur on which 0003 fails. In `Recovery` three ids
are a whole demo, and let a smaller one meet rows of the caller. The one
administrator of `Accounts` comes from an old server too, live or as a backup,
with a key that has no door scopes.

**Deadlock** is checked everywhere. Deletions, or reads, always leave a step;
where the number of requests is bounded, `Silence` says that the clients have
nothing more to ask, and it is enabled only where every handler has ended or
waits for an id past the bound, so that a handler that is stuck is still a
deadlock.

**Fairness and liveness.** `LegacyDoors` assumes that each request under way
goes on (`WF_vars(Step(c))`): threads are scheduled, and a wait for the write
lock ends with SQLite's busy timeout. Nothing is assumed of the clients.
`EveryRequestEnds` then says that no request waits forever, also not two that
want the lock in turn or one whose flush fails. `Migrations` assumes that a
server which is down is started again and that a start which is not cut off
goes on (`WF_vars(Boot)`); cuts are bounded, since a machine on which every
start is killed never serves. `EveryStartServes` is the promise that no
statement stumbles over what an earlier attempt left behind; it excepts a database
in which sets of two accounts are linked to one machine (`Contested`), where 0003
fails at every start. The other modules
state no liveness: a request may stop anywhere there, and nothing in the server
retries what a client does not.

**Mutants.** Every property of a passing run is paired in `PROJECT.json` with a
plausible slip in the code it guards (a missing index, a reset taken for a
negative delta, a guard that nests two statements), written next to the definition
it would replace; with the slip in place TLC finds the property violated under the
same configuration.

### Stated beside the runs

Each module is checked for the properties that say most about it. Some more are
stated in the modules, left out of the runs, and proved (the next sections say
how): the type invariants of `Binding`, `Setups` and `Accounts`;
`OneOpenProposal`, `RejectedPairNeverOpen` and `ResolvedStaysResolved`;
`HistoryIsAppendOnly`; `ClaimsAreCurrent` and `DeletedStaysDeleted`;
`TotalsDecompose` and `CreditNeedsBothEnds`;
`UnlistedAlwaysNoted`, `OnlyForceWipes` and `ClaimsAreDurable`; `UnionMirrors`,
`LaneDiscipline` and `VersionFollowsCanonical`; `ImportsOnlyAdd` and
`StickersAreMovedOnPurpose`; `LatestIsTheVersion`; `AdminsAreFounders`,
`OrphansAreOvertaken`, `NoGhostActs`, `RevokedBeforeGone` and
`PasswordsAreProved`. Two more are neither part of a run nor proved; added to the
configuration of the module's run, TLC finds no violation: `RetryIsIdempotent` of
`BatchSync` and `MigrationsTypeOK` of `Migrations`.

### Limits of the passing runs

The first five follow from changing one constant of a configuration:

* With two workers `ColumnMirrorsCanonical` fails: `observe_canonical` writes
  back the whole document it loaded, so a bind that committed in between keeps
  its column and loses its canonical leaf. `OneOpenProposal` and
  `RejectedPairNeverOpen` fail as well: two inbox requests open the same pair.
* With two workers `TotalsDecompose` fails: of two pushes for one tool the
  older sum may be stored last, until the next contribution.
* After a cut-off push `CreditNeedsBothEnds` fails without its condition
  `failed = 0`: the USAGE commit of an orphaned interval keeps the new baseline
  without the new reading, and the retry credits the interval.
* With `Distinct = FALSE`, `ReadyMeansRightTools` and `SnapshotIsAuthoritative`
  fail: rows created by a push are not added to its index of numbers, so a
  number sent twice gets two rows, of which the index later knows one.
* With two workers `OneRecordPerItem` of `BatchSync` fails: two batches of one
  client index the known items before either creates the new one. With two the
  state space is beyond TLC at these bounds; `AuditedCanon` and `MediaHasBytes`
  are proved for any number, `FinishedMeansApplied` for one and left undecided
  for two.
* The bodies of `MCBatchSync` name a record by its id or by the client's item
  (`OneName` of `BatchSyncProofs`). An item that names one record by its id and
  carries the item of another gives that item a second record: the id decides,
  the item is written to the section, and the column has no unique index.
* Several properties of `BatchSync`, `Accounts`, `Library` and `Recovery`
  except what another request overtook (`torn`, `late`, `quiet`, `stray`,
  `astray`, `marred`). The exception is stated in the comment of each. It covers
  every row that was overtaken, also where the outcome happens to be right;
  where a document claims the form without it, that form is listed below.
* `Recovery` has no references between rows: that an entry is bound to an
  instance that is deleted or replaced before the bind commits, and that an export
  then holds an entry without its record, is not seen there. The bind against
  the delete is `NeverOrphaned` of `Binding` (below).
* After a cut `ServesHeadSchema` leaves out nine indexes, or groups of them
  (`Fragile`): those of tables that `create_all` finds and does not look into on
  the next start, among them the unique index of the entries' binding, on which
  install-once rests.
* A backup of an upgrade may be lost to the next start's if both fall in one
  second; `BackupPrecedesChange` excepts it.
* Unbinding and rebinding the same tool inside one interval is
  indistinguishable from no change (`docs/TOOL_SCHEMA.md:434-437`); the model
  treats it the way the code does.
* `Migrations` is SQLite: on PostgreSQL the schema is asked otherwise, and a
  migration is one transaction. Nothing is claimed of it.

## Findings

`MigrationRetry`: the guard of migration 0002 asks for a column and makes the
column and its index. SQLite keeps the ALTER TABLE of an attempt that was cut
off before CREATE INDEX; the retry finds the column, skips the index and
records the migration as done. `docs/MIGRATIONS.md:42` says that the guard
makes the retry safe over partially applied state.

### Known departures

Other places where a document, a comment or a schema promises more than the
code does. Each is a definition at the end of its module; added to the
configuration named here, TLC shows it violated.

| Property | Module, configuration | Says | Quoted from |
|---|---|---|---|
| `MoveIsAtomic` | `Binding`, `BindingSerial` | a move never leaves its tool nowhere; it commits in two halves | `api/tool_table_entry_records.py:427` |
| `NeverOrphaned` | `Binding`, `BindingConcurrent` | no entry holds a deleted instance; bind and confirm do not look it up | `api/tool_instance_records.py:284-285` |
| `InboxServesUnbound` | `Binding`, `BindingSerial` | an inbox serves every unbound entry; the hidden proposal of a deleted instance blocks its entry | `api/instance_inbox.py:39` |
| `SwitchIsAtomic` | `Setups`, `SetupsConcurrent` | a machine has a setup throughout its replacement; the END row commits first | `api/machine_set_maps.py:88` |
| `SetupNamesLiveSet` | `Setups`, `SetupsConcurrent` | an active setup names a set that exists; deleting the set leaves it | `database/schema.py:340-341` |
| `NeverCountedTwice` | `UsageLedger`, `UsageLedger` | no hour is recorded twice; the retry of a cut-off push does | `docs/TOOL_SCHEMA.md:474-477` |
| `SnapshotClaimsAreProposed` | `MachineTable`, `TableViews` | a snapshot proposes claimed tools; the row it removes still counts as the tool's place | `api/tool_table_entry_records.py:262-265` |
| `OptimisticLocking` | `LegacyDoors`, `LegacyDoors` | an update replaces the version it names; check and update are apart | `api/tool_items.py:472` |
| `LinkMirrorsCanonical` | `BatchSync`, `BatchSync` | the column mirrors the leaf; a malformed later assert undoes the leaf alone | `docs/BATCH_SYNC.md:120` |
| `MembersExist` | `Library`, `Library` | catalogs list records that exist; a deleted record stays listed | `api/catalogs.py:55-56` |
| `RawIsKept` | `Library`, `Library` | a batch writes its own section; it writes back the others' as loaded | `api/tool_catalog_records.py:500-502` |
| `AdminWhereverAccounts` | `Accounts`, `Accounts` | the next account after a reset is the administrator; one that was counted before it is not | `api/admin.py:9-10` |
| `SessionsHaveUsers` | `Accounts`, `Accounts` | no session maps to a deleted user; that of a login the reset overtook does, and those of accounts that an imported backup lacks | `api/auth.py:210-211` |
| `KeysManageNoKeys` | `Accounts`, `Accounts` | a key never creates or revokes keys; one with the admin door imports a backup, which replaces all keys and passwords | `auth/doors.py:127-129` |
| `AnnouncedAsThemselves` | `Accounts`, `Accounts` | the created key is the one announced; of two at once the newer is announced for both | `api/auth.py:722` |
| `RestoreClearsAll` | `Recovery`, `Recovery` | a restore clears the database; setups of replaced records stay | `backup.py:337` |
| `RetryIsClean` | `Recovery`, `Recovery` | a seed can be retried; one that was cut off leaves a part and is then refused | `api/account.py:121` |
| `SeedTakesOnlyItsOwn` | `Recovery`, `Recovery` | the clean-up of a failed seed is a rollback; it takes what the caller made meanwhile | `api/account.py:191-192` |
| `RollbackIsPossible` | `Migrations`, `MigrationRetry` | rollback is restoring the backup from before; a start cut off in an upgrade and begun again within the second copies the half-migrated database over it, as the name has the resolution of a second (`migrations/runner.py:184`) | `docs/MIGRATIONS.md:36` |

## What is proved

`BindingProofs`, for all sets of entries, instances, proposals and workers and
any relation `Matches`, from `NoneAssumption` and `MatchesAssumption`:

* `TypeCorrect`, `InstallOnceAlways`. The invariant is `TypeOK /\ InstallOnce`.
  It needs no conjunct about what requests remember: the argument is
  `EntryStep`, that every step changes at most one row, and to a value the
  index accepts. The guards of bind and confirm play no part, since what they
  read may be stale. Hence the index alone carries the promise.
* `PlacementImplemented`: under `holds[e] = entry[e].row.column` every step is
  a `Placement` step or a stutter. A step that changes one row and passes the
  index either installs a tool that is nowhere else or removes one.
* While requests are served one at a time (`Workers = {w}`), for all of the rest:
  `MirrorKept` and `ProposalsAwaitUnbound`, which `BindingSerial` checks, and
  `OneProposalPerEntry`, `RejectedPairsStayClosed` and `AnswersAreFinal`, which
  no run repeats. The hypothesis is the code's: with two requests each of these
  is lost (limits of the passing runs). The invariant is `Serial(w)`: the types,
  what the tables promise (`Tables`), and that what the request remembers is
  still in them (`Session(w)`), stage by stage. The properties need each other:
  confirming displaces nothing because the proposal awaits an unbound entry, and
  a bind closes the one proposal it found because there is only one.

`UsageLedgerProofs`, for finite fleets (`FinitenessAssumption`), any number of
hours, resets, rebindings and cuts:

* `TypesAndStages`, `TypeCorrect`, with any number of workers.
* With one worker, and until a push is cut off between its commits where the
  property says so: `NoHourTwice`, `EveryHourIsRecorded` and
  `TotalsFollowTheLedger`, which the run checks, `TotalsAddUp` and
  `CreditsNeedBothReadings`, which it does not. The invariant keeps one account
  per entry: with nothing on its way, recorded and counted hours are at most
  those that were run, and without a reset exactly those since the first reading
  (`Free`); a reading that is on its way is `Due` until its row commits and
  `Paid` after. `Books(w)` says which of the three holds where the push is,
  `Lag(w)` what the totals are meanwhile, and `CreditBooks(w)` that a stored
  baseline is the binding the push before saw, except where this push has
  stamped it. Cardinalities (`SingleHours`) carry the sums.

`MachineTableProofs`, for any finite set of entries and any instances, numbers,
sets and measurements, from the assumptions of `MachineTable`:

* `TableStaysWhole`, by the invariant `Tabled`: an entry has at most one open
  proposal, none if it is bound, none for a rejected pair, and with `Distinct` a
  number is on one row. `TypeCorrect` and `RejectedPairsStayRejected` follow.
* `ReadyRunsTheRightTools` and `SnapshotsAreAuthoritative`, under `Distinct`,
  without which neither holds; `ClaimsReachTheirEntries` and
  `UnlistedToolsAreNoted`, without it.
* The action properties `OnlyForceWipesTables` and `ClaimsAreNotForgotten`.

The rows a push creates, those it removes and the proposals of its bridge are
reduced to one effect (`PushAdds`); the bridge, which is cut off after any of its
rows, adds proposals that keep the table whole wherever it stops (`Proposals`).

The last part of `MachineTableProofs` is about `Setups`, for all sets of setups,
machines, tool sets and workers. The two modules share no name, as far as they have
definitions of their own, so that one module can extend both; neither theorem uses
the other's specification.

* `SetupsTypeCorrect`, `OneActiveAlways`, by the invariant
  `SetupsTypeOK /\ OneActive`. `StepsOfTheTable` reduces every
  handler to three effects: end one row, insert one the index accepts, nothing.
* `HistoryNeverRewritten`, the action property, from the same reduction.

`BatchSyncProofs`, for any records, bodies, contents, bounds and any number of
workers, where the contract, what the server derives and what it does not know
are apart, as in the registry (`PathsAssumption`), and an unset attribute is no
value (`NoneAssumption`):

* `TypeCorrect`, by what a session holds in each stage (`SaneSession`).
* `LeavesAreAudited` and `BytesStay`, by `AuditInv`: not only each record but
  every copy of a document that a session holds, loaded, assigned or asserted on,
  has the audit rows of its leaves and the bytes of its references. A stale copy
  may thus overwrite what it never saw, but brings nothing back unaudited.
* `VersionsFollow`, `LanesHold` and `UnionsMirror`, by `LaneInv`, `BornInv`
  (nobody refers to a record that is not created yet) and `MirrorInv`. Torn records
  are excepted, as in the properties. The model takes a contribution with the
  deletion of what it replaces as one step, and so does `UnionsMirror`.
* `OneRecordEach`, for one worker and bodies whose items have `OneName`: no two
  records carry an item, also not one in the table and one that waits for its
  flush, and a batch has indexed the one that does (`Unique`, `Tidy`).
* `FinishedIsApplied`, for one worker and bodies in `Consistent`: every valid item
  of a finished batch is on its record, payload, asserts and presets, whatever a
  cut-off attempt had done. `FinishInv` follows a batch that no single-record
  door overtook through its items: those it has dealt with are on their records
  as the flush of the session would leave them (`Flushed`, `Served`), the item at
  hand is there as far as its stage has come (`Asserting`, `Contributing`), and
  the index is what the table says (`Filed`). `Consistent` is needed because of
  two items that want different things of one record the last wins: the items of
  a body that the guards let through name their records all by id or all by
  item, and agree where they name the same one. Who mixes both names cannot see
  from the body whether two items mean one record, so such bodies are left out,
  also where no two of their items meet. The bodies of `MCBatchSync` are in it.

`LibraryProofs`, for all sets of ids, spellings, names, files and batches and any
number of workers, requests and cuts:

* `TypeCorrect`, and `NaturalKeysUnique` from `KeysFollow` and `KeysApart`: as
  install-once it rests on the unique index alone.
* `DeletionsDissolve`: whatever is still tied to a record under deletion is in the
  deletion's list or was tied too late (`Links`, `Stickers`).
* `ImportsAdd` and `StickersMove`, action properties; the second from
  `StillBlank`, that a put nobody overtook finds the label as it was scanned.
* `FinishedIsThere`, by `JobsInOrder`: what an import or a batch has still to do is
  the end of what it was asked for, what it has done is there, and the index of
  a batch that nobody disturbed is what the table says.

`AccountsProofs`, for all sets of accounts, keys, sessions, workers, e-mail
addresses, passwords, roles, doors and scopes and all bounds, from the four
assumptions of `Accounts`: `TypesHold`, the four properties of the run, and five
more that no run repeats.
What the properties say of the rows is not inductive, since a handler acts
later on what it read before. The strengthening is `Promise(r)`, what a request
in flight may rely on whatever has happened since: before its insert a
registration that nothing overtook either makes an administrator or has one
(or a stray account) beside it; between its two commits a first registration
points to a founder; a login or a new key belongs to a live account or is late;
a purge that is not late points to a key that is revoked or gone; a password that nobody
disturbed is still the one that was shown; a key nobody disturbed is the
newest of its account; and a reset or an import that is not late is still an
administrator's. `FilesFit` says of every backup, downloaded, half read or
uploaded, what makes it safe to restore: its rows were there, with the owner and
the founder they have, and where it has accounts one of them is an administrator
or stray, since the accounts are read at one moment. `IInv` joins these to the
invariants among those properties. The steps fall into groups: those that only
begin a request (`Begins`), those that rewrite one account (`Rewrites`), those
that change one key (`KeyStepKeeps`), those that change sessions
(`SessionStepKeeps`), those that export, and the two that replace everything.
`UsersGrow` and `KeysGrow` say what no other step takes back, `Lasting` what not
even these two do; `PromiseKept` carries the others' promises over every step
but them, and `OvertakeKeeps` over them, after which everyone is late. The three
action properties follow from `IInv` and `FewTouchCredentials`: the steps that
change a password or the state of a key are few, and of the two that change all
of them `AdminsReplace` says who has sent them.

`LegacyDoorsProofs`, for any tables, callers, sessions, keys, tags and bodies of any
length (`BodiesAssumption` gives their type, no bound), with one lock:

* `TypeCorrect`, `VersionsCount`, `ClaimsHold` and `DeletesAreFinal`, by one invariant.
  What is claimed of the tables (`Sound`) is claimed of every open transaction as
  well, since a commit makes its draft the tables; `Ahead` says that a draft brings
  nothing back that is gone in the tables, and at most one request holds the lock, so
  that no commit overtakes an open draft. An entry that passed its checks stays what
  the checks found in what they can rely on (`Ready`): the object in hand may be
  stale, and a row that changed meanwhile is `contended`, which the properties
  except. `NamesInv` says that the ids a create has still to insert are new, and each
  its own. `Commits` carries the invariant over every commit of a thread,
  `LoopCommits` over a request that runs as a coroutine.
* `ListedIsReadable`, from the two rules alone: whatever a list door shows by its
  tag rule, the get door allows.

`RecoveryProofs`, for any accounts, rows, workers, requests, exports and restarts,
from `BoundsAssumption` and `NoneAssumption`, by an invariant of three parts:

* `TypeCorrect`, by `Typed`: sessions and files name rows that were made.
* `SeedsAreWholeOrNothing` and `FailuresTakeTheirOwn`, by `SeedInv`: while nothing
  else has touched its account, the rows of a running seed are the ones of the
  steps it has done, and none of the account's tool data was there when it began.
* `ExportsHaveWhatStayed`, by `ExportInv`: an export has, of the tables it has
  read, every row that was there since it began.

The last part of `RecoveryProofs` is about `Migrations`, for any number of sets,
accounts, machines and cuts, from `SizesAssumption`:

* `LedgerHasNoGaps`, by the invariant `Ledger`: the ledger is a set of
  revisions without a gap, and a migration is under way only while one is
  pending. Migrations are recorded in order and one at a time, and a stamp
  fills the ledger from below.
* `ChangesAreBackedUp`, by the invariant `Backup`: either nothing of the
  database that was found has been taken from it, or a backup has it, or a
  backup was written over. A start that finds something to apply backs up before
  it applies anything: if nothing has been taken by then, its backup is complete,
  and otherwise an earlier one is, or was. The conjuncts about `stamp`, `upgrade`
  and `statement` carry this over the steps between the decision and the first
  statement.
* `LinksAreMoved`, by the invariant `Links`: while a set has a link, no statement
  of a migration touches its column but those of 0003, after the copy (`Walk`);
  and a database that was there is never stamped as new (`Found`). The copy, the
  statements after it and the record are one commit, so that each link is in its
  column or is one setup, active if its account updated no later set of that
  machine and ended otherwise, and there are as many setups as there were links.
* `ServesTheHead`, by the invariants `Schemas` and `Intact`: what the ledger records
  is in the schema, but for the `Fragile` indexes, and what is still missing of the
  migration under way is among the statements to come. `UpgradesFollow` says that each
  upgrade function makes and drops what its release did of any schema it may find,
  and `CreatesWhatLacks` the same of `create_all`; `Clearing` says that the index of
    the links goes before its column. `Intact` is about a database that no cut has
  touched: there the `Fragile` indexes come with their column or table.

Only model-checked: that a repeated batch changes nothing (`RetryIsIdempotent`). Out of
reach of the prover: the two liveness properties, `EveryRequestEnds` and
`EveryStartServes`.

## Not modelled, and the plan

* The change feed only reads rows by their versions; `BatchSync` and
  `LegacyDoors` say what raises these. `versioning.py` is called by no door.
* Reset tokens are called by tests only; solo mode is a server without
  accounts; profiles of manufacturers are documents of one row.
* Importers are pure parsers (`Library` takes the drafts they yield), sheets
  and public pages render, contract models give the shape of fields, machine
  records are single documents, the shell is wiring.
* A catalog record's own presets, media and further leaves take the helpers
  that `BatchSync` models on instance records.
* PostgreSQL: the interleavings of commits are those of the models, its locks,
  its queries of the schema and its transactional DDL are not modelled.
* The contents of rows, and with them references, in `Recovery`; the abort of a
  start that finds an applied migration edited, in `Migrations`.

Theorem to add: `RetryIsIdempotent` of `BatchSync`, for one worker and bodies in
`Consistent`: of two items that want different things of one record each undoes the
other again.
