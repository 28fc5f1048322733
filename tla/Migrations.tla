----------------------------- MODULE Migrations -----------------------------
(***************************************************************************)
(* What a start of the server does to the database it finds: create_all,   *)
(* the migration runner with its ledger and safety backup, the migrations  *)
(* themselves and the normalization of old rows.  database/session.py      *)
(* (init_db), migrations/runner.py and migrations/0001 to 0008, on SQLite. *)
(*                                                                         *)
(* A statement of the schema commits by itself as long as no row has been  *)
(* written in the transaction; from the first row on, everything up to the *)
(* record in the ledger is one transaction.  A start can be cut off between*)
(* any two commits, and a statement that fails aborts it; the next start   *)
(* finds what was committed.                                               *)
(***************************************************************************)
EXTENDS Naturals, FiniteSets, Sequences, FiniteSetsExt

CONSTANTS
  NumSets,     \* rows of tool_set_records, the later updated the higher
  Owner(_),    \* their accounts
  Machines,
  NoMachine,   \* the SQL NULL: a set without a link
  MaxCrashes   \* bound: starts or servers cut off

ASSUME SizesAssumption == NumSets \in Nat /\ MaxCrashes \in Nat

Sets == 1..NumSets
Latest == 8
Revisions == 1..Latest
Baseline == {1}

VARIABLES
  schema,   \* the tables, columns and indexes there are
  ledger,   \* schema_migrations
  link,     \* tool_set_records.machine_id, and machine_id in the document
  maps,     \* rows of machine_set_maps
  library,  \* there are tool_sets rows of the type 'library'
  backups,  \* the .bak files, but for the last one written
  newest,   \* what that one holds, if there is one
  lost,     \* history: a file was written over by one of the same second
  stage,    \* of the start
  fresh,    \* init_db found no table
  todo,     \* statements of create_all or of the migration under way
  origin,   \* history: the database that the first start found
  crashes   \* how many starts or servers were cut off

stored == <<schema, ledger, link, maps, library>>
bakFiles == <<backups, newest, lost>>
migrationVars == <<stored, bakFiles, stage, fresh, todo, origin, crashes>>

-----------------------------------------------------------------------------
(* The schema, as far as the migrations change it.                         *)

Statement == [adds : SUBSET STRING, drops : SUBSET STRING, lax : BOOLEAN, copies : BOOLEAN]
Create(objects) == [adds |-> objects, drops |-> {}, lax |-> FALSE, copies |-> FALSE]
CreateIfMissing(objects) == [Create(objects) EXCEPT !.lax = TRUE]
Drop(objects) == [Create({}) EXCEPT !.drops = objects]
DropIfThere(objects) == [Drop(objects) EXCEPT !.lax = TRUE]

\* The models' tables with their columns, each followed by its indexes.  "users" stands
\* for every table that no release has changed, and one name for indexes that the same
\* statements make: it is there when all of them are.
ModelTables == <<
  <<{"users"}, {"ix_users"}>>,
  <<{"audit_logs", "audit_logs.channel", "audit_logs.api_key_id"},
    {"ix_audit_logs", "ix_audit_logs_api_key_id"}>>,
  <<{"tool_set_records"}, {"ix_tool_set_records"}>>,
  <<{"tool_table_entry_records", "entries.usage_baseline"},
    {"ix_entries", "ix_entries_bound_instance_id"}>>,
  <<{"machine_set_maps"},
    {"ix_maps_machine_id", "ix_maps_tool_set_id", "ix_maps_user_id",
     "uq_active_map_per_machine"}>>,
  <<{"labels"}, {"ix_labels"}>>,
  <<{"usage_ledger"}, {"ix_usage_ledger"}>>,
  <<{"preset_contributions"}, {"ix_preset_contributions"}>>,
  <<{"catalogs"}, {"ix_catalogs"}>> >>

HeadSchema == UNION {ModelTables[i][1] \cup ModelTables[i][2] : i \in DOMAIN ModelTables}

\* The schema at the baseline, and what each release since has changed.
BaseSchema ==
  {"users", "ix_users", "audit_logs", "ix_audit_logs", "tool_set_records",
   "ix_tool_set_records", "sets.machine_id", "ix_sets_machine_id",
   "tool_table_entry_records", "ix_entries", "ix_entries_bound_instance_id",
   "tool_usage", "tool_presets", "manufacturer_catalogs"}
Added == <<{}, {"audit_logs.channel", "audit_logs.api_key_id", "ix_audit_logs_api_key_id"},
           {"machine_set_maps", "ix_maps_machine_id", "ix_maps_tool_set_id",
            "ix_maps_user_id", "uq_active_map_per_machine"},
           {"labels", "ix_labels"},
           {"usage_ledger", "ix_usage_ledger", "entries.usage_baseline"}, {},
           {"preset_contributions", "ix_preset_contributions"}, {"catalogs", "ix_catalogs"}>>
Dropped == <<{}, {}, {"sets.machine_id", "ix_sets_machine_id"}, {}, {},
             {"tool_usage", "tool_presets"}, {}, {"manufacturer_catalogs"}>>
SchemaAt(r) == (BaseSchema \cup UNION {Added[i] : i \in 1..r}) \ UNION {Dropped[i] : i \in 1..r}

When(condition, statements) == IF condition THEN statements ELSE <<>>

\* create_all: a table that is missing is created, then its indexes; a table that is
\* there is not looked into.
CreateTable(t, s) ==
  When(t[1] \cap s = {}, <<Create(t[1]), Create(t[2])>>)
CreateAll(s) ==
  CreateTable(ModelTables[1], s) \o CreateTable(ModelTables[2], s) \o
  CreateTable(ModelTables[3], s) \o CreateTable(ModelTables[4], s) \o
  CreateTable(ModelTables[5], s) \o CreateTable(ModelTables[6], s) \o
  CreateTable(ModelTables[7], s) \o CreateTable(ModelTables[8], s) \o
  CreateTable(ModelTables[9], s)

\* The upgrade functions, given the schema they find.  What create_all has made by
\* now is not there to be made again.
Upgrade0002(s) ==
  When("audit_logs.channel" \notin s, <<Create({"audit_logs.channel"})>>) \o
  When("audit_logs.api_key_id" \notin s,
       <<Create({"audit_logs.api_key_id"}), CreateIfMissing({"ix_audit_logs_api_key_id"})>>)
Upgrade0003(s) ==
  When("machine_set_maps" \notin s,
       <<Create({"machine_set_maps"}), Create({"ix_maps_machine_id"}),
         Create({"ix_maps_tool_set_id"})>>) \o
  <<CreateIfMissing({"uq_active_map_per_machine"})>> \o
  When("sets.machine_id" \in s,
       <<[Create({}) EXCEPT !.copies = TRUE], DropIfThere({"ix_sets_machine_id"}),
         Drop({"sets.machine_id"})>>)
Upgrade0004(s) ==
  When("labels" \notin s, <<Create({"labels"})>>) \o <<CreateIfMissing({"ix_labels"})>>
\* Mutant of Upgrade0005: the column is added without looking.
Upgrade0005Unguarded(s) ==
  When("usage_ledger" \notin s, <<Create({"usage_ledger"})>>) \o
  <<CreateIfMissing({"ix_usage_ledger"}), Create({"entries.usage_baseline"})>>
Upgrade0005(s) ==
  When("usage_ledger" \notin s, <<Create({"usage_ledger"})>>) \o
  <<CreateIfMissing({"ix_usage_ledger"})>> \o
  When("entries.usage_baseline" \notin s, <<Create({"entries.usage_baseline"})>>)
Upgrade0006(s) == <<DropIfThere({"tool_usage"}), DropIfThere({"tool_presets"})>>
Upgrade0007(s) ==
  When("preset_contributions" \notin s, <<Create({"preset_contributions"})>>) \o
  <<CreateIfMissing({"ix_preset_contributions"})>>
\* Mutant of Upgrade0008: the table is dropped only by the start that makes the new one.
Upgrade0008Nested(s) ==
  When("catalogs" \notin s,
       <<Create({"catalogs"})>> \o When("manufacturer_catalogs" \in s, <<Drop({"manufacturer_catalogs"})>>))
  \o <<CreateIfMissing({"ix_catalogs"})>>
Upgrade0008(s) ==
  When("catalogs" \notin s, <<Create({"catalogs"})>>) \o
  <<CreateIfMissing({"ix_catalogs"})>> \o
  When("manufacturer_catalogs" \in s, <<Drop({"manufacturer_catalogs"})>>)

Upgrade(r, s) ==
  CASE r = 2 -> Upgrade0002(s) [] r = 3 -> Upgrade0003(s) [] r = 4 -> Upgrade0004(s)
    [] r = 5 -> Upgrade0005(s) [] r = 6 -> Upgrade0006(s) [] r = 7 -> Upgrade0007(s)
    [] r = 8 -> Upgrade0008(s) [] OTHER -> <<>>

\* A statement fails on what is there already or not there to drop, unless it says IF.
Fails(q) == ~q.lax /\ (q.adds \cap schema # {} \/ ~(q.drops \subseteq schema))

\* 0003: the set that an account has updated last is the active one of a machine.
Linked == {t \in Sets : link[t] # NoMachine}
\* Mutant of Winners: the last of every account.
LastOfAccount == {t \in Linked : \A x \in Linked : Owner(x) = Owner(t) => x <= t}
Winners ==
  {t \in Linked : \A x \in Linked : Owner(x) = Owner(t) /\ link[x] = link[t] => x <= t}
Map == [set : Sets, machine : Machines, status : {"active", "ended"}]
MapsOfLinks ==
  {[set |-> t, machine |-> link[t], status |-> IF t \in Winners THEN "active" ELSE "ended"]
     : t \in {x \in Linked : ~\E row \in maps : row.set = x /\ row.machine = link[x]}}

\* A machine has one active setup, whoever owns the sets.
Refused ==
  \E a, b \in maps \cup MapsOfLinks :
    a # b /\ a.machine = b.machine /\ a.status = "active" /\ b.status = "active"

-----------------------------------------------------------------------------

Database == [schema : SUBSET STRING, ledger : SUBSET Revisions,
             link : [Sets -> Machines \cup {NoMachine}]]
Current == [schema |-> schema, ledger |-> ledger, link |-> link]
NoLink == [t \in Sets |-> NoMachine]

MigrationsTypeOK ==
  /\ schema \subseteq HeadSchema \cup BaseSchema
  /\ ledger \subseteq Revisions
  /\ link \in [Sets -> Machines \cup {NoMachine}]
  /\ "sets.machine_id" \notin schema => link = NoLink
  /\ maps \subseteq Map
  /\ library \in BOOLEAN
  /\ \A b \in backups \cup newest : b.link \in [Sets -> Machines \cup {NoMachine}]
  /\ Cardinality(newest) <= 1 /\ lost \in BOOLEAN
  /\ stage \in {"down", "create", "backup", "stamp", "upgrade", "statement", "normalize",
                "serving"}
  /\ fresh \in BOOLEAN
  /\ \A i \in DOMAIN todo : todo[i].lax \in BOOLEAN
  /\ crashes \in 0..MaxCrashes

\* A new installation; one from before the ledger, which has the schema of some release
\* up to the one that introduced it; one that an earlier release kept.
MigrationsInit ==
  /\ \/ schema = {} /\ ledger = {} /\ link = NoLink /\ library = FALSE
     \/ /\ schema = BaseSchema /\ ledger = {}
        /\ link \in [Sets -> Machines \cup {NoMachine}] /\ library \in BOOLEAN
     \/ \E r \in Revisions :
          /\ schema = SchemaAt(r) /\ ledger = 1..r /\ library = FALSE
          /\ link \in IF r < 3 THEN [Sets -> Machines \cup {NoMachine}] ELSE {NoLink}
  /\ maps = {} /\ backups = {} /\ newest = {} /\ lost = FALSE
  /\ stage = "down" /\ fresh = FALSE /\ todo = <<>>
  /\ origin = Current /\ crashes = 0

-----------------------------------------------------------------------------
(* A start.                                                                *)

\* create_app calls init_db before it serves.
Start ==
  /\ stage = "down"
  /\ fresh' = (schema = {}) /\ todo' = CreateAll(schema) /\ stage' = "create"
  /\ UNCHANGED <<stored, bakFiles, origin, crashes>>

\* The start gives up: what is committed stays.
Abort == stage' = "down" /\ todo' = <<>> /\ fresh' = FALSE

Execute(q) == schema' = (schema \cup q.adds) \ q.drops

\* Missing tables, each with its columns, and then its indexes one by one, in the order
\* of a Python set; nothing is dropped.
Indexes == UNION {ModelTables[i][2] : i \in DOMAIN ModelTables}
AtOnce(objects) == IF objects \subseteq Indexes THEN {{o} : o \in objects} ELSE {objects}
CreateMissing ==
  /\ stage = "create"
  /\ IF todo = <<>> THEN stage' = "backup" /\ UNCHANGED <<schema, todo>>
     ELSE \E made \in AtOnce(Head(todo).adds) :
            /\ schema' = schema \cup made /\ UNCHANGED stage
            /\ todo' = When(made # Head(todo).adds, <<Create(Head(todo).adds \ made)>>) \o
                         Tail(todo)
  /\ UNCHANGED <<ledger, link, maps, library, bakFiles, fresh, origin, crashes>>

\* run_migrations: on a new database everything is stamped, elsewhere the baseline
\* is, and the rest is applied in order.  The migrations are those that were applied:
\* the check that none was edited since finds nothing.
Pending == Revisions \ ledger
ToStamp == IF ledger = {} /\ fresh THEN Pending ELSE Pending \cap Baseline
ToApply == Pending \ ToStamp

\* Mutant of NeedsBackup: only a database without a ledger is backed up.
NeedsFirstBackup == ToApply # {} /\ ledger = {}
NeedsBackup == ToApply # {}

\* The file is named by the second: a start in the same second as the one before it
\* writes over that one's file.
Written(copies) == newest' = copies /\ lost' = (lost \/ ~(newest \subseteq backups' \cup copies))
SafetyBackup ==
  /\ stage = "backup" /\ stage' = "stamp"
  /\ IF NeedsBackup THEN backups' \in {backups, backups \cup newest} /\ Written({Current})
     ELSE UNCHANGED bakFiles
  /\ UNCHANGED <<stored, fresh, todo, origin, crashes>>

Stamp ==
  /\ stage = "stamp" /\ stage' = "upgrade"
  /\ ledger' = ledger \cup ToStamp
  /\ UNCHANGED <<schema, link, maps, library, bakFiles, fresh, todo, origin, crashes>>

NextUp == Min(Pending)

BeginMigration ==
  /\ stage = "upgrade"
  /\ IF Pending = {} THEN stage' = "normalize" /\ UNCHANGED todo
     ELSE stage' = "statement" /\ todo' = Upgrade(NextUp, schema)
  /\ UNCHANGED <<stored, bakFiles, fresh, origin, crashes>>

\* A statement of the schema, committed at once.
RunStatement ==
  /\ stage = "statement" /\ todo # <<>> /\ ~(Head(todo).copies /\ Linked # {})
  /\ IF Fails(Head(todo)) THEN Abort /\ UNCHANGED schema
     ELSE Execute(Head(todo)) /\ todo' = Tail(todo) /\ UNCHANGED <<stage, fresh>>
  /\ UNCHANGED <<ledger, link, maps, library, bakFiles, origin, crashes>>

\* 0003 writes rows: they, the statements after them and the record are one commit.
CopyLinks ==
  /\ stage = "statement" /\ todo # <<>> /\ Head(todo).copies /\ Linked # {}
  /\ IF Refused \/ \E i \in DOMAIN todo : Fails(todo[i])
       THEN Abort /\ UNCHANGED stored
       ELSE /\ maps' = maps \cup MapsOfLinks /\ link' = NoLink
            /\ schema' = schema \ UNION {todo[i].drops : i \in DOMAIN todo}
            /\ ledger' = ledger \cup {NextUp}
            /\ stage' = "upgrade" /\ todo' = <<>> /\ UNCHANGED <<fresh, library>>
  /\ UNCHANGED <<bakFiles, origin, crashes>>

Record ==
  /\ stage = "statement" /\ todo = <<>>
  /\ ledger' = ledger \cup {NextUp} /\ stage' = "upgrade"
  /\ UNCHANGED <<schema, link, maps, library, bakFiles, fresh, todo, origin, crashes>>

NormalizeLegacyData ==
  /\ stage = "normalize" /\ stage' = "serving"
  /\ library' = FALSE
  /\ UNCHANGED <<schema, ledger, link, maps, bakFiles, fresh, todo, origin, crashes>>

\* The process, the disk or the machine gives out, during a start or later.  A copy that
\* is cut off is no backup, and no longer the one it was written over.
Crash ==
  /\ stage # "down" /\ crashes < MaxCrashes /\ crashes' = crashes + 1
  /\ Abort
  /\ \/ UNCHANGED bakFiles
     \/ stage = "backup" /\ NeedsBackup /\ UNCHANGED backups /\ Written({})
  /\ UNCHANGED <<stored, origin>>

Serve == stage = "serving" /\ UNCHANGED migrationVars

Boot == \/ Start \/ CreateMissing \/ SafetyBackup \/ Stamp \/ BeginMigration \/ RunStatement
        \/ CopyLinks \/ Record \/ NormalizeLegacyData

MigrationsNext == Boot \/ Crash \/ Serve

\* Somebody starts a server that is down, and a start that is not cut off goes on.
MigrationsSpec == MigrationsInit /\ [][MigrationsNext]_migrationVars /\ WF_migrationVars(Boot)

-----------------------------------------------------------------------------
(* Properties.                                                             *)

\* Indexes that no migration makes, or only together with the table or column that
\* create_all or an earlier start may have made without them.
Fragile ==
  {"ix_users", "ix_audit_logs", "ix_audit_logs_api_key_id", "ix_tool_set_records",
   "ix_entries", "ix_entries_bound_instance_id", "ix_maps_machine_id",
   "ix_maps_tool_set_id", "ix_maps_user_id"}

\* A server that serves has the schema of the models, from whatever release its
\* database comes and however often its upgrade was cut off (docs/MIGRATIONS.md:34
\* "stop the server loudly rather than serve a half-migrated database"), but for the
\* indexes that a cut between two statements can lose.
ServesHeadSchema ==
  stage = "serving" =>
    /\ HeadSchema \ Fragile \subseteq schema /\ schema \subseteq HeadSchema
    /\ crashes = 0 => schema = HeadSchema
    /\ ~library

\* The link of a set to a machine is in exactly one place: in its column until the
\* migration, then one row per link, the active setup of the machine if it was the
\* link its account updated last and ended otherwise
\* (migrations/0003_machine_set_maps.py:69-115).
LinksBecomeSetups ==
  IF 3 \in ledger \/ origin.schema = {}
    THEN /\ link = NoLink
         /\ \A t \in Sets : origin.link[t] # NoMachine =>
              \E row \in maps :
                /\ row.set = t
                /\ row.machine = origin.link[t]
                /\ row.status = IF \A x \in Sets : Owner(x) = Owner(t) /\
                                     origin.link[x] = origin.link[t] => x <= t
                                THEN "active" ELSE "ended"
         /\ Cardinality(maps) = Cardinality({t \in Sets : origin.link[t] # NoMachine})
    ELSE link = origin.link /\ maps = {}

\* MAX(revision) in the ledger is the schema version (docs/MIGRATIONS.md:57): nothing
\* below it is missing, also while an upgrade is under way or cut off.
LatestIsTheVersion == \A r \in ledger : 1..r \subseteq ledger

\* Once a migration has touched an existing database there is a backup that holds what
\* the migration has replaced, also when the upgrade took several starts, unless a
\* backup was lost to another of the same second
\* (docs/MIGRATIONS.md:36 "Rollback = restore the pre-migration backup").
BackedUp == \E b \in backups \cup newest : b.link = origin.link /\ origin.schema \subseteq b.schema
BackupPrecedesChange ==
  (origin.schema # {} /\ (link # origin.link \/ ~(origin.schema \subseteq schema))) =>
    lost \/ BackedUp

\* Sets of two accounts on one machine, in a database from before the setups.
Contested ==
  \E t, x \in Sets :
    Owner(t) # Owner(x) /\ origin.link[t] = origin.link[x] /\ origin.link[t] # NoMachine

\* A server that is started comes to serve in the end, however the starts before it were
\* cut off: no statement stumbles over what an earlier attempt has left behind
\* (migrations/runner.py:149-153 "The retry then recovers cleanly").  Only sets of two
\* accounts on one machine stop it, at the index that 0003 has just made.
EveryStartServes == []<>(stage = "serving" \/ Contested)

-----------------------------------------------------------------------------
(* What the repository says and the code does not do.                      *)

\* docs/MIGRATIONS.md:42 "the idempotent guard makes that retry safe over
\* partially-applied state": what 0002 is recorded to have done is done.
RecordedMeansDone ==
  (origin.schema # {} /\ 2 \in ledger) => Added[2] \subseteq schema

\* docs/MIGRATIONS.md:36 "Rollback = restore the pre-migration backup": there is one of
\* the database as it was before the first migration.
RollbackIsPossible ==
  (origin.schema # {} /\ ~(origin.schema \subseteq schema)) => BackedUp
=============================================================================
