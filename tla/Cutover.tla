------------------------------ MODULE Cutover -------------------------------
(***************************************************************************)
(* The local cutover: the legacy tables are renamed into a preserve        *)
(* database, the runtime database is dropped and rebuilt by the            *)
(* migrations, and the legacy rows are imported into it under new ids.     *)
(*                                                                         *)
(* Every statement is one step.  A run may stop after any of them (a       *)
(* crash, a lost connection, a deadlock, ctrl-C), may be started again     *)
(* with or without --resume, and may overlap with another run.  MySQL's    *)
(* DDL is not transactional; RENAME TABLE of several tables is atomic.     *)
(*                                                                         *)
(* A database is absent (None) or a function from its tables to their      *)
(* schema and rows.  A row has an id, a name that stands for its payload,  *)
(* and refs to rows of other tables.  The rows of "goose" are the versions *)
(* that were applied.                                                      *)
(***************************************************************************)
EXTENDS Integers, Sequences, FiniteSets

CONSTANTS
    Runs,      \* processes running the command
    Legacies,  \* possible contents of the legacy database
    MaxStarts, \* bound on the number of starts
    None       \* an absent database, an empty reference

\* The tables of a legacy database with the given rows.
LegacyTables(rows) == [t \in DOMAIN rows |-> [schema |-> "legacy", rows |-> rows[t]]]

ASSUME CutoverAssumption ==
    /\ MaxStarts \in Nat \ {0}
    /\ \A rows \in Legacies : LegacyTables(rows) # None

\* The tables of the import, in the order it fills them.  "profiles" stands
\* for the four profile tables, which a legacy database may lack, and
\* "resources" includes the external identifiers.
ImportOrder ==
    <<"roles", "environments", "owners", "users", "resources", "profiles",
      "relations", "audit_events">>
BusinessTables == {ImportOrder[i] : i \in DOMAIN ImportOrder}

\* A list that forgets the table without a unique key.
TargetTablesButAudit ==
    <<"roles", "users", "environments", "owners", "resources", "profiles", "relations">>

\* The order in which the target is emptied, and checked to be empty.
TargetBusinessTables ==
    <<"roles", "users", "environments", "owners", "resources", "profiles",
      "relations", "audit_events">>

\* The order in which the first migration creates the tables.
SchemaOrder ==
    <<"roles", "users", "environments", "owners", "resources", "relations",
      "profiles", "audit_events">>

\* The migrations: the schema, two kinds of seed rows, and the changes of
\* the schema that the import relies on.
Schema == 1
ReferenceSeeds == 2
DemoSeeds == 3
LaterSchema == 4

\* The tables that get seed rows, and the tables that are altered.
SeededTables(v) == IF v = ReferenceSeeds THEN BusinessTables ELSE BusinessTables \ {"roles", "users"}
AlteredTables == {"users", "resources", "audit_events"}

\* The tables with a unique key over the payload alone.  The other unique
\* keys hold a new id, and audit_events has none.
NameKeyed == {"roles", "users", "environments", "owners"}

\* The table a reference points to.
RefTable ==
    [role |-> "roles", environment |-> "environments", owner |-> "owners",
     archivedBy |-> "users", resource |-> "resources", from |-> "resources",
     to |-> "resources", actor |-> "users", target |-> "resources"]

VARIABLES legacy, db, run, starts

vars == <<legacy, db, run, starts>>

Databases == {"target", "preserve"}

idleRun ==
    [pc |-> "idle", resume |-> FALSE, tables |-> {}, at |-> 1, version |-> 0,
     staged |-> <<>>, outcome |-> None]

\* Before the first run: a legacy database, and perhaps an empty preserve
\* database of an earlier attempt.
Init ==
    /\ legacy \in Legacies
    /\ \E preserve \in {None, <<>>} :
         db = [d \in Databases |->
                IF d = "preserve" THEN preserve ELSE LegacyTables(legacy)]
    /\ run = [o \in Runs |-> idleRun]
    /\ starts = 0

At(o, pc) == run[o].pc = pc
Goto(o, pc) == run' = [run EXCEPT ![o].pc = pc, ![o].at = 1]
Refuse(o) == run' = [run EXCEPT ![o] = [idleRun EXCEPT !.outcome = "error"]]

DatabaseExists(d) == db[d] # None
ListTables(d) == IF db[d] = None THEN {} ELSE DOMAIN db[d]
HasTables(d) == ListTables(d) # {}

Start(o) ==
    /\ At(o, "idle") /\ starts < MaxStarts
    /\ starts' = starts + 1
    /\ \E resume \in BOOLEAN :
         run' = [run EXCEPT ![o] = [idleRun EXCEPT !.pc = "runtime", !.resume = resume]]
    /\ UNCHANGED <<legacy, db>>

\* A run stops: its session ends and an open transaction is rolled back.
Stop(o) ==
    /\ ~At(o, "idle")
    /\ run' = [run EXCEPT ![o] = idleRun]
    /\ UNCHANGED <<legacy, db, starts>>

-----------------------------------------------------------------------------
(* The checks, each of which reads information_schema *)

CheckRuntime(o) ==
    /\ At(o, "runtime")
    /\ IF DatabaseExists("target") THEN Goto(o, "tables") ELSE Refuse(o)
    /\ UNCHANGED <<legacy, db, starts>>

CheckTables(o) ==
    /\ At(o, "tables")
    /\ IF ~HasTables("target") THEN Refuse(o)
       ELSE run' = [run EXCEPT ![o].pc = "preserve", ![o].tables = ListTables("target")]
    /\ UNCHANGED <<legacy, db, starts>>

CheckPreserve(o) ==
    /\ At(o, "preserve")
    /\ Goto(o, IF DatabaseExists("preserve") THEN "preserved" ELSE "fresh")
    /\ UNCHANGED <<legacy, db, starts>>

CheckPreserved(o) ==
    /\ At(o, "preserved")
    /\ Goto(o, IF HasTables("preserve") THEN "again" ELSE "empty")
    /\ UNCHANGED <<legacy, db, starts>>

\* isLegacyRuntimeSchema fails when resources.id does not exist.
SchemaReadable == "resources" \in ListTables("target")
LegacyRuntime == db["target"]["resources"].schema = "legacy"

\* A rerun that goes on by itself.
MayResumeAnyway(o) == ~LegacyRuntime

\* Going on after a preserve needs a rebuilt runtime and --resume.
MayResume(o) == ~LegacyRuntime /\ run[o].resume

\* What follows the schema check; preserving needs a legacy runtime.
CheckSchema(o) ==
    /\ \E pc \in {"again", "empty", "fresh"} :
         /\ At(o, pc)
         /\ IF ~SchemaReadable THEN Refuse(o)
            ELSE CASE pc = "again" -> IF MayResume(o) THEN Goto(o, "drop") ELSE Refuse(o)
                   [] pc = "empty" -> IF LegacyRuntime THEN Goto(o, "rename") ELSE Refuse(o)
                   [] pc = "fresh" -> IF LegacyRuntime THEN Goto(o, "createPreserve")
                                      ELSE Refuse(o)
    /\ UNCHANGED <<legacy, db, starts>>

-----------------------------------------------------------------------------
(* Preserve and rebuild *)

\* A transaction holds the metadata lock of the tables it has rows in, and
\* DDL on one of these waits for its end.
Locked(t) == \E o \in Runs : t \in DOMAIN run[o].staged

\* DROP DATABASE waits for the locks of all the tables.
Unlocked == \A o \in Runs : run[o].staged = <<>>

CreateDatabase(o, d, next) ==
    IF DatabaseExists(d) THEN Refuse(o) /\ UNCHANGED db
    ELSE db' = [db EXCEPT ![d] = <<>>] /\ Goto(o, next)

CreatePreserve(o) ==
    /\ At(o, "createPreserve")
    /\ CreateDatabase(o, "preserve", "rename")
    /\ UNCHANGED <<legacy, starts>>

\* One table at a time.
RenameTablesOneByOne(o) ==
    /\ At(o, "rename")
    /\ \E t \in run[o].tables :
         IF t \in ListTables("target") /\ DatabaseExists("preserve")
         THEN /\ db' = [db EXCEPT
                   !["preserve"] = [u \in DOMAIN @ \cup {t} |->
                                      IF u = t THEN db["target"][t] ELSE @[u]],
                   !["target"] = [u \in DOMAIN @ \ {t} |-> @[u]]]
              /\ run' = [run EXCEPT ![o].tables = @ \ {t},
                             ![o].pc = IF run[o].tables = {t} THEN "drop" ELSE @]
         ELSE Refuse(o) /\ UNCHANGED db
    /\ UNCHANGED <<legacy, starts>>

\* All the tables listed at the start, in one statement that fails as a
\* whole when a source is gone or a destination exists.
RenameTables(o) ==
    LET tables == run[o].tables IN
    /\ At(o, "rename") /\ \A t \in tables : ~Locked(t)
    /\ IF /\ tables \subseteq ListTables("target")
          /\ DatabaseExists("preserve") /\ tables \cap ListTables("preserve") = {}
       THEN /\ db' = [db EXCEPT
                 !["preserve"] = [t \in DOMAIN @ \cup tables |->
                                    IF t \in tables THEN db["target"][t] ELSE @[t]],
                 !["target"] = [t \in DOMAIN @ \ tables |-> @[t]]]
            /\ Goto(o, "drop")
       ELSE Refuse(o) /\ UNCHANGED db
    /\ UNCHANGED <<legacy, starts>>

DropTarget(o) ==
    /\ At(o, "drop") /\ Unlocked
    /\ db' = [db EXCEPT !["target"] = None]
    /\ Goto(o, "create")
    /\ UNCHANGED <<legacy, starts>>

CreateTarget(o) ==
    /\ At(o, "create")
    /\ CreateDatabase(o, "target", "migrate")
    /\ UNCHANGED <<legacy, starts>>

-----------------------------------------------------------------------------
(* The migrations, one after the other, each on the version read before it. *)

TargetRows(t) == IF t \in ListTables("target") THEN db["target"][t].rows ELSE {}
TargetHas(t, name) == \E row \in TargetRows(t) : row.name = name

WithTable(t, rows) ==
    [db EXCEPT !["target"] =
        [u \in DOMAIN @ \cup {t} |->
            IF u = t THEN [schema |-> "bigint", rows |-> rows] ELSE @[u]]]

\* The last id that AUTO_INCREMENT gave out in a table.
StagedIds(o, t) ==
    IF t \in DOMAIN run[o].staged
    THEN {run[o].staged[t][id].id : id \in DOMAIN run[o].staged[t]} ELSE {}
LastId(t) ==
    LET ids == {0} \cup {row.id : row \in TargetRows(t)}
                   \cup UNION {StagedIds(o, t) : o \in Runs}
    IN  CHOOSE m \in ids : \A id \in ids : id <= m

\* Another run has put a row with one of the names into a table with a
\* unique key and has not committed it.
NameStaged(o, t, names) ==
    /\ t \in NameKeyed
    /\ \E p \in Runs \ {o} :
         /\ t \in DOMAIN run[p].staged
         /\ \E id \in DOMAIN run[p].staged[t] : run[p].staged[t][id].name \in names

Migrated == \E v \in TargetRows("goose") : v >= LaterSchema

\* The library creates its table, then reads the version: the next migration
\* is applied, or there is none.
RunMigrations(o) ==
    LET done == TargetRows("goose") IN
    /\ At(o, "migrate")
    /\ IF ~DatabaseExists("target") THEN Refuse(o) /\ UNCHANGED db
       ELSE IF "goose" \notin ListTables("target")
       THEN db' = WithTable("goose", {0}) /\ UNCHANGED run
       ELSE IF Migrated THEN Goto(o, "truncate") /\ UNCHANGED db
       ELSE /\ \E v \in done :
                 /\ \A w \in done : w <= v
                 /\ run' = [run EXCEPT ![o].pc = "apply", ![o].at = 1, ![o].version = v + 1]
            /\ UNCHANGED db
    /\ UNCHANGED <<legacy, starts>>

\* One table of the schema, and at the end the version.
CreateSchema(o) ==
    LET t == IF run[o].at > Len(SchemaOrder) THEN "goose" ELSE SchemaOrder[run[o].at] IN
    /\ At(o, "apply") /\ run[o].version = Schema
    /\ IF ~DatabaseExists("target") \/ (t \in ListTables("target")) # (t = "goose")
       THEN Refuse(o) /\ UNCHANGED db
       ELSE IF t = "goose"
       THEN /\ db' = WithTable("goose", TargetRows("goose") \cup {Schema})
            /\ Goto(o, "migrate")
       ELSE db' = WithTable(t, {}) /\ run' = [run EXCEPT ![o].at = @ + 1]
    /\ UNCHANGED <<legacy, starts>>

\* A seed row.  The later ones name an environment and an owner with INSERT
\* IGNORE, and are audited in the name of a user of the first.
SeedName(v) == IF v = ReferenceSeeds THEN "seed" ELSE "demo"
SeedRows(t, v) ==
    IF /\ t \in SeededTables(v)
       /\ ~(v = DemoSeeds /\ t \in NameKeyed /\ TargetHas(t, SeedName(v)))
       /\ ~(v = DemoSeeds /\ t = "audit_events" /\ ~TargetHas("users", "seed"))
    THEN {[id |-> LastId(t) + 1, name |-> SeedName(v), refs |-> <<>>]} ELSE {}

\* What makes a seed fail: a table or a column that is not there, or a
\* duplicate key (the name of a resource is still one).
SeedFails(v) ==
    \/ ~(SeededTables(v) \cup {"goose"} \subseteq ListTables("target")) \/ Migrated
    \/ \E t \in {"resources"} \cup (IF v = ReferenceSeeds THEN NameKeyed ELSE {}) :
         TargetHas(t, SeedName(v))

\* The seeds of a migration and its version are one transaction.
SeedData(o) ==
    LET v == run[o].version
        old == db["target"]
    IN
    /\ At(o, "apply") /\ v \in {ReferenceSeeds, DemoSeeds}
    /\ \A t \in SeededTables(v) : ~NameStaged(o, t, {SeedName(v)})
    /\ IF SeedFails(v) THEN Refuse(o) /\ UNCHANGED db
       ELSE /\ db' = [db EXCEPT !["target"] =
                  [t \in DOMAIN old |->
                     [old[t] EXCEPT !.rows = @ \cup IF t = "goose" THEN {v} ELSE SeedRows(t, v)]]]
            /\ Goto(o, "migrate")
    /\ UNCHANGED <<legacy, starts>>

\* The later changes of the schema, which fail on a schema that has them.
AlterSchema(o) ==
    /\ At(o, "apply") /\ run[o].version = LaterSchema
    /\ \A t \in AlteredTables : ~Locked(t)
    /\ IF ~(AlteredTables \cup {"goose"} \subseteq ListTables("target")) \/ Migrated
       THEN Refuse(o) /\ UNCHANGED db
       ELSE /\ db' = WithTable("goose", TargetRows("goose") \cup {LaterSchema})
            /\ Goto(o, "migrate")
    /\ UNCHANGED <<legacy, starts>>

\* One table of the target is emptied.
TruncateTargetBusinessTables(o) ==
    LET t == TargetBusinessTables[run[o].at] IN
    /\ At(o, "truncate") /\ ~Locked(t)
    /\ IF t \notin ListTables("target") THEN Refuse(o) /\ UNCHANGED db
       ELSE /\ db' = WithTable(t, {})
            /\ IF run[o].at = Len(TargetBusinessTables) THEN Goto(o, "ensureEmpty")
               ELSE run' = [run EXCEPT ![o].at = @ + 1]
    /\ UNCHANGED <<legacy, starts>>

-----------------------------------------------------------------------------
(* The import *)

\* The count of one table.
EnsureEmptyTarget(o) ==
    LET t == TargetBusinessTables[run[o].at] IN
    /\ At(o, "ensureEmpty")
    /\ IF t \notin ListTables("target") THEN Refuse(o)
       ELSE IF TargetRows(t) # {} THEN Refuse(o)
       ELSE IF run[o].at = Len(TargetBusinessTables) THEN Goto(o, "import")
       ELSE run' = [run EXCEPT ![o].at = @ + 1]
    /\ UNCHANGED <<legacy, db, starts>>

\* The source rows; only profile tables may be missing.
SourceRows(t) == IF t \in ListTables("preserve") THEN db["preserve"][t].rows ELSE {}
SourceTableMissing(t) == t \notin ListTables("preserve") /\ t # "profiles"

\* AUTO_INCREMENT, in the order of the source query.
NewId(t, row) == LastId(t) + Cardinality({x \in SourceRows(t) : x.at <= row.at})

\* The mapping from source ids to new rows that a run built while it
\* imported the table of a reference.
RefMap(o, f) == IF RefTable[f] \in DOMAIN run[o].staged THEN run[o].staged[RefTable[f]] ELSE <<>>

\* A key the mapping does not have reads as the zero id; RefsMap is the
\* check that none is used.
MapRef(o, f, id) == IF id = None \/ id \notin DOMAIN RefMap(o, f) THEN None ELSE RefMap(o, f)[id].id

RefsMap(o, row) ==
    \A f \in DOMAIN row.refs : row.refs[f] = None \/ row.refs[f] \in DOMAIN RefMap(o, f)

Translate(o, t, row) ==
    [id |-> NewId(t, row), name |-> row.name,
     refs |-> [f \in DOMAIN row.refs |-> MapRef(o, f, row.refs[f])]]

\* What the target makes of a row: its table is there, with the columns of
\* the later schema where they are used, and no row has its unique key.
Insertable(t, row) ==
    /\ t \in ListTables("target")
    /\ t = "resources" \/ (t = "audit_events" /\ row.refs.actor = None) => Migrated
    /\ t \in NameKeyed => ~TargetHas(t, row.name)

\* The rows of a table, by their source id, in the transaction of a run.
StagedTable(o, t) ==
    [id \in {row.id : row \in SourceRows(t)} |->
        Translate(o, t, CHOOSE row \in SourceRows(t) : row.id = id)]

\* The next table of the import, or its commit.
ImportNext(o, staged) ==
    LET last == run[o].at = Len(ImportOrder) IN
    run' = [run EXCEPT ![o].staged = staged,
                       ![o].at = IF last THEN 1 ELSE @ + 1,
                       ![o].pc = IF last THEN "commit" ELSE "import"]

\* One import function: the rows of a table, in the transaction.  Without
\* source rows nothing is sent to the target.  A unique key makes it wait
\* for another import, and fail on a row already there.
ImportTable(o) ==
    LET t == ImportOrder[run[o].at]
        rows == SourceRows(t)
    IN
    /\ At(o, "import")
    /\ ~NameStaged(o, t, {row.name : row \in rows})
    /\ IF SourceTableMissing(t) \/ \E row \in rows : ~RefsMap(o, row) \/ ~Insertable(t, row)
       THEN Refuse(o)
       ELSE IF rows = {} THEN ImportNext(o, run[o].staged)
       ELSE ImportNext(o, [u \in DOMAIN run[o].staged \cup {t} |->
                             IF u = t THEN StagedTable(o, t) ELSE run[o].staged[u]])
    /\ UNCHANGED <<legacy, db, starts>>

Commit(o) ==
    LET old == db["target"]
        staged == run[o].staged
        new(t) == IF t \in DOMAIN staged
                  THEN {staged[t][id] : id \in DOMAIN staged[t]} ELSE {}
    IN
    /\ At(o, "commit")
    /\ db' = IF staged = <<>> THEN db
              ELSE [db EXCEPT !["target"] =
                      [t \in DOMAIN old |-> [old[t] EXCEPT !.rows = @ \cup new(t)]]]
    /\ run' = [run EXCEPT ![o] = [idleRun EXCEPT !.outcome = "ok"]]
    /\ UNCHANGED <<legacy, starts>>

-----------------------------------------------------------------------------

Next ==
    \E o \in Runs :
      \/ Start(o) \/ Stop(o)
      \/ CheckRuntime(o) \/ CheckTables(o) \/ CheckPreserve(o) \/ CheckPreserved(o)
      \/ CheckSchema(o) \/ CreatePreserve(o) \/ RenameTables(o) \/ DropTarget(o)
      \/ CreateTarget(o) \/ RunMigrations(o) \/ CreateSchema(o) \/ SeedData(o)
      \/ AlterSchema(o) \/ TruncateTargetBusinessTables(o) \/ EnsureEmptyTarget(o)
      \/ ImportTable(o) \/ Commit(o)

Spec == Init /\ [][Next]_vars

-----------------------------------------------------------------------------
(* Properties *)

\* The legacy rows are never lost: wherever the runs stopped and however they
\* overlapped, one database holds every legacy table with all its rows.
LegacySurvives ==
    \E d \in Databases :
        /\ DatabaseExists(d)
        /\ \A t \in DOMAIN legacy :
             /\ t \in ListTables(d)
             /\ db[d][t] = [schema |-> "legacy", rows |-> legacy[t]]

\* The name of the row of a set of rows with an id, as a set.
NameOf(rows, id) ==
    IF id = None THEN None ELSE {x.name : x \in {y \in rows : y.id = id}}

\* The target holds each legacy row, with references to the rows that carry
\* the names the legacy references did.
LegacyRows(t) == IF t \in DOMAIN legacy THEN legacy[t] ELSE {}
HoldsLegacy ==
    \A t \in BusinessTables : \A l \in LegacyRows(t) : \E n \in TargetRows(t) :
        /\ n.name = l.name
        /\ \A f \in DOMAIN l.refs :
             NameOf(LegacyRows(RefTable[f]), l.refs[f])
             = NameOf(TargetRows(RefTable[f]), n.refs[f])

HoldsNothingElse ==
    \A t \in BusinessTables : Cardinality(TargetRows(t)) = Cardinality(LegacyRows(t))

Succeeds(o) == run'[o].outcome = "ok" /\ run[o].outcome # "ok"

\* A rebuilt target is dropped only by a run that was told to resume: a
\* second run started by mistake, or overlapping the first, refuses.
OnlyResumeDropsTheRebuilt ==
    [][\A o \in Runs :
         /\ At(o, "drop") /\ run'[o].pc = "create"
         /\ \E t \in ListTables("target") : db["target"][t].schema = "bigint"
         => run[o].resume]_vars

-----------------------------------------------------------------------------
(* The inductive invariant: the cutover goes through three phases, and the *)
(* places of the runs tell which of them are still possible.               *)

\* The places a run can be in before anything was renamed.
Early == {"idle", "runtime", "tables", "preserve", "preserved", "empty", "fresh",
          "createPreserve", "rename"}
Places == Early \cup {"again", "drop", "create", "migrate", "apply", "truncate",
                      "ensureEmpty", "import", "commit"}

RunsTyped ==
    /\ legacy \in Legacies
    /\ DOMAIN db = Databases
    /\ DOMAIN run = Runs
    /\ \A o \in Runs : DOMAIN run[o] = DOMAIN idleRun /\ run[o].pc \in Places

\* The runtime is still the legacy one.
Untouched ==
    /\ db["target"] = LegacyTables(legacy)
    /\ db["preserve"] \in {None, <<>>}
    /\ \A o \in Runs : run[o].pc \in Early

\* All the legacy tables were renamed at once; at most the run that did it
\* is beyond the checks.
Renamed ==
    /\ db["preserve"] = LegacyTables(legacy) /\ "resources" \in DOMAIN legacy
    /\ ~HasTables("target")
    /\ \A o \in Runs : run[o].pc \in Early \cup {"again", "drop"}
    /\ \A o, p \in Runs : run[o].pc = "drop" /\ run[p].pc = "drop" => o = p

\* The tables of the migrations, whole or in part.
Rebuilt(tables) ==
    /\ tables = [t \in DOMAIN tables |-> tables[t]]
    /\ \A t \in DOMAIN tables : DOMAIN tables[t] = {"schema", "rows"}
                               /\ tables[t].schema = "bigint"

\* The runtime was dropped at least once.
Replaced ==
    /\ db["preserve"] = LegacyTables(legacy) /\ "resources" \in DOMAIN legacy
    /\ db["target"] = None \/ Rebuilt(db["target"])
    /\ \A o \in Runs : run[o].pc = "drop" => run[o].resume

\* Every run that listed the legacy tables listed all of them.
ListedInv(o) ==
    /\ run[o].pc \in {"preserve", "preserved", "empty", "fresh"} /\ Untouched =>
         run[o].tables = DOMAIN legacy
    /\ run[o].pc \in {"createPreserve", "rename"} =>
         run[o].tables = DOMAIN legacy /\ "resources" \in DOMAIN legacy

\* A run that has rows in a transaction keeps the target in place.
StagedInv(o) ==
    /\ run[o].pc \notin {"import", "commit"} => run[o].staged = <<>>
    /\ run[o].staged # <<>> => Rebuilt(db["target"])

CutoverInv ==
    /\ RunsTyped
    /\ Untouched \/ Renamed \/ Replaced
    /\ \A o \in Runs : ListedInv(o) /\ StagedInv(o)
=============================================================================
