----------------------------- MODULE Inventory -----------------------------
(***************************************************************************)
(* The governed inventory: configuration items (CIs), their identity,     *)
(* typed profile, observed values, manual overrides and relations, and    *)
(* the audit event that each mutation writes in its own transaction.      *)
(*                                                                         *)
(* A mutating transaction locks the resource rows it reads and writes     *)
(* before anything else and keeps them to its end, so it is one action.   *)
(* What a handler reads BEFORE its transaction (the archived check, the   *)
(* preview a reviewer sees, the candidates of an ingestion, the relation   *)
(* to delete) is an action of its own, and others may run in between.      *)
(*                                                                         *)
(* One environment, and one set of profile keys for every type.  "display" *)
(* stands for the CI's plain fields (owner, lifecycle, health and the      *)
(* like), "label" for its label map.                                       *)
(***************************************************************************)
EXTENDS Integers, Sequences, FiniteSets

CONSTANTS
    Clients,          \* handler goroutines, each serving one request after another
    Types, Names, Values,
    Aliases, Externals,
    Legacy,           \* the external identifiers of the system "legacy"
    AllowedRelations, \* pairs of types a relation may connect
    Seed,             \* the CIs registered before the behaviour starts
    Requests,         \* the requests clients send
    MaxOps,           \* bound on the requests served
    MaxSecond,        \* bound on the clock
    MaxCIs,           \* bound on the CIs
    ProfileKeys,      \* the keys of a typed profile
    Numbers,          \* the whole numbers among the values
    Blank,            \* "" or 0, what a column holds for a key that was left out
    None              \* NULL, an omitted part of a request

(* The facets an ingestion row describes, besides profile and relations.   *)
RowFields == {"name", "display", "aliases", "externals", "observed"}
(* The facets stored in the resources row and its identity tables.         *)
ResourceFields == {"name", "display", "aliases", "externals", "label"}

Override == [value : Values, version : Nat \ {0}]
(* A profile as it is submitted, and the profile row.                      *)
Submitted == UNION {[keys -> Values \cup {Blank}] : keys \in SUBSET ProfileKeys}
Profile == [ProfileKeys -> Values \cup {Blank}]

Resource ==
    [type : Types, name : Names, display : Values \cup {None},
     aliases : SUBSET Aliases, externals : SUBSET Externals,
     profile : Profile \cup {None}, observed : Values \cup {None},
     label : Values \cup {None}, override : Override \cup {None},
     archived : BOOLEAN, updatedAt : 0 .. MaxSecond]

Row == [type : Types, name : Names, display : Values, aliases : SUBSET Aliases,
        externals : SUBSET Externals, profile : Submitted \cup {None},
        observed : Values \cup {None}, targets : SUBSET (1 .. MaxCIs)]

(* No identity key occurs in two rows of a payload.                        *)
ParsedIngestion(rows) ==
    /\ rows \in Seq(Row)
    /\ rows # <<>>
    /\ \A i, j \in DOMAIN rows : i # j =>
          /\ <<rows[i].type, rows[i].name>> # <<rows[j].type, rows[j].name>>
          /\ rows[i].aliases \cap rows[j].aliases = {}
          /\ rows[i].externals \cap rows[j].externals = {}

ASSUME InventoryAssumption ==
    /\ \A r \in Requests : r.op = "ingest" => ParsedIngestion(r.rows)
    /\ Legacy \subseteq Externals /\ Numbers \subseteq Values
    /\ AllowedRelations \subseteq Types \X Types
    /\ Seed \in Seq(Resource)
    /\ {MaxOps, MaxSecond, MaxCIs} \subseteq Nat
    /\ Len(Seed) <= MaxCIs

(* What a PATCH, a profile mutation and a bulk patch may name, and what an *)
(* override may carry.                                                     *)
ASSUME RequestsAssumption ==
    \A r \in Requests :
        /\ r.op = "patch" => DOMAIN r.set \subseteq ResourceFields \cup {"externalId"}
        /\ r.op = "profile" => r.fields \in Submitted
        /\ r.op = "bulk" => DOMAIN r.set \subseteq {"name", "display", "externalId"}
        /\ r.op = "override" => r.value \in Values \cup {None} /\ r.expected \in Nat

ASSUME SentinelsAssumption == None # "ok" /\ None \notin Override /\ None \notin Profile

VARIABLES
    resources,   \* a sequence: the ID of a CI is its place
    relations,   \* resource_relations: [id, from, to]
    trail,       \* history: what replaying the audit events of a CI gives
    pc, req,
    memo,        \* what the request read before its transaction
    answer,
    relationIDs, \* AUTO_INCREMENT of resource_relations
    ops, second

store == <<resources, relations, trail, relationIDs>>
vars == <<store, pc, req, memo, answer, ops, second>>

IDs == DOMAIN resources
Targets(id) == {r.to : r \in {s \in relations : s.from = id}}

(* The value under a key of a profile, or nothing.                         *)
Get(profile, key) ==
    IF profile = None THEN None ELSE IF key \in DOMAIN profile THEN profile[key] ELSE None
OrBlank(value) == IF value = None THEN Blank ELSE value

(* What the audit trail of a CI is about: its facets, each key of its      *)
(* profile, blank where there is none, and the relations at either end.    *)
Facets == RowFields \cup {"label", "override", "archived"}
FacetsOf(ci) ==
    [f \in Facets |-> IF f = "override" /\ ci.override # None
                      THEN ci.override.value ELSE ci[f]]
ProfileOf(ci) == [k \in ProfileKeys |-> OrBlank(Get(ci.profile, k))]
LinksAt(rels, id) ==
    {<<r.to, "outgoing">> : r \in {s \in rels : s.from = id}} \cup
    {<<r.from, "incoming">> : r \in {s \in rels : s.to = id}}

(* What replaying events from here on gives.  There is a gap when an event *)
(* did not start from the replayed value; mixed says that two rows of one  *)
(* ingestion described the CI.                                             *)
Untold(facets, profile, links) ==
    [facets |-> facets, profile |-> profile, links |-> links, gap |-> FALSE, mixed |-> FALSE]
Registered(cis, rels, id) == Untold(FacetsOf(cis[id]), ProfileOf(cis[id]), LinksAt(rels, id))

Init ==
    /\ resources = Seed
    /\ relations = {}
    /\ trail = [id \in DOMAIN Seed |-> Registered(resources, relations, id)]
    /\ pc = [c \in Clients |-> "idle"]
    /\ req = [c \in Clients |-> None]
    /\ memo = [c \in Clients |-> None]
    /\ answer = [c \in Clients |-> None]
    /\ relationIDs = 0
    /\ ops = 0
    /\ second = 0

-----------------------------------------------------------------------------
(* Steps of a handler.                                                     *)

(* The first step of a request.                                            *)
Begin(c, r) ==
    /\ pc[c] = "idle"
    /\ ops < MaxOps
    /\ ops' = ops + 1
    /\ req' = [req EXCEPT ![c] = r]

(* The request waits for its transaction with what it has read.            *)
Proceed(c, next, read) ==
    /\ pc' = [pc EXCEPT ![c] = next]
    /\ memo' = [memo EXCEPT ![c] = read]
    /\ answer' = [answer EXCEPT ![c] = None]
    /\ UNCHANGED <<store, second>>

Answer(c, outcome) ==
    /\ pc' = [pc EXCEPT ![c] = "idle"]
    /\ memo' = [memo EXCEPT ![c] = None]
    /\ answer' = [answer EXCEPT ![c] = outcome]
    /\ UNCHANGED second

Refuse(c, outcome) == Answer(c, outcome) /\ UNCHANGED store

(* A step after the first one.                                             *)
Continue(c, at, op) ==
    /\ pc[c] = at
    /\ req[c].op = op
    /\ UNCHANGED <<req, ops>>

-----------------------------------------------------------------------------
(* The tables.                                                             *)

(* Mutant: aliases and external identifiers are not unique.                *)
OnlyNamesAreUnique(cis) ==
    \A i, j \in DOMAIN cis :
        i # j => <<cis[i].type, cis[i].name>> # <<cis[j].type, cis[j].name>>

(* uq_resource_name_env_type, uq_resource_alias_env and                    *)
(* uq_resource_external_identifier.                                        *)
UniqueKeysHold(cis) ==
    \A i, j \in DOMAIN cis : i # j =>
        /\ <<cis[i].type, cis[i].name>> # <<cis[j].type, cis[j].name>>
        /\ cis[i].aliases \cap cis[j].aliases = {}
        /\ cis[i].externals \cap cis[j].externals = {}

(* The registered CIs satisfy the keys of their tables.                    *)
ASSUME SeedAssumption == UniqueKeysHold(Seed)

Edited(ci, input) == [f \in DOMAIN ci |-> IF f \in DOMAIN input THEN input[f] ELSE ci[f]]

(* Every statement on the resources row sets updated_at, to the second.    *)
updateResourceTx(ci, input) == Edited([ci EXCEPT !.updatedAt = second], input)

(* An audit change names a facet, its value before and its value after.    *)
Changes(before, input) ==
    [f \in {g \in DOMAIN input : before[g] # input[g]} |->
        [before |-> before[f], after |-> input[f]]]
resourceAuditChanges(before, input) == Changes(before, input)

(* The keys under which two profiles differ: a missing key differs from a  *)
(* blank one.  An event leaves out a value that is missing.                *)
diffMaps(before, after) ==
    [k \in {j \in ProfileKeys : Get(before, j) # Get(after, j)} |->
        [before |-> Get(before, k), after |-> Get(after, k)]]
auditMapChanges(diff) ==
    [k \in DOMAIN diff |->
        [before |-> OrBlank(diff[k].before), after |-> OrBlank(diff[k].after)]]

After(values, changes) ==
    [f \in DOMAIN values |-> IF f \in DOMAIN changes THEN changes[f].after ELSE values[f]]
JoinsUp(values, changes) ==
    \A f \in DOMAIN changes : changes[f].before = values[f]

NoChanges == [f \in {} |-> None]
Replay(entry, changes, profile) ==
    [entry EXCEPT !.facets = After(@, changes), !.profile = After(@, profile),
                  !.gap = @ \/ ~JoinsUp(entry.facets, changes)
                            \/ ~JoinsUp(entry.profile, profile)]

ReplayLinks(entry, added, removed) ==
    [entry EXCEPT !.links = (@ \ removed) \cup added]

(* Relations are written with one event for either endpoint.               *)
LinksOf(id, from, to) ==
    (IF id = from THEN {<<to, "outgoing">>} ELSE {}) \cup
    (IF id = to THEN {<<from, "incoming">>} ELSE {})

(* Mutant: only the CI the relation starts from gets an event.             *)
RelationAddedAtSource(log, from, to) ==
    [log EXCEPT ![from] = ReplayLinks(@, LinksOf(from, from, to), {})]

RelationAdded(log, from, to) ==
    [id \in DOMAIN log |-> ReplayLinks(log[id], LinksOf(id, from, to), {})]
RelationRemoved(log, from, to) ==
    [id \in DOMAIN log |-> ReplayLinks(log[id], {}, LinksOf(id, from, to))]

-----------------------------------------------------------------------------
(* Manual CI registration.                                                 *)

(* Every column of the profile row is written, with a blank for a key that *)
(* was left out; an empty profile is a row of blanks, a missing one no row. *)
upsertProfileTx(submitted) == [k \in ProfileKeys |-> OrBlank(Get(submitted, k))]
Stored(submitted) == IF submitted = None THEN None ELSE upsertProfileTx(submitted)

New(r) ==
    [type |-> r.type, name |-> r.name, display |-> r.display, aliases |-> r.aliases,
     externals |-> r.externals, profile |-> Stored(r.profile), observed |-> None,
     label |-> None, override |-> None, archived |-> FALSE, updatedAt |-> second]

(* Registration writes no audit event: the trail starts from the row.      *)
Create(c, r) ==
    /\ r.op = "create"
    /\ Begin(c, r)
    /\ Len(resources) < MaxCIs
    /\ IF UniqueKeysHold(Append(resources, New(r)))
       THEN /\ resources' = Append(resources, New(r))
            /\ UNCHANGED <<relations, relationIDs>>
            /\ trail' = Append(trail, Registered(resources, relations, Len(resources))')
            /\ Answer(c, "ok")
       ELSE Refuse(c, "conflict")

-----------------------------------------------------------------------------
(* PATCH of a CI and of its typed profile: a read decides, a later         *)
(* transaction writes.                                                     *)

(* An external ID replaces the legacy identifiers among those just read.   *)
ValidateResourceUpdate(existing, set) ==
    IF "externalId" \notin DOMAIN set THEN set
    ELSE [f \in (DOMAIN set \ {"externalId"}) \cup {"externals"} |->
            IF f = "externals" THEN (existing.externals \ Legacy) \cup set.externalId
            ELSE set[f]]

ReadUnlessArchived(c, r, input) ==
    IF r.id \notin IDs THEN Refuse(c, "not_found")
    ELSE IF resources[r.id].archived THEN Refuse(c, "archived")
    ELSE Proceed(c, "write", input)

ValidateUpdate(c, r) ==
    /\ r.op = "patch"
    /\ Begin(c, r)
    /\ ReadUnlessArchived(c, r, ValidateResourceUpdate(resources[r.id], r.set))

InventoryProfileTarget(c, r) ==
    /\ r.op = "profile"
    /\ Begin(c, r)
    /\ IF r.mutation = "patch" /\ DOMAIN r.fields = {} /\ r.id \in IDs /\ ~resources[r.id].archived
       THEN Refuse(c, "ok")
       ELSE ReadUnlessArchived(c, r, r.fields)

UpdateResourceWithAudit(c) ==
    /\ Continue(c, "write", "patch")
    /\ LET id == req[c].id
           before == resources[id]
           updated == [resources EXCEPT ![id] = updateResourceTx(before, memo[c])]
       IN IF UniqueKeysHold(updated)
          THEN /\ resources' = updated
               /\ trail' = [trail EXCEPT ![id] =
                                Replay(@, resourceAuditChanges(before, memo[c]), NoChanges)]
               /\ UNCHANGED <<relations, relationIDs>>
               /\ Answer(c, "ok")
          ELSE Refuse(c, "conflict")

(* A patch keeps the keys it leaves out, and creates the row if need be.   *)
patchProfile(before, fields) ==
    [k \in ProfileKeys |-> OrBlank(Get(IF k \in DOMAIN fields THEN fields ELSE before, k))]

ProfileAfter(r, before) ==
    CASE r.mutation = "put" -> upsertProfileTx(r.fields)
      [] r.mutation = "patch" -> patchProfile(before, r.fields)
      [] OTHER -> None

(* PUT, PATCH and DELETE of the profile row; the resources row is only     *)
(* locked.                                                                 *)
MutateProfileWithAudit(c) ==
    /\ Continue(c, "write", "profile")
    /\ LET id == req[c].id
           before == resources[id].profile
           after == ProfileAfter(req[c], before)
       IN /\ resources' = [resources EXCEPT ![id].profile = after]
          /\ trail' = [trail EXCEPT ![id] =
                 Replay(@, NoChanges, auditMapChanges(diffMaps(before, after)))]
    /\ UNCHANGED <<relations, relationIDs>>
    /\ Answer(c, "ok")

-----------------------------------------------------------------------------
(* Archiving: the guarded UPDATE repeats the check of the earlier read, and *)
(* no audit event is written.                                              *)

ArchiveResource(ci, to) ==
    IF ci.archived = to THEN ci ELSE [ci EXCEPT !.archived = to, !.updatedAt = second]

Archive(c, r) ==
    /\ r.op = "archive"
    /\ Begin(c, r)
    /\ IF r.id \notin IDs THEN Refuse(c, "not_found")
       ELSE IF resources[r.id].archived = r.to THEN Refuse(c, "ok")
       ELSE /\ resources' = [resources EXCEPT ![r.id] = ArchiveResource(@, r.to)]
            /\ UNCHANGED <<relations, trail, relationIDs>>
            /\ Answer(c, "ok")

-----------------------------------------------------------------------------
(* Relations.                                                              *)

MayRelate(cis, from, to) == from # to /\ <<cis[from].type, cis[to].type>> \in AllowedRelations

CheckRelation(c, r) ==
    /\ r.op = "relate"
    /\ Begin(c, r)
    /\ IF {r.from, r.to} \cap IDs # {r.from, r.to} THEN Refuse(c, "not_found")
       ELSE IF resources[r.from].archived \/ resources[r.to].archived
       THEN Refuse(c, "archived")
       ELSE IF ~MayRelate(resources, r.from, r.to) THEN Refuse(c, "validation")
       ELSE Proceed(c, "write", None)

Related(rels, from, to) == \E r \in rels : r.from = from /\ r.to = to

CreateRelationWithAudit(c) ==
    /\ Continue(c, "write", "relate")
    /\ LET from == req[c].from
           to == req[c].to
       IN IF Related(relations, from, to) THEN Refuse(c, "conflict")
          ELSE /\ relations' = relations \cup
                        {[id |-> relationIDs + 1, from |-> from, to |-> to]}
               /\ relationIDs' = relationIDs + 1
               /\ trail' = RelationAdded(trail, from, to)
               /\ UNCHANGED resources
               /\ Answer(c, "ok")

(* The relation is read first; its row is deleted by ID afterwards.        *)
GetRelation(c, r) ==
    /\ r.op = "unrelate"
    /\ Begin(c, r)
    /\ \/ \E relation \in relations : Proceed(c, "write", relation)
       \/ relations = {} /\ Refuse(c, "not_found")

DeleteRelationWithAudit(c) ==
    /\ Continue(c, "write", "unrelate")
    /\ IF memo[c] \notin relations THEN Refuse(c, "not_found")
       ELSE /\ relations' = relations \ {memo[c]}
            /\ trail' = RelationRemoved(trail, memo[c].from, memo[c].to)
            /\ UNCHANGED <<resources, relationIDs>>
            /\ Answer(c, "ok")

-----------------------------------------------------------------------------
(* Manual overrides: one transaction, guarded by the version the caller    *)
(* names.  Clearing deletes the row, and with it the version.               *)

Version(id) == IF resources[id].override = None THEN 0 ELSE resources[id].override.version
OverrideChange(id, value) ==
    [override |-> [before |-> FacetsOf(resources[id]).override, after |-> value]]

NextVersion(expected) == expected + 1

SetManualOverride(c, r) ==
    /\ r.op = "override"
    /\ r.value # None
    /\ Begin(c, r)
    /\ IF r.id \notin IDs THEN Refuse(c, "not_found")
       ELSE IF Version(r.id) # r.expected THEN Refuse(c, "conflict")
       ELSE /\ resources' = [resources EXCEPT ![r.id].override =
                                [value |-> r.value, version |-> NextVersion(r.expected)]]
            /\ trail' = [trail EXCEPT ![r.id] = Replay(@, OverrideChange(r.id, r.value), NoChanges)]
            /\ UNCHANGED <<relations, relationIDs>>
            /\ Answer(c, "ok")

ClearManualOverride(c, r) ==
    /\ r.op = "override"
    /\ r.value = None
    /\ Begin(c, r)
    /\ IF r.id \notin IDs \/ resources[r.id].override = None THEN Refuse(c, "not_found")
       ELSE IF Version(r.id) # r.expected THEN Refuse(c, "conflict")
       ELSE /\ resources' = [resources EXCEPT ![r.id].override = None]
            /\ trail' = [trail EXCEPT ![r.id] = Replay(@, OverrideChange(r.id, None), NoChanges)]
            /\ UNCHANGED <<relations, relationIDs>>
            /\ Answer(c, "ok")

-----------------------------------------------------------------------------
(* Bulk mutation: a preview is reviewed, then confirmed for all targets or  *)
(* none.  A request names a field patch, a label operation and, for each    *)
(* target, the version its author saw.                                     *)

bulkResourceSnapshot(id) ==
    [version |-> resources[id].updatedAt, name |-> resources[id].name,
     display |-> resources[id].display, label |-> resources[id].label,
     externalId |-> resources[id].externals \cap Legacy]

LabelOperation == [kind : {"add", "update", "remove", "none"}, value : Values \cup {None}]

LabelFits(operation, label) ==
    CASE operation.kind = "add" -> label = None
      [] operation.kind \in {"update", "remove"} -> label # None
      [] OTHER -> TRUE

(* The update of a target: the patch, and the label map with the operation  *)
(* applied when there is one.                                               *)
validatedBulkResourceUpdate(id, r) ==
    ValidateResourceUpdate(resources[id],
        [f \in DOMAIN r.set \cup (IF r.label.kind = "none" THEN {} ELSE {"label"}) |->
            IF f = "label" THEN r.label.value ELSE r.set[f]])

BulkItem(id, r, expected) ==
    [conflict |-> bulkResourceSnapshot(id).version # expected[id],
     fits |-> LabelFits(r.label, resources[id].label) /\ ~resources[id].archived,
     diff |-> Changes(bulkResourceSnapshot(id),
                      [f \in DOMAIN r.set |-> r.set[f]]),
     label |-> <<resources[id].label, r.label>>]

PreviewBulkResourceMutation(r, expected) ==
    [items |-> [id \in r.ids |-> BulkItem(id, r, expected)],
     fingerprint |-> <<r, expected, [id \in r.ids |-> bulkResourceSnapshot(id)]>>]

BulkConfirmable(preview) ==
    \A id \in DOMAIN preview.items : preview.items[id].fits /\ ~preview.items[id].conflict

(* The author reads the targets and their versions, and the preview.       *)
PreviewBulk(c, r) ==
    /\ r.op = "bulk"
    /\ Begin(c, r)
    /\ LET expected == [id \in r.ids |-> resources[id].updatedAt]
           preview == PreviewBulkResourceMutation(r, expected)
       IN IF r.ids \subseteq IDs /\ BulkConfirmable(preview)
          THEN Proceed(c, "confirm", [expected |-> expected, preview |-> preview])
          ELSE Refuse(c, "conflict")

(* All targets are locked, previewed again and written, or none is.        *)
ConfirmBulkResourceMutation(c) ==
    /\ Continue(c, "confirm", "bulk")
    /\ LET r == req[c]
           preview == PreviewBulkResourceMutation(r, memo[c].expected)
           input(id) == validatedBulkResourceUpdate(id, r)
           updated == [id \in IDs |-> IF id \notin r.ids THEN resources[id]
                                      ELSE updateResourceTx(resources[id], input(id))]
       IN IF /\ BulkConfirmable(preview)
             /\ preview.fingerprint = memo[c].preview.fingerprint
             /\ UniqueKeysHold(updated)
          THEN /\ resources' = updated
               /\ trail' = [id \in IDs |-> IF id \notin r.ids THEN trail[id]
                    ELSE Replay(trail[id], resourceAuditChanges(resources[id], input(id)),
                                NoChanges)]
               /\ UNCHANGED <<relations, relationIDs>>
               /\ Answer(c, "ok")
          ELSE Refuse(c, "conflict")

-----------------------------------------------------------------------------
(* Ingestion: rows are matched to CIs by external identifier, alias and    *)
(* name, and the differences are previewed, reviewed and confirmed.         *)

matchSnapshots(row, ids) ==
    [external |-> {i \in ids : row.externals \cap resources[i].externals # {}},
     alias |-> {i \in ids : row.aliases \cap resources[i].aliases # {}},
     name |-> {i \in ids : <<row.type, row.name>> = <<resources[i].type, resources[i].name>>}]
Matched(row, ids) == UNION {matchSnapshots(row, ids)[stage] : stage \in {"external", "alias", "name"}}

(* An observed value left out of the row is not compared; everything else  *)
(* the row leaves out is a removal.                                        *)
Described(row) ==
    [f \in IF row.observed = None THEN RowFields \ {"observed"} ELSE RowFields |-> row[f]]

Zero == [name |-> None, display |-> None, aliases |-> {}, externals |-> {},
         profile |-> None, observed |-> None]

(* A whole number in a row is an integer, the stored one is read as a      *)
(* float: they differ although they are the same JSON.                     *)
addDiff(f, before, after) == before # after \/ (f = "observed" /\ after \in Numbers)

diffIngestion(row, before, targets) ==
    LET described == Described(row)
    IN [fields |-> [f \in {g \in DOMAIN described : addDiff(g, before[g], described[g])} |->
                        [before |-> before[f], after |-> described[f]]],
        profile |-> diffMaps(before.profile, row.profile),
        added |-> row.targets \ targets, removed |-> targets \ row.targets]

NoDiff == [fields |-> NoChanges, profile |-> NoChanges, added |-> {}, removed |-> {}]

PreviewRow(row, ids) ==
    LET matched == Matched(row, ids)
        id == CHOOSE i \in matched : TRUE
    IN CASE matched = {} ->
            [action |-> "create", id |-> None, diff |-> diffIngestion(row, Zero, {})]
         [] Cardinality(matched) = 1 /\ resources[id].type = row.type ->
            [action |-> "update", id |-> id,
             diff |-> diffIngestion(row, resources[id], Targets(id))]
         [] OTHER -> [action |-> "conflict", id |-> None, diff |-> NoDiff]

(* The part of a CI the fingerprint covers.                                *)
IngestionSnapshot(id) ==
    [type |-> resources[id].type, fields |-> [f \in RowFields |-> resources[id][f]],
     profile |-> resources[id].profile, targets |-> Targets(id)]

PreviewIngestion(rows, ids) ==
    [rows |-> [i \in DOMAIN rows |-> PreviewRow(rows[i], ids)],
     fingerprint |-> <<rows, [id \in UNION {Matched(rows[i], ids) : i \in DOMAIN rows} |->
                                IngestionSnapshot(id)]>>]

Confirmable(preview) == \A i \in DOMAIN preview.rows : preview.rows[i].action # "conflict"

PreviewAndReview(c, r) ==
    /\ r.op = "ingest"
    /\ Begin(c, r)
    /\ LET preview == PreviewIngestion(r.rows, IDs)
       IN IF Confirmable(preview) THEN Proceed(c, "review", [preview |-> preview])
          ELSE Refuse(c, "conflict")

(* The confirmation looks the candidates up before its transaction begins. *)
FindIngestionCandidates(c) ==
    /\ Continue(c, "review", "ingest")
    /\ Proceed(c, "confirm",
           [preview |-> memo[c].preview,
            candidates |-> UNION {Matched(req[c].rows[i], IDs) : i \in DOMAIN req[c].rows}])

(* One row inside the transaction, after the rows before it.  A state of   *)
(* the transaction: its tables, its audit events, and whether it goes on.   *)
Aborted(tx) == [tx EXCEPT !.ok = FALSE]

(* Fields are written one by one, but a profile with any difference whole.  *)
Written(row, diff) ==
    [f \in DOMAIN diff.fields \cup (IF DOMAIN diff.profile = {} THEN {} ELSE {"profile"}) |->
        IF f = "profile" THEN Stored(row.profile) ELSE diff.fields[f].after]

(* The events say what the preview compared, not what the rows before this *)
(* one have left.                                                          *)
sourceIngestionAuditChanges(entry, diff) ==
    Replay(entry, diff.fields, auditMapChanges(diff.profile))

Unregistered ==
    Untold([f \in Facets |-> IF f \in RowFields THEN Zero[f]
                             ELSE IF f = "archived" THEN FALSE ELSE None],
           [k \in ProfileKeys |-> Blank], {})

ApplyFields(tx, row, previewed) ==
    LET id == IF previewed.action = "create" THEN Len(tx.resources) + 1 ELSE previewed.id
        diff == previewed.diff
        written == Written(row, diff)
        touched == DOMAIN written \cap ResourceFields # {}
        after == IF previewed.action = "create"
                 THEN [tx EXCEPT !.resources = Append(@, Edited(New(row), written)),
                                 !.trail = Append(@, sourceIngestionAuditChanges(Unregistered, diff))]
                 ELSE [tx EXCEPT !.resources[id] =
                            IF touched THEN updateResourceTx(@, written) ELSE Edited(@, written),
                                 !.trail[id] = sourceIngestionAuditChanges(@, diff)]
    IN [after EXCEPT !.ok = UniqueKeysHold(after.resources), !.id = id]

(* Mutant: relations the row leaves out are kept.                          *)
KeepRelations(tx, removed) == tx

RemoveRelations(tx, removed) ==
    LET gone == {r \in tx.relations : r.from = tx.id /\ r.to \in removed}
    IN IF {r.to : r \in gone} # removed THEN Aborted(tx)
       ELSE [tx EXCEPT !.relations = @ \ gone,
                       !.trail = [i \in DOMAIN @ |-> ReplayLinks(@[i], {},
                                    UNION {LinksOf(i, tx.id, t) : t \in removed})]]

(* Archived endpoints are refused under the lock.                          *)
AddRelations(tx, added) ==
    IF \E t \in added :
        \/ t \notin DOMAIN tx.resources
        \/ tx.resources[tx.id].archived \/ tx.resources[t].archived
        \/ ~MayRelate(tx.resources, tx.id, t)
        \/ Related(tx.relations, tx.id, t)
    THEN Aborted(tx)
    ELSE [tx EXCEPT !.relations = @ \cup
              {[id |-> tx.ids + Cardinality({u \in added : u <= t}), from |-> tx.id, to |-> t] :
                  t \in added},
                    !.ids = @ + Cardinality(added),
                    !.trail = [i \in DOMAIN @ |-> ReplayLinks(@[i],
                                    UNION {LinksOf(i, tx.id, t) : t \in added}, {})]]

ApplyRow(tx, row, previewed) ==
    IF ~tx.ok THEN tx
    ELSE LET fields == ApplyFields(tx, row, previewed)
             removed == IF fields.ok THEN RemoveRelations(fields, previewed.diff.removed) ELSE fields
         IN IF removed.ok THEN AddRelations(removed, previewed.diff.added) ELSE removed

(* The row is the only one of its payload for its CI.                      *)
Lone(preview, i) ==
    \A j \in DOMAIN preview.rows \ {i} :
        preview.rows[i].action = "create" \/ preview.rows[j].id # preview.rows[i].id

Mixed(log, preview) ==
    [id \in DOMAIN log |-> [log[id] EXCEPT !.mixed =
        @ \/ \E i \in DOMAIN preview.rows : preview.rows[i].id = id /\ ~Lone(preview, i)]]

Applied(rows, preview) ==
    LET run[i \in 0 .. Len(rows)] ==
            IF i = 0
            THEN [resources |-> resources, relations |-> relations,
                  trail |-> Mixed(trail, preview), ids |-> relationIDs, id |-> None, ok |-> TRUE]
            ELSE ApplyRow(run[i - 1], rows[i], preview.rows[i])
    IN run[Len(rows)]

(* Mutant: the reviewed differences are written without a new preview.     *)
ConfirmAsReviewed(c) ==
    /\ Continue(c, "confirm", "ingest")
    /\ LET tx == Applied(req[c].rows, memo[c].preview)
       IN IF ~tx.ok THEN Refuse(c, "error")
          ELSE /\ Len(tx.resources) <= MaxCIs
               /\ resources' = tx.resources
               /\ relations' = tx.relations
               /\ trail' = tx.trail
               /\ relationIDs' = tx.ids
               /\ Answer(c, "ok")

(* The candidates and the submitted relation endpoints are locked, the     *)
(* preview is repeated over them and must be the reviewed one.              *)
ConfirmIngestion(c) ==
    /\ Continue(c, "confirm", "ingest")
    /\ LET rows == req[c].rows
           preview == PreviewIngestion(rows, memo[c].candidates)
           tx == Applied(rows, preview)
       IN IF ~Confirmable(preview) THEN Refuse(c, "conflict")
          ELSE IF preview.fingerprint # memo[c].preview.fingerprint THEN Refuse(c, "stale")
          ELSE IF ~tx.ok THEN Refuse(c, "error")
          ELSE /\ Len(tx.resources) <= MaxCIs
               /\ resources' = tx.resources
               /\ relations' = tx.relations
               /\ trail' = tx.trail
               /\ relationIDs' = tx.ids
               /\ Answer(c, "ok")

-----------------------------------------------------------------------------

(* A statement fails and the transaction rolls back, or the reviewer gives *)
(* up.                                                                     *)
Fail(c) ==
    /\ pc[c] # "idle"
    /\ Refuse(c, "error")
    /\ UNCHANGED <<req, ops>>

Tick ==
    /\ second < MaxSecond
    /\ second' = second + 1
    /\ UNCHANGED <<store, pc, req, memo, answer, ops>>

Next ==
    \/ Tick
    \/ \E c \in Clients :
        \/ \E r \in Requests :
            \/ Create(c, r) \/ Archive(c, r)
            \/ ValidateUpdate(c, r) \/ InventoryProfileTarget(c, r)
            \/ CheckRelation(c, r) \/ GetRelation(c, r)
            \/ SetManualOverride(c, r) \/ ClearManualOverride(c, r)
            \/ PreviewBulk(c, r) \/ PreviewAndReview(c, r)
        \/ UpdateResourceWithAudit(c) \/ MutateProfileWithAudit(c)
        \/ CreateRelationWithAudit(c) \/ DeleteRelationWithAudit(c)
        \/ ConfirmBulkResourceMutation(c)
        \/ FindIngestionCandidates(c) \/ ConfirmIngestion(c)
        \/ Fail(c)

Spec == Init /\ [][Next]_vars

-----------------------------------------------------------------------------

(* Every mutation but archival logs what it changed in the same            *)
(* transaction: replaying a CI's audit events from its registration gives  *)
(* the CI and its relations at both ends, whatever interleaves with the    *)
(* reads that precede a transaction.  Two rows of one ingestion may        *)
(* describe the CI: the replay still gives everything but its profile,     *)
(* which the second row writes whole and logs only in part.                *)
AuditTrailReplays ==
    \A id \in IDs :
        /\ \A f \in Facets \ {"archived"} : trail[id].facets[f] = FacetsOf(resources[id])[f]
        /\ trail[id].mixed \/ trail[id].profile = ProfileOf(resources[id])
        /\ trail[id].links = LinksAt(relations, id)

(* The "previous field value" of an audit change is the value that the     *)
(* events before it left, although every transaction is decided by reads   *)
(* made before it.  Only where two rows of one ingestion described a CI    *)
(* may the second give a value that the first had replaced.                *)
BeforeIsThePreviousValue == \A id \in IDs : trail[id].gap => trail[id].mixed

Confirms(c, op) == pc[c] = "confirm" /\ req[c].op = op /\ answer'[c] = "ok"

(* What a confirmation commits is what was reviewed: the preview over the   *)
(* WHOLE inventory at the commit is the reviewed one, although candidates   *)
(* were looked up before the locks and a CI may have taken the identity of *)
(* a row since.                                                            *)
ReviewedIsApplied ==
    [][\A c \in Clients :
        /\ Confirms(c, "ingest") =>
              memo[c].preview.rows = PreviewIngestion(req[c].rows, IDs).rows
        /\ Confirms(c, "bulk") =>
              memo[c].preview.items = PreviewBulkResourceMutation(req[c], memo[c].expected).items]_vars

(* What is left to differ once a row is stored: a whole number, and a key   *)
(* the row leaves out, which is stored blank.                              *)
OnlyConversionsDiffer(row, diff) ==
    /\ \A f \in DOMAIN diff.fields : f = "observed" /\ row.observed \in Numbers
    /\ \A k \in DOMAIN diff.profile :
          Get(row.profile, k) = None /\ diff.profile[k].before = Blank
    /\ diff.added = {} /\ diff.removed = {}

(* Once an ingestion has committed, each row that was alone with its CI     *)
(* matches exactly one CI, and that CI is what the row says: previewed      *)
(* again it differs in nothing but what the columns cannot hold.  No other  *)
(* row of the payload, and no handler in between, undid it.                *)
LoneRowsAreStored ==
    [][\A c \in Clients : Confirms(c, "ingest") =>
        \A i \in DOMAIN req[c].rows : Lone(memo[c].preview, i) =>
            (LET previewed == PreviewRow(req[c].rows[i], IDs)
             IN /\ previewed.action = "update"
                /\ OnlyConversionsDiffer(req[c].rows[i], previewed.diff))']_vars

(* An archived CI rejects PATCH and relation creation.                     *)
ArchivedIsFrozen ==
    [][\A c \in Clients :
        (pc[c] = "write" /\ pc'[c] = "idle" /\ answer'[c] = "ok") =>
            CASE req[c].op = "patch" -> ~resources[req[c].id].archived
              [] req[c].op = "relate" ->
                    ~resources[req[c].from].archived /\ ~resources[req[c].to].archived
              [] OTHER -> TRUE]_vars
=============================================================================
