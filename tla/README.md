# ControlHub backend: a TLA+ verification project

ControlHub is a Go service that (1) runs governed, audited, read-only queries
against registered MySQL/TiDB and PostgreSQL targets and (2) keeps an inventory
of resources (CIs), their relations and profiles, with reviewed bulk changes
and ingestion by machine collectors. All durable state is in one MySQL control
database; the server is a process of request goroutines that hold only caches.

The modules here model the parts where correctness depends on the order of
steps: transactions of several requests, acknowledgements that do not arrive,
retries, crashes, caches and locks. Each definition is translated from the Go
source; `PROJECT.json` ("map") names the lines.

## Inventory of the system

| Component | State | Operations | Talks to | What is hard | What makes it correct |
|---|---|---|---|---|---|
| Execution claims and evidence (`query_execution_service.go`, `query_mysql_execution.go`, `query_pg_*orchestration.go`, `query_execution_claim_repository.go`) | claims, execution rows, audit events; per attempt: owned key, record | execute, run saved statement, navigate related records | target databases, audit log | retries racing each other, lost acknowledgements, crashes between claim and finalize | one run per key; one evidence pair per attempt; answers agree with the record |
| Execution history (`ListExecutions`) | none of its own | page through rows and open claims | reads the tables above | paging while claims turn into rows | nothing twice, nothing skipped, no status reverts |
| Schema browser (`query_schema_service.go`, `query_schema_cache.go`) | bounded FIFO cache with two TTLs, singleflight group | list databases/schemas/objects, object detail, relationship map, table definition | credential rows, targets, audit log | expiry and eviction races, coalesced reads, changed bindings, audit failures | answers describe the request; map and queue agree; no unaudited answer |
| Collector scans (`collector_scan_repository.go`, `ConfirmCollectorIngestion`) | scan ledger, omission state per CI | confirm a scan | ingestion | duplicates, lost commit, state limit, lock waits | each scan applied once; states follow the committed scans |
| Inventory (`resource_repository.go`, `relation_repository.go`, `resource_service.go`, `ingestion_preview.go`, `bulk_resource_preview.go`) | resources, identities, profiles, overrides, relations, audit events | register, patch, profile writes, override, archive, relate, bulk and ingestion preview/confirm | audit log | checks made before the transaction that relies on them | reviewed = applied; the audit trail replays |
| PostgreSQL governed attempt (`pg_query_executor.go`, `pg_binding_gate.go`, `pg_result_verifier.go`, `pg_attempt_*.go`, `pg_disclosure.go`) | two pools, a transaction with locks, stage, statement fate, budget, evidence | input, guard, connect, identity, bind, rewrite, preflight, parameters, execute, verify, audit, deliver; cleanup | target, claims | other sessions' DDL between probe and parse, cancellation and broken connections at every stage | what is delivered was bound and approved; the page is the user's; the evidence is true; locks are released |
| MySQL chain (`query_guard.go`, `query_disclosure_*.go`, `query_executor.go`, `query_result_contract.go`) | disclosure policies; per query: plan, result, page | guard, inspect, read policies, execute, mask, page | target | columns and policies that change between the reads, limits met in the middle of a page | shown as some policy in force said; pages fit together |
| Accounts and machine principals (`auth_service.go`, `user_repository.go`, `machine_principal_*.go`, middlewares) | users with roles, versions and hashes; tokens; credentials; rejection budget | login, verify, change role, disable, reset, create, rotate, revoke | audit log | versions read before they are signed; clock read before the mutex | a reset wins; effects rest on live authority; the budget holds |
| Workspaces, saved statements, named views | rows per owner, one with a version | read, create, update, delete | accounts | authorization, write and answer are three statements | no lost edit; nothing on another's authority |
| Server lifecycle (`cmd/server/shutdown.go`) | signal, drain timer | drain, forced exit | handlers | a bound racing handlers | evidence survives |
| Local cutover (`internal/cutover`) | two databases | preserve, rebuild, migrate, import, resume | - | a stop between any two statements, overlapping runs | the legacy rows survive; success means imported |
| `internal/pgsql` parser and rewriter, template compiler, explain, inspectors | none | pure checks and rewrites, driver I/O | - | SQL grammar | - |

`PROJECT.json` lists all components with their status, and under "hazards"
what a test would hardly reach, at the line where it bites.

## Modules

```
IdempotencyLedger   what a client is promised about a key          (abstract)
EvidenceStore       what readers may assume about the two tables   (abstract)
   ^        ^
   |        +---- ExecutionHistory  extends EvidenceStore with a paging reader
   +------------- ExecutionClaims   implements both (INSTANCE ... WITH)
CollectorScans      SchemaBrowser       Inventory
PGAttempt           MySQLQuery           the two engines' query chains
Accounts  <-------- Workbench            extends Accounts with what its calls do
Cutover
ExecutionClaimsProofs  CollectorScansProofs  SchemaBrowserProofs  InventoryProofs
PGAttemptProofs        WorkbenchProofs       CutoverProofs        theorems on each
PagingProofs        theorems on ExecutionHistory and on MySQLQuery
MC*                 the bounded instances for TLC
```

**ExecutionClaims.** An attempt is the goroutine that serves one request
(`pc`, `req`); one action is what it does between two waits for a database:
`ResolveAccess`, `Prepare`, the claim INSERT (`TryClaim`, and
`ClassifyDuplicate` for the second read after a duplicate key), the MySQL chain
(`Guard`, `Preflight`, `RunMySQL`, `Apply`), the PostgreSQL chain (`PGChain`,
`RunPG`), the evidence transaction (`PersistKeyless` =
`InsertExecutionWithAudit`, `PersistKeyed` = `FinalizeClaimWithAudit`) and
`DeliveryGate`. `owned` is the `ownedKey` of the attempt, `rec` the terminal
record, `sent` is set when SQL goes to the target. A write whose
acknowledgement is lost goes to `limbo` (`ClaimStoreFails`, `PersistFails`): the
server goes on as after an error while the database may still commit it
(`LateClaim`, `LatePair`) or drop it (`LateAbort`). `Crash` loses every attempt
in progress and keeps the tables. `Digest` abstracts the SHA-256 digest to the
tuple it covers, so digests collide only for equal requests.
`GetClaimWithExecution` has no caller among the services; what it needs is
`LinkIntegrity`. The `notOccupant` branch of `PersistKeyed` models the defensive
refusal of the code; `FinalizeFindsItsClaim` shows it is never taken.

**EvidenceStore / ExecutionHistory.** The tables reduced to what a reader sees,
with three commits (claim, row, linked row). `ExecutionHistory` adds the client
of the cursor endpoint: each page is one statement over the union of the two
arms, `listed` and `base` remember the walk. Page size 1 makes every pair of
neighbours a page boundary. A claim finalized between two pages may be missed by
that walk, because it moves; `FinishedWalkIsComplete` is about the entries that
stayed where they were.

**SchemaBrowser.** A call is a handler goroutine: `Browse`, `ResolveMetadata`,
`Lookup`/`CheckAge`/`RemoveExpired` (the three critical sections of `Get`),
`Join`/`Fetch`/`Land`/`FetchFails` (singleflight, external: the leader reads
under its own context and its result, a cancellation too, is everyone's), `Set`,
`Define`, and the audit steps. `PutCredential` changes a row under the calls.

**CollectorScans.** A sender is a handler serving a confirmation for one machine
principal (all keys of both tables start with the principal). The transaction is
split where it waits: the ledger INSERT (`ClaimCollectorScan`, or
`CompareCollectorScanRetry` when the key is taken; `ClaimIsFree` is InnoDB's wait
for an uncommitted key), the locking read and the state update (`ApplyStates`,
`RefuseOverLimit`), `Commit` with or without acknowledgement. `Fail` is an error
at any point and rolls back. `log` is a history variable, the committed scans.

**Inventory.** Each locked transaction is one action; each read the code makes
before it is an action of its own, so everything may happen in between. A typed
profile is a set of keys. `upsertProfileTx` writes every column, with a blank (an
empty string or 0) for a key that was left out, and a blank is not a missing key
when `diffMaps` compares the stored profile with a row; an observed whole number
is an int in the row and a float when it is read back (`Numbers`). `trail` is the
replay of the audit events of a CI: its facets, its profile key by key, its
relations at both ends; `gap` is set once an event's Before is not what the events
before it left, `mixed` once two rows of one batch described the CI. Registration
writes no event and the trail starts from the row; archival writes none either,
and `archived` is a facet all the same. "display" stands for the plain columns,
"label" for one label; there is one environment and one set of profile keys.

**PGAttempt.** One governed attempt and its server. `pc` names the next
statement of the code, `stage` the stage the evidence reports. Every probe of the
binding gate is a step (`ResolveName`, `Touch`, `Recheck`, `ReadAttributes`, ...),
and between any two steps other sessions may swap schemas, rename columns,
attach children, drop relations or move the foreign key (`DDL`), as far as the
attempt's locks let them: a change that PostgreSQL would make wait for a lock the attempt holds is
not enabled. A name resolves to an OID in the catalog; a relation is an OID. The
server parses the dispatched statement by name (`ServerParse`) and remembers
what it read in `parsed`, which the properties compare with what the gate bound.
`ctx` and `left` are the context and its deadline, `cap` the armed
`statement_timeout`. `wire` is the user statement at the server; `fate` is what
the client knows of it. `ObserveRemoteState` builds the evidence, `Finish` applies
the plan, which may still fail and then leaves a completed statement, the stage
"transform" and no result. The pinned schema is checked for saved statements and
navigations and where a name may have been written without its schema; the model
does not tell whether a name of the pinned schema was. Witness columns and
rewriting are reduced to the positions they protect.

**MySQLQuery.** One MySQL query after another against a table whose column list
other sessions alter and whose policies administrators change: `Guard`,
`Inspect` (the metadata read of the preflight), `ReadPolicy` (one SELECT per
column), `Execute` (the scan with its row, cell and byte limits), `Apply` and
`Finalize`. A statement is a list of column expressions, `*` and literals
included. `FollowingPage` goes on with a walk. `seen` (history) is the set of modes a
policy had since the request came in.

**Accounts / Workbench.** A call is one HTTP request, from its arrival with a
token, a machine credential or a password to its answer; each SQL statement of
its middleware and handler is a step. `Workbench` extends `Accounts` with the
workspace, the saved statements and the named views, so that account changes
fall between the authorization of a call and its effect. `accountLog`,
`rejectionRows`, `effects` and `edits` are history variables. A read of the
workspace is not recorded as an effect: it takes the same authority path as the
reads of saved statements and views, which are.

**Cutover.** Every statement of the command is a step, a run may `Stop` after
any, and two runs may overlap. Tables hold rows with ids, a payload name and
references; the import assigns new ids after the last one given out. "profiles"
stands for four tables. The migrations (`src/migrations`) are four: the schema,
one CREATE TABLE per step; the reference seeds (`0002`), a row in every business
table; the demo seeds (`0004`, `00009`, `00010`), rows in all but roles and users,
some with INSERT IGNORE; and the later changes of the schema. `goose.Up` reads the
version and applies the next migration, or none on a migrated database, so a run
may find and continue the migrations of another (`RunMigrations`). A seed or an
import fails on a duplicate unique key (`NameKeyed`; `audit_events` has none) and
waits for one that is not committed (`NameStaged`); a table is locked against
TRUNCATE, RENAME and ALTER while a transaction has rows in it (`Locked`), and DROP
DATABASE waits for all of them. There is one preserve database name, as in one
invocation of the command; runs with different `--preserve-db` names are left out.

## Runs

| Run | Question | Result |
|---|---|---|
| claims | two attempts over MySQL and PostgreSQL entries, lost acknowledgements, crashes | one run per key, link integrity, one pair, answers match, the inductive invariant, refinement of `IdempotencyLedger` |
| claims_live | the same under fairness, with a moving clock | every accepted attempt is answered; an occupied key settles or its owner was told; refinement of `EvidenceStore` |
| history | a cursor walk against commits and finalizes | no duplicate, no gap, no reverting status |
| schema_cache | two calls on a full cache, five kinds of reads, a changing binding | map and queue agree, answers describe the request, audit, every call answered |
| scans | two senders, four scans, retries, limit | once-only, states = fold of the log, ok means recorded, answered |
| inventory | two clients, sixteen requests that meet, partial profiles and a batch with two rows for one CI among them | trail replays, its befores are the values before, reviewed is applied, a row alone with its CI is stored |
| pg_attempt | one attempt of each kind, DDL, cancellation, breaks | delivered what was bound, the user's page, true evidence, ends and releases |
| mysql_query | queries and page walks while columns and policies change | shown as a policy in force said, pages are one sequence |
| workbench | pairs of calls that meet while accounts change | a reset wins, the budget holds, live authority, no lost edit |
| cutover | two runs that stop anywhere, start again and overlap, seeds in every table | legacy rows survive, success has every legacy row and, without overlap, no other; only --resume drops a rebuilt target |
| archived_relation | "Archived resources reject PATCH and relation creation" | violated |
| schema_drift | "this catches schema drift between preflight and execution" | violated |

### Bounds

- Claims: two attempts and one key. The hazards are between an attempt and one
  contender, and a third meets one of the states two can reach. Requests cover
  both engines, all three entries, two scopes and two actors that share a
  number. `MaxNow` is 0 in `claims`; in `claims_live`, where times matter, it is
  1 and there are two requests, one per engine.
- History: two keys, two rows, clock 0..1 (ties and non-ties), four pages.
- Cache: capacity 1 (every insertion evicts), TTLs 1, clock 0..1, one
  binding change; the two stored rows differ in reference and default schema.
- Scans: threshold 2 instead of 3 and limit 1 instead of 500: both are compared
  with, never computed with; four sends reach the threshold, a reset and the limit.
- Inventory: four requests in all, of two clients, from two CIs; two profile keys,
  one of which a partial profile leaves out; one of the two values is a whole
  number; clock of one second boundary, because `updated_at` is the version of a
  bulk preview. The violation needs two requests.
- PGAttempt: five relations (two tables, a view, a child, an index) under two
  schemas; `Budget` 2 half milliseconds, so that the remainder below one
  millisecond occurs; two DDL statements (a change and its undoing) and one
  broken connection.
- MySQLQuery: two column names in five column lists, rows up to 5, page sizes and
  limits 2, 3 and 4, byte limits 2 and 5, `MaxInt` 9, so that the row limits, the
  byte budget and the overflow of the offset are all met.
- Workbench: two calls per behaviour, chosen as pairs that meet; versions up to
  2, clock 0..2, token age 2, window 2 with one rejection.
- Cutover: two starts, which are a run and the rerun after its stop, or two runs that
  overlap, over four legacy databases (complete, without profile tables, with a
  dangling reference, with a role's name of the seeds). One seed row per table stands
  for all, since rows are told apart by unique key only. The run's module adds a
  history variable, the runs that another has overlapped since they started.
- Symmetry permutes attempts, senders or clients and is off in every liveness run.
- Deadlock checking is off where the bounded number of requests ends;
  `ExecutionClaims` has an explicit `Quiescent` step instead.

### Fairness

Weak fairness of each serving goroutine (`Serve(a)`, `Serve(c)`, `Step(s)`): Go
schedules a runnable goroutine, and every wait is bounded by a context deadline
(five seconds for a query, two for the evidence), by the driver or by InnoDB's
lock wait timeout. Weak fairness is enough, because a waiting step stays enabled
once its lock or flight is free. `PGAttempt` assumes weak fairness of the
attempt (`Step`), of time (`Tick`), of the server noticing what arrives or a lost client
(`ServerNotices`) and of an armed `statement_timeout` (`ServerTimeout`), not of
`ServerFinish`: a statement may run for ever unless the timeout was armed, which is
what `EndsAndReleases` depends on. `Workbench`, `Cutover`, `MySQLQuery` and `Inventory` state
safety only. Clients, clocks, administrators, crashes, late commits and
`Fail` are not fair: no property needs a failure to happen.

## What the runs show against the documents

1. **archived_relation** - the archived check precedes the locks and is not
   repeated, so a PATCH or relation may commit on a resource archived meanwhile;
   `openapi.yaml:3721` says both are rejected with 409.
2. **schema_drift** - `query_disclosure_service.go:235-237` says that comparing
   the number of columns "catches schema drift between preflight and execution
   that could otherwise leak unplanned raw values". Drift that keeps the number
   is not caught: under `SELECT *` a reordered table has its masks applied to the
   wrong columns. `ShownAsThePolicySaid` holds in every other case.

Noted without a run (the models behave this way, no property claims otherwise):

- Archiving and unarchiving change a CI and write no audit event
  (`resource_repository.go:2599-2617`), although `CONTEXT.md:131-133` makes "its
  field-level before/after audit evidence" part of every accepted change.
  `AuditTrailReplays` is about the other facets: replayed, a CI is as archived as it
  was when its trail began.
- Rows of one batch may match one CI by different keys; all are compared with the CI
  before the batch (`ingestion_preview.go:494`), so the second event's before is not
  the "Previous field value" of `openapi.yaml:6609`. `BeforeIsThePreviousValue` says
  that this is the only case (`mixed`). The replay still ends at the right facets and
  relations, because the later after wins. Not so for the profile: the second row
  writes it whole and logs only what differs from the state before the batch, so what
  the first row set may be logged and gone. `AuditTrailReplays` makes no claim about
  the profile of such a CI.
- A profile key left out of a row is stored blank (`resource_repository.go:970-1046`)
  and read back, and `diffMaps` finds a blank different from nothing
  (`ingestion_preview.go:602-615`): the same row confirmed again is an update that
  writes and logs, although `repository/mysql/README.md:70` says "No-op
  reconfirmation emits no audit row." An observed whole number does the same (int
  against float). `LoneRowsAreStored` says that nothing else differs.
- The emptiness check of the import (`import.go:180`) precedes its transaction. A
  second run with --resume may drop the target, migrate it and start to truncate it
  in between; the first then imports beside the seeds of a table that is not
  truncated yet and that no unique key protects, such as `audit_events`, and reports
  success, against `import.go:664`, "target table %s must be empty before import". No
  legacy row is missing, and without overlap success means exactly the legacy rows:
  that is what `SuccessIsFaithful` says.
- `query_pg_orchestration.go:793-796` says of a failed admission "no user SQL ran
  and the key never became the occupant". The first half holds; the second fails
  when the INSERT commits and its acknowledgement is lost, after which retries get
  "already exists".
- `refresh=true` joins a read in flight, so its answer may predate the request;
  `query_schema_cache_test.go:86-87` gives refresh as "a way to force a fresh read".
- Registration commits no audit event; the trail of a CI starts from its row
  (`resource_repository.go:1270-1286`).
- Override versions restart after a clear; PATCH `externalId` rebuilds the
  identifiers from an unlocked read; a lost confirmation followed by a new preview
  changes the payload hash, so the collector's retry is a conflict.
- PostgreSQL: a cancellation right after the dispatch, while the bytes are in
  flight, lets the probe find an idle backend and report "stopped", and the
  statement still starts afterwards (`pg_attempt_evidence.go:157-161`).
  `EvidenceIsTrue` therefore makes no claim about the future of a stopped statement.
- A policy PUT with the mode already stored, and a named-view update equal to the
  stored row, answer 404: both read `RowsAffected`, which counts changed rows
  (`query_disclosure_repository.go:124-145`).
- A related-record result is never marked truncated by its row limit: LIMIT equals
  the scan limit (`query_execution_service.go:903-917`).
- SHOW, DESCRIBE and EXPLAIN pass the guard and are always refused by the preflight,
  which resolves no column for them.
- The list of saved statements reads headers and parameters in two SELECTs and may
  mix two versions; the single read says why it does not
  (`query_saved_statement_repository.go:118-122`).
- Cutover: a stop after the target was dropped and before `resources` exists again leaves a target
  on which --resume is refused (README.md:63 promises resume once preserved *and*
  rebuilt); a resume after a completed cutover drops newer runtime data.

## Proofs

`ExecutionClaimsProofs` proves, for all sets of attempts, keys, targets, scopes
and requests and every clock bound:

| Theorem | States |
|---|---|
| `TypeCorrect` | `Spec => []TypeOK` |
| `Invariance` | `Spec => []IInv` |
| `OneRunPerKey` | `Spec => []AtMostOneRunPerKey` |
| `LinksIntact` | `Spec => []LinkIntegrity` |
| `FinalizeNeverRefused` | `Spec => []FinalizeFindsItsClaim` |
| `EvidenceGrows` | `Spec => EvidenceOnlyGrows` |

Assumptions: those of `ExecutionClaims` only - PostgreSQL targets are targets,
keys are positive numbers, the requests are well formed (user-only entries,
scope iff PostgreSQL), sentinels are not values. TLC evaluates them in every run
of the module.

Argument. None of the safety properties is inductive: `AtMostOneRunPerKey` says
nothing about an attempt that is about to send, and `LinkIntegrity` nothing
about who will link a claim. `IInv` adds
- `AttemptInv`: an attempt owns, sends and leaves in limbo nothing before its
  claim; a lost claim belongs to an attempt that goes on as a failed admission;
- `OwnerInv`: a keyed attempt that executes owns its slot, and until its
  evidence commits the slot's claim is its own and unlinked - also while its
  pair is in limbo;
- `ClaimInv`: a claim has the identity of the attempt that inserted it;
- `RowInv`: row ids lie below the counter, so a new row never aliases a link.

`OwnerInv` gives the main theorem: two attempts that sent SQL for one slot both
own it, and a slot has one owner. The proof has one lemma per conjunct
(`AttemptInvStep`, `OwnerInvStep`, `ClaimInvStep`, `RowInvStep`,
`LinkIntegrityStep`, `FinalizeStep`), each over the actions grouped by what they
write (`StepMoves`, `StoreSteps`), and `CrashIInv` for the crash.

`CollectorScansProofs` proves, for all sets of senders, scans, CIs, fingerprints
and requests and every omission limit, state limit and number of sends:

| Theorem | States |
|---|---|
| `ScanTypes` | `Spec => []TypeOK` |
| `ScanAppliedOnce` | `Spec => []EachScanAppliedOnce` |
| `OkIsOnRecord` | `Spec => []OkMeansRecorded` |
| `StatesAreTheLogs` | `Spec => []StatesFollowTheLog` |

Assumption: `ScanAssumption` - the requests are well formed, the omission limit
is at least 1, the bounds are natural numbers, the sentinel is not a value.

Argument. `EachScanAppliedOnce` and `OkMeansRecorded` need `ClaimsAreExclusive`:
the transactions whose ledger row is written and not committed hold different
scans, none of them in the ledger, and a sender that was told ok is idle.
`ScanInv` is their conjunction. `StatesFollowTheLog` compares the states with
what the whole log says, so its step needs to know what a commit writes:
`StatesAreLocked` says that at most one transaction is about to commit, that it
holds exactly what its scan makes of the *current* states (nobody else's commit
came between), and that a scan a state names as its last is in the ledger, so a
new scan is never taken for one already counted. `LogInv` adds both.
`CommitFollows` splits a commit by what the scan does to a CI: seen
(`SeenFollows`: no omission is left), left out by an incomplete or failed scan
(`SkippedFollows`), left out by a complete one (`OmittedFollows`: one omission
more). `LogGrows` says how the sightings and the omissions of a log grow with one
entry; `Counting` is the one fact on cardinalities: the position that is the
n-th omission stays the n-th, and a new last one is the (n+1)-th.

The second half of `ExecutionClaimsProofs` goes on from `IInv` (same assumptions;
the sentinels also differ from what the refinement mapping shows):

| Theorem | States |
|---|---|
| `OnePair` | `Spec => []OnePairPerAttempt` |
| `AnswersAreTrue` | `Spec => []AnswersMatchEvidence` |
| `EvidenceStoreImplemented` | `Spec => ImplementsEvidenceStore` |
| `LedgerImplemented` | `Spec => ImplementsLedger` |

Argument. `EInv` adds three parts. `ProgressInv` ties the record an attempt
carries to the phase it is in; in it a success record exists only after the
statement was sent. `PairInv` says that a row exists only of an attempt that has
persisted and has no pair on its way, and that ids tell rows apart. `TimeInv`
bounds every time stamp by the clock and the claim's by its row's, which the
abstract store needs when a row appears. An answer
is judged when it is given (`AnswerGiven`) and kept because evidence only grows
(`AnswerStays`). The refinements map one step at a time: `EvidenceStep` shows a
step to be a claim, a row, a linked row or invisible; for the ledger a step
either sends (`LedgerSend`: the slot is occupied and nothing ran on it) or
writes (`LedgerWrite`: the occupant's outcome is set once).

`PagingProofs`, part one (`ExecutionHistory`), for every page size, number of
pages, keys, rows, clock and filter:

| Theorem | States |
|---|---|
| `WalksDoNotRepeat` | `HistorySpec => []NoExecutionListedTwice` |
| `WalksAreComplete` | `HistorySpec => []FinishedWalkIsComplete` |
| `StatusNeverReverts` | `HistorySpec => ShownStatusNeverReverts` |

Assumptions: `HistoryAssumption`, `QueriesAssumption` (positive page size, keys
are positive numbers, sentinels are no values, a stored status is not one of the
shown pseudo-statuses). Argument. The list order is strict and transitive and
tells any two entries of the union apart (`UnionIsLinear`), and the WHERE clause
of a cursor is exactly that order (`CursorIsOrder`). A page is therefore an
initial segment of what is after its cursor (`TrimmedIsPrefix`), and the entry
read beyond it is the only sign of more (`MoreIsSeen`). That a nonempty set has
a first and a last entry comes from the well-foundedness of the naturals, not
from an induction. `HistoryInv` relates the store (`StoreInv`, `LinkInv`), what
was listed (`WalkInv`: everything listed is at or before the cursor), what is
owed (`CoverInv`: an owed entry is listed or lies beyond the cursor) and what
was shown (`ShownInv`). The one interesting commit is a finalize between two
pages: the row it writes is no older than the claim it settles and a row sorts
before a claim of the same time, so it lies before the claim and is not met
again by a walk that has listed the claim.

`PagingProofs`, part two (`MySQLQuery`), for any tables, requests, policies, row
and byte limits and every maximal integer:

| Theorem | States |
|---|---|
| `ShownAsThePolicySaidHolds` | `Spec => []ShownAsThePolicySaid` |
| `PagesAreOneSequenceHolds` | `Spec => []PagesAreOneSequence` |

Assumptions: `LimitsAssumption` (positive row limits, `MaxInt` a natural number),
`RequestsAssumption` (a request with a page has a page size, which
`ValidatePagination` enforces), `TablesAssumption` (the column names of a table
are unique and no keyword is a column name), `ContentsAssumption`,
`SentinelsAssumption` (no stored value is what a masked cell shows). Argument.
`Base` types the request, the plan and the result along the phases. `DisclosureInv`
says that each mode read so far was, since the request came in, that of the policy
of the name at its position, and that the names are those the statement resolves to
in some table with the listed columns (`Planned`); that the result has the columns
the statement resolves to in the table of its execution (`Executed`); and that
after `Apply` a cell is masked exactly where the plan says so (`CellsFollowPlan`).
`Apply` compares only the number of columns. Without a star the resolved names do
not depend on the table, and with one the property excludes drift, so the names at
a position agree; with drift they need not (`schema_drift`). What `FlattenSeq`
joins is followed by the least position where it would fail. `PagesInv` says that
the scan kept a prefix of the window (`KeptPrefix`), that a page cut by the byte
budget is refused and not delivered, and that a walk holds the rows from its
first offset on without a gap; an offset beyond `MaxInt` is refused before it is
used.

`SchemaBrowserProofs`, for every capacity, lifetimes, requests and number of
calls (`CacheAssumption`):

| Theorem | States |
|---|---|
| `QueueAndEntriesAgree` | `Spec => []QueueListsTheEntries` |
| `AnswersBelongToRequests` | `Spec => []AnswerDescribesRequest` |
| `NoReadWithoutItsEvent` | `Spec => []ServedReadsAreAudited` |

Argument. `EntriesInv` says that an entry was computed for the key it is stored
under; `QueueListsTheEntries` is inductive beside it; `CallInv` that a call's key is the plan of its
request over the binding it resolved, and that what it holds, from the cache, a
flight of another call or its own read, was made for that key. `Removed` and
`Shifted` say what `removeKey` and the eviction do to a duplicate-free queue.

`InventoryProofs`, for any clients, requests, batches, registered CIs and numbers
of requests and seconds:

| Theorem | States |
|---|---|
| `ConfirmedAsReviewed` | `Spec => ReviewedIsApplied` |
| `TrailReplays` | `Spec => []AuditTrailReplays` |
| `LoneRowsAreStoredHolds` | `Spec => LoneRowsAreStored` |

No condition is put on the batches: they may hold two rows for one CI and partial
profiles. Assumptions: `InventoryAssumption` (parsed batches, bounds),
`RequestsAssumption` (what a PATCH, a profile mutation and a bulk patch may name,
which their request types fix; an override carries a value and a version),
`SeedAssumption` (the registered CIs satisfy the unique keys), `SentinelsAssumption`.

Argument. `Base` has the tables satisfy their keys (`TableInv`) and the handlers
carry what their reads gave (`HandlersInv`): a reviewed preview is a function of its
own fingerprint (`PreviewSound`, `BulkSound`), so equal fingerprints mean equal
previews. That compares the *candidates*; the property is about the whole
inventory. `CandidatesSuffice` closes the gap: a CI outside the candidates that
matches a row would share a unique key with the CI that the row creates or updates,
and the transaction would have failed on that key. To say so the proof follows the
rows of a batch one by one (`TableRunHolds`, `RowWritten`): what row i has written is
still in the table when the keys are checked after it.
For the trail, `Consistent` says that the entry of every CI tells its facets, its
links and, unless it is mixed, its profile, and that two CIs have at most one
relation. One lemma per kind of statement (`ReplaceOne`, `EventOne`, `AppendOne`,
`AddLinks`, `RemoveLinks`) keeps it and one per action uses them. In a batch the
second row about a CI logs differences from the state before the batch. That is
enough for a facet: either the row says the value the CI had before the batch, and
then nothing is written or logged, or it logs what it writes. It is not enough for
the profile, which is written whole, and there the entry is mixed. A row alone with
its CI finds the CI as the preview saw it, up to its links (`Untouched`), so its
profile events are exact; blank and missing keys are the same to the trail, because
an event leaves a missing value out and the columns read it back as blank.
For `LoneRowsAreStoredHolds`, what such a row has written stays to the end of the
batch, since no other row names its CI; with the unique keys, the row previewed
again matches that CI alone, and reading back what was stored leaves the two
conversions as the only differences.
The rows are followed without an induction principle: `LeastNatural` (from the
well-foundedness of the naturals) yields the first row after which a claim would
fail, and the step lemma contradicts it. `RunStep` shows in the same way that the
recursive function of `Applied` exists.

`PGAttemptProofs`, for every catalog, views, policies, statements, budget and
number of schema changes and broken connections (`PGConstants`):

| Theorem | States |
|---|---|
| `AttemptIsSound` | `Spec => []AttemptInv` |
| `DeliveredIsBound` | `Spec => []DeliveredWhatWasBound` |
| `PagesAreTheUsers` | `Spec => []PageIsTheUsersSlice` |
| `EvidenceHolds` | `Spec => []EvidenceIsTrue` |

Assumptions: the catalog, the statements, the policies and the bounds are well
typed; a page, its size and the row budget are positive (`PaginatePG` refuses
others); a navigation names its source; the other statements read at least one
relation (a statement without a relation binds nothing, and the model leaves it
out); None is not a value. Page arithmetic is over the naturals: the code
refuses what would overflow an int64. Argument. `AttemptInv` follows the
attempt. `NamesInv`: references are bound one by one, each under its own name.
`LocksInv`: as long as the backend lives, what was bound is locked, so the
columns and the foreign key read under the locks are still the catalog's
(`LocksStep` goes through the schema changes: each of them spares what is locked,
except the renaming of schemas and the attaching of children, which change
neither). `PlanInv`: window and plan are functions of the request and of what
was bound. `ReadInv`: when the server parses the statement by name, it reads for
a bound relation the columns that were bound (`ParseHolds`); a name that now
means another relation is left to the comparison of the verifier, and
unexplained locks to the lock audit. `FateInv`, `ErrorInv` and `OutcomeInv`
relate what the attempt knows, its error and its answer to the server. TLC held
`AttemptInv` on all states of the instance of `pg_attempt`. The page
theorem is arithmetic on slices of a numbered sequence (`PrefixIsSlice`,
`PageFacts`).

`WorkbenchProofs`, for any users, calls, credentials, library rows, windows and
limits:

| Theorem | States |
|---|---|
| `AResetWins` | `Spec => []ResetWins` |
| `RejectionsAreBounded` | `Spec => []RejectionsWithinBudget` |
| `NoEditIsLost` | `Spec => []EditsBuildOnEachOther` |
| `EffectsHaveAuthority` | `Spec => []ServedOnLiveAuthority` |

Assumptions: `AccountsAssumption` (positive bounds, accounts start at version
1, the column's default), `AbsenceAssumption`, `WorkbenchAssumption` (well-formed
requests, None is not a row). Argument. `LogInv`: an account is the last entry
of its log, whose length is its version; the upgrade of a hash compares the
stored hash with the one the login read, so it never changes the password.
`TokenInv` and `LoginInv` follow the version from the row a login read to the
token it signs. `BudgetInv` has the rows written lie in windows that ended or in
the current one, which counts them, although stamps may be older than the
window. `VerifyInv`, `MachineInv` and `ActorInv` say at which version a call was
found entitled; `EffectInv` that each effect rests on such a version.
`LibraryInv` needs that an id is never issued twice: otherwise a delete
authorized for one row could hit a later row of another owner. The migrations
(`00013`, `00024`) have AUTO_INCREMENT keys, so this is so; the model, which
reused ids before, now keeps `issued`.

`CutoverProofs`, for any legacy rows and any number of overlapping runs:

| Theorem | States |
|---|---|
| `LegacyIsNeverLost` | `Spec => []LegacySurvives` |
| `OnlyResumeDrops` | `Spec => OnlyResumeDropsTheRebuilt` |

Assumption: `CutoverAssumption` (there is a start, and a set of legacy tables is
not None). Argument. The databases are in one of three phases: `Untouched` (the
legacy tables are in the target), `Renamed` (they are in the preserve database,
all of them, by one RENAME, and at most the run that did it is about to drop) or
`Replaced` (the target has been dropped at least once, and whoever is about to
drop it again was told to resume). Each statement of each run keeps the phase or
moves to the next; `ListedInv` says that the tables a run listed are all the
legacy ones, and `StagedInv` that a run with staged rows faces a rebuilt target,
which the metadata locks keep in place. Neither depends on what the migrations
seed, nor on how far another run has got with them.

### What proving changed in the models

- Ids of library rows are never reused (above).
- `SchemaBrowser`'s `removeKey` removes the first occurrence of the key in the
  queue, as the code does, not all; the proof that there is only one is part of
  `QueueListsTheEntries`. `ResolveMetadata` follows the code's chain of early
  returns.
- `PGAttempt` lets other sessions swap any two schemas, not the only two of the
  instance.
- `MySQLQuery` expands a column expression to *the* column of that name; before, it
  filtered the list, which is the same for unique names. `SentinelsAssumption` and
  `TablesAssumption` state what the expansion relies on.
- `ExecutionHistory`'s tuple is `historyVars` and the page step of `MySQLQuery` is
  `FollowingPage`, so that one module can extend both.
- Constants got the typing and sentinel assumptions named above.

## Only model-checked

- Liveness (`EveryAttemptAnswered` and its kin in claims, schema browser, scans,
  `EndsAndReleases`): fairness and ENABLED are outside the prover.
- `SuccessIsFaithful`: it compares names and references of imported rows over
  every statement of two runs.
- `BeforeIsThePreviousValue`: that the events of a CI join up.
- What the remaining recursive helpers compute for every input, as far as no
  invariant needs it: the library's induction theorems cannot be instantiated. Where
  an invariant did need it, the proof uses the least counterexample instead.

## Not modelled

SQL parsing, guarding below its verdicts, witness injection and rewriting, and the
template compiler (pure functions of a grammar far beyond enumeration); row
decoding; explain; topology reads; configuration; the migrations of the tables that
the cutover does not import; development and
end-to-end tools. Of modelled components: history's offset mode and filters;
health observations, environment moves and `PutObservedValues`, which has no
caller; the policy listing, comment stripping and the CSV-export decision of the MySQL chain; the
legacy-hash report; requests served while a cutover runs.

## Plan

Done: 1 claims, evidence and their proofs; 2 history; 3 schema browser;
4 collector scans and their proofs; 5 inventory; 6 PostgreSQL attempt; 7 accounts, machine
principals, workspaces, saved statements, views; 8 cutover; 9 MySQL chain and
disclosure; 10 proofs of the claims' evidence and refinements, history, schema
browser, PostgreSQL attempt, accounts and workbench, cutover; 11 proofs of the MySQL
chain and of the inventory.

Next:
12. `PGAttempt` shown to implement the outcome that `RunPG` of `ExecutionClaims`
    assumes.
13. `SuccessIsFaithful` proved for any legacy rows and any number of runs.
14. Health observations in `Inventory`; history's offset mode.
