------------------------------ MODULE PGAttempt ------------------------------
(***************************************************************************)
(* One governed PostgreSQL attempt (internal/service/pg_query_executor.go  *)
(* and its neighbours) against a target whose catalog other sessions       *)
(* change and whose connection may break at any time.                      *)
(*                                                                         *)
(* The attempt pins what the statement's names mean: it resolves, locks    *)
(* and re-checks each name, approves everything the server will lock on    *)
(* its behalf, decides the disclosure of each output position, lets the    *)
(* server parse the statement AGAIN, and then compares what the server     *)
(* read with what was bound.  One action is one statement, or the pure     *)
(* work between two; the server, the other sessions and the clock move in  *)
(* between.  Statements are SELECT * over their references, which the      *)
(* rewriter leaves verbatim, so a disclosure decision belongs to a         *)
(* position and not to a name.                                             *)
(***************************************************************************)
EXTENDS Integers, Sequences, FiniteSets

CONSTANTS
    Rels,          \* relations, known by OID (and row type)
    Schemas, Objects,
    Pinned,        \* the schema of unqualified names
    Catalog0,      \* at the start: OIDs of the names, columns, owners, foreign key
    Deps,          \* [Rels -> SUBSET Rels]: the relations a view reads
    Kind,          \* [Rels -> {"table", "view", "child", "index", "toast"}]
    Entries,       \* statements: [kind, refs, source, page, total]
    Policy,        \* partial function: <<schema, object, column>> to a mode
    Budget,        \* bound: the attempt's time, in half milliseconds
    MaxDDL,        \* bound: schema changes by other sessions
    MaxBreaks,     \* bound: connections that break by themselves
    None

Names == Schemas \X Objects
Columns == {"id", "secret"}
Modes == {"raw", "masked"}
Kinds == {"ordinary", "bound", "navigation"}

(* The column list of a relation; an index or a child has none of its own. *)
ColumnLists == {<<>>} \cup (Columns \X Columns)

CatalogState ==
    [name : [Names -> Rels \cup {None}], cols : [Rels -> ColumnLists],
     owner : [Rels -> Rels \cup {None}],
     fk : [source : Rels, target : Rels, attnum : {1, 2}]]

(* What is asked of the statement's rows: a page, within the statement's   *)
(* own LIMIT and OFFSET and the row budget.                                *)
PageRequest ==
    [page : Nat \ {0}, size : Nat \ {0}, limit : Nat \cup {None}, offset : Nat,
     maxRows : Nat \ {0}]

Entry ==
    [kind : Kinds, refs : Seq(Names), source : Names \cup {None},
     page : PageRequest, total : Nat]

(* What a client may be given. *)
Results ==
    [modes : Seq(Modes),
     page : [rows : Seq(Nat), hasMore : BOOLEAN, budgetReached : BOOLEAN]]

(* Navigation names its source table and has no statement yet; the other   *)
(* statements considered here read at least one relation.                  *)
ASSUME PGConstants ==
    /\ Pinned \in Schemas
    /\ Catalog0 \in CatalogState
    /\ Deps \in [Rels -> SUBSET Rels]
    /\ Kind \in [Rels -> {"table", "view", "child", "index", "toast"}]
    /\ Entries \subseteq Entry
    /\ \A e \in Entries : IF e.kind = "navigation" THEN e.source \in Names ELSE e.refs # <<>>
    /\ DOMAIN Policy \subseteq Schemas \X Objects \X Columns
    /\ \A k \in DOMAIN Policy : Policy[k] \in Modes
    /\ {MaxDDL, MaxBreaks} \subseteq Nat
    /\ Budget \in Nat \ {0}
    /\ None \notin Rels \cup Nat \cup Results

VARIABLES
    catalog,   \* name, cols, owner, fk: what the database holds now
    ddl,       \* schema changes so far
    breaks,    \* connections broken so far
    entry,     \* the statement: navigation fills in its refs; page is the
               \* page asked for with the statement's own LIMIT and OFFSET,
               \* total the rows it has without them
    nav,       \* the prepared foreign-key mapping, or None
    pc,        \* where the attempt is
    stage,     \* a.stage, the last stage it entered
    ref,       \* the reference being bound; past the last one, the source
    found,     \* the relation its name resolved to
    bound,     \* the bound references, and last the navigation source
    approved,  \* relations whose locks are explained
    win,       \* the execution window, or None
    plan,      \* mode of each output position
    ctx,       \* "live", "cancelled" or "expired"
    left,      \* half milliseconds until the deadline
    tx,        \* the attempt holds a transaction
    started,   \* backend_start has been read
    described, \* parameterDescribeSent
    fate,      \* stmtFate
    err,       \* the error so far, "none" or a class of fail()
    out,       \* what the attempt returns: result, evidence, error
    session,   \* the server's view of the execution connection
    locks,     \* relations it holds ACCESS SHARE on
    cap,       \* its statement_timeout in ms; 0 means no limit
    wire,      \* the user statement at the server
    crossed,   \* some user text has left for the server
    parsed     \* what the server read: relations, columns, rows

catalogVars == <<catalog, ddl>>
gateVars == <<entry, nav, ref, found, bound, approved>>
planVars == <<win, plan>>
timeVars == <<ctx, left>>
clientVars == <<tx, started, described, fate>>
serverVars == <<session, locks, cap, wire, crossed, parsed>>
vars == <<catalogVars, breaks, gateVars, pc, stage, planVars, timeVars, clientVars,
          err, out, serverVars>>

-----------------------------------------------------------------------------
(* The target's catalog and the other sessions (external).                 *)

SchemaOf(r) == LET n == CHOOSE n \in Names : catalog.name[n] = r IN n[1]
Attached(s) == {r \in Rels : catalog.owner[r] \in s}

(* The relations the server locks when a statement names r: the relation,  *)
(* what a view reads, their children, and the indexes and TOAST of all.    *)
LockedBy(r) ==
    LET base == {r} \cup Deps[r]
        kids == base \cup {c \in Attached(base) : Kind[c] = "child"}
    IN  kids \cup Attached(kids)

(* ALTER SCHEMA ... RENAME of two schemas into each other, in one          *)
(* transaction.  It takes no lock on any relation, so nothing the attempt  *)
(* holds prevents it.                                                      *)
SwapSchemas(a, b) ==
    LET other(s) == IF s = a THEN b ELSE IF s = b THEN a ELSE s
    IN  catalog' = [catalog EXCEPT !.name =
                      [n \in Names |-> catalog.name[<<other(n[1]), n[2]>>]]]

(* ALTER TABLE ... RENAME COLUMN needs ACCESS EXCLUSIVE.                   *)
RenameColumns(r) ==
    /\ r \notin locks
    /\ catalog.cols[r] # <<>>
    /\ LET old == catalog.cols[r]
       IN  catalog' = [catalog EXCEPT !.cols[r] = <<old[2], old[1]>>]

(* ATTACH PARTITION, CREATE INDEX: the parent's readers do not block it.   *)
Attach(c, r) ==
    /\ Kind[c] \in {"child", "index", "toast"} /\ Kind[r] = "table"
    /\ catalog.owner[c] = None
    /\ c \notin locks
    /\ catalog' = [catalog EXCEPT !.owner[c] = r]

DropRelation(n) ==
    /\ catalog.name[n] # None
    /\ catalog.name[n] \notin locks
    /\ \A v \in Rels : catalog.name[n] \notin Deps[v]
    /\ catalog' = [catalog EXCEPT !.name[n] = None]

(* Recreating the constraint on the other column locks both tables.        *)
MoveForeignKey ==
    /\ {catalog.fk.source, catalog.fk.target} \cap locks = {}
    /\ catalog' = [catalog EXCEPT !.fk.attnum = 3 - catalog.fk.attnum]

(* A change matters when somebody is about to read the catalog; a change   *)
(* at another moment is one at the next of these.                          *)
ReadsCatalog == {"guard", "resolve", "touch", "recheck", "attributes", "navverify",
                 "viewdeps", "child", "index", "toast", "describe"}

DDL ==
    /\ ddl < MaxDDL
    /\ ddl' = ddl + 1
    /\ \/ \E a, b \in Schemas : a # b /\ SwapSchemas(a, b)
       \/ \E r \in Rels : RenameColumns(r)
       \/ \E c, r \in Rels : Attach(c, r)
       \/ \E n \in Names : DropRelation(n)
       \/ MoveForeignKey
    /\ pc \in ReadsCatalog \/ wire = "flight"
    /\ UNCHANGED <<breaks, gateVars, pc, stage, planVars, timeVars, clientVars, err, out, serverVars>>

-----------------------------------------------------------------------------
(* Errors, and what remains of the attempt's time.                         *)

(* a.stage at each point of the attempt; binding is one stage.             *)
StageOf(l) ==
    CASE l = "begin" -> "connect"
      [] l \in {"pinned", "resolve", "touch", "recheck", "attributes", "navverify",
                "viewdeps", "child", "index", "toast"} -> "bind"
      [] l \in {"describe", "probe"} -> "parameters"
      [] l \in {"dispatch", "read"} -> "execute"
      [] OTHER -> l

(* fail: a controlled rejection wins over the context, the context over    *)
(* every other class.                                                      *)
Classify(e) ==
    CASE e = "reject" -> "reject"
      [] e # "reject" /\ ctx = "cancelled" -> "cancelled"
      [] e # "reject" /\ ctx = "expired" -> "timeout"
      [] OTHER -> e

(* pgAttemptStatus *)
AttemptStatus(e) ==
    CASE e = "none" -> "success"
      [] e \in {"reject", "invalid", "toolarge", "blocked"} -> "rejected"
      [] e \in {"timeout", "cancelled", "failed"} -> e

Go(l) == pc' = l /\ stage' = StageOf(l) /\ UNCHANGED err
Fail(e) == err' = Classify(e) /\ pc' = "release" /\ UNCHANGED stage

(* Fault: a remainder below a millisecond is rounded down, and 0 disables  *)
(* the cap.                                                                *)
RemainingMsRoundedDown(l) == l \div 2

(* pgRemainingStatementTimeoutMs *)
RemainingMs(l) == (l + 1) \div 2

Arm == left > 0 /\ cap' = RemainingMs(left)

(* A step of the attempt that needs the server succeeds only in a live     *)
(* context on an open connection.                                          *)
Ask(l) == pc = l /\ ctx = "live" /\ session = "open" /\ Arm

(* Stages in which a statement of the attempt is with the server.          *)
Asking == {"begin", "identity", "pinned", "resolve", "touch", "recheck",
           "attributes", "navverify", "viewdeps", "child", "index", "toast",
           "describe", "probe", "dispatch"}

(* The server answers with an error, or the connection fails under the     *)
(* statement.  A statement cut off by its context costs the connection.    *)
StatementFails ==
    /\ pc \in Asking \cup {"connect", "preflight", "audit"}
    /\ \/ ctx = "live" /\ session \in {"open", "none"}
          /\ \E e \in {"failed", "timeout"} : Fail(e)
          /\ UNCHANGED session
       \/ session \in {"broken", "closed"} /\ Fail("failed") /\ UNCHANGED session
       \/ /\ ctx # "live" /\ Fail("failed")
          /\ \/ UNCHANGED session
             \/ pc \in Asking /\ session = "open" /\ session' = "broken"
    /\ UNCHANGED <<catalogVars, breaks, gateVars, planVars, timeVars, clientVars,
                   out, locks, cap, wire, crossed, parsed>>

(* The checks of the context between two stages of pure work.              *)
ContextCheck ==
    /\ pc \in {"guard", "rewrite", "deliver"}
    /\ ctx # "live"
    /\ Fail("failed")
    /\ UNCHANGED <<catalogVars, breaks, gateVars, planVars, timeVars, clientVars,
                   out, serverVars>>

(* The attempt's context matters from its creation to the last check.      *)
Converging == {"prepare", "release", "observe", "finish", "end"}

Cancel ==
    /\ ctx = "live" /\ pc \notin Converging
    /\ ctx' = "cancelled"
    /\ UNCHANGED <<catalogVars, breaks, gateVars, pc, stage, planVars, left, clientVars,
                   err, out, serverVars>>

Tick ==
    /\ left > 0 /\ pc \notin Converging
    /\ left' = left - 1
    /\ ctx' = IF left = 1 /\ ctx = "live" THEN "expired" ELSE ctx
    /\ UNCHANGED <<catalogVars, breaks, gateVars, pc, stage, planVars, clientVars,
                   err, out, serverVars>>

ConnectionBreaks ==
    /\ session = "open" /\ breaks < MaxBreaks
    /\ breaks' = breaks + 1
    /\ session' = "broken"
    /\ UNCHANGED <<catalogVars, gateVars, pc, stage, planVars, timeVars, clientVars,
                   err, out, locks, cap, wire, crossed, parsed>>

-----------------------------------------------------------------------------
(* Before the attempt: navigation reads the foreign key in a transaction   *)
(* of its own and writes a statement with the column's name in it.         *)

ForeignKey ==
    [source |-> catalog.fk.source, target |-> catalog.fk.target,
     column |-> catalog.cols[catalog.fk.target][catalog.fk.attnum]]

NameOf(r) == CHOOSE n \in Names : catalog.name[n] = r
Named(r) == \E n \in Names : catalog.name[n] = r

(* preparePGNavigation and newPGNavigationPlan; without a mapping there is *)
(* no attempt.                                                             *)
PrepareNavigation ==
    /\ pc = "prepare" /\ entry.kind = "navigation"
    /\ \/ /\ catalog.name[entry.source] = catalog.fk.source
          /\ Named(catalog.fk.target)
          /\ nav' = ForeignKey
          /\ entry' = [entry EXCEPT !.refs = <<NameOf(catalog.fk.target)>>]
          /\ Go("guard")
          /\ UNCHANGED out
       \/ pc' = "end" /\ UNCHANGED <<nav, entry, stage, err, out>>
    /\ UNCHANGED <<catalogVars, breaks, ref, found, bound, approved, planVars,
                   timeVars, clientVars, serverVars>>

Prepare ==
    /\ pc = "prepare" /\ entry.kind # "navigation"
    /\ Go("guard")
    /\ UNCHANGED <<catalogVars, breaks, gateVars, planVars, timeVars, clientVars,
                   out, serverVars>>

(* The plan and binding snapshots, which fail on a wiring fault, the input *)
(* check and GuardPG, which refuse: pure functions of the statement.       *)
Guard ==
    /\ pc = "guard" /\ ctx = "live"
    /\ Go("connect") \/ \E e \in {"reject", "invalid", "failed"} : Fail(e)
    /\ UNCHANGED <<catalogVars, breaks, gateVars, planVars, timeVars, clientVars,
                   out, serverVars>>

(* OpenPostgresPool and Acquire: from here on the backend's pid is known.  *)
Connect ==
    /\ pc = "connect" /\ ctx = "live"
    /\ session' = "open"
    /\ Go("begin")
    /\ UNCHANGED <<catalogVars, breaks, gateVars, planVars, timeVars, clientVars,
                   out, locks, cap, wire, crossed, parsed>>

(* BEGIN READ ONLY, the session settings, the first cap.                   *)
Begin ==
    /\ Ask("begin")
    /\ tx' = TRUE
    /\ Go("identity")
    /\ UNCHANGED <<catalogVars, breaks, gateVars, planVars, timeVars, started,
                   described, fate, out, session, locks, wire, crossed, parsed>>

ReadTransactionIdentity ==
    /\ Ask("identity")
    /\ started' = TRUE
    /\ Go("pinned")
    /\ UNCHANGED <<catalogVars, breaks, gateVars, planVars, timeVars, tx,
                   described, fate, out, session, locks, wire, crossed, parsed>>

-----------------------------------------------------------------------------
(* PGBind: the binding gate.                                               *)

BindList == IF nav = None THEN entry.refs ELSE Append(entry.refs, entry.source)
Bound == {bound[i].oid : i \in 1..Len(bound)}
Rest == <<catalogVars, breaks, planVars, timeVars, clientVars, out>>
Server == <<session, wire, crossed, parsed>>

(* stagePinnedUsage asks for the pinned schema when an unqualified name    *)
(* would resolve there or the entry requires it.  A name of that schema    *)
(* may have been written without it; a name of another was not.            *)
MayNeedPinned ==
    entry.kind # "ordinary" \/ \E i \in 1..Len(entry.refs) : entry.refs[i][1] = Pinned

(* The database's identity, which must be the expected one, and a pinned   *)
(* schema that exists and is usable, where it is needed.                   *)
PinnedUsage ==
    /\ Ask("pinned")
    /\ Go("resolve") \/ Fail("failed") \/ (MayNeedPinned /\ Fail("reject"))
    /\ UNCHANGED <<Rest, gateVars, locks, Server>>

(* bindPhysicalRelation, first statement: what the name means now.         *)
ResolveName ==
    /\ Ask("resolve")
    /\ LET r == catalog.name[BindList[ref]]
       IN  IF r = None THEN Fail("reject") /\ UNCHANGED found
           ELSE found' = r /\ Go("touch")
    /\ UNCHANGED <<Rest, entry, nav, ref, bound, approved, locks, Server>>

(* The touch locks what the name means at this moment; its row type tells  *)
(* whether that is the relation resolved before.                           *)
Touch ==
    /\ Ask("touch")
    /\ LET r == catalog.name[BindList[ref]]
       IN  IF r = None THEN Fail("reject") /\ UNCHANGED locks
           ELSE /\ locks' = locks \cup LockedBy(r)
                /\ IF r = found THEN Go("recheck") ELSE Fail("reject")
    /\ UNCHANGED <<Rest, gateVars, Server>>

(* The name must still mean it, and the same name bound before must have   *)
(* meant the same.                                                         *)
Recheck ==
    /\ Ask("recheck")
    /\ LET n == BindList[ref]
           earlier == {i \in 1..Len(bound) : BindList[i] = n}
       IN  CASE catalog.name[n] # found -> Fail("reject") /\ UNCHANGED <<ref, bound>>
             [] /\ catalog.name[n] = found
                /\ \E i \in earlier : bound[i].oid # found ->
                  Fail("failed") /\ UNCHANGED <<ref, bound>>
             [] OTHER ->
                  /\ bound' = Append(bound, [oid |-> found, schema |-> n[1],
                                             object |-> n[2], cols |-> <<>>])
                  /\ ref' = ref + 1
                  /\ Go(IF ref < Len(BindList) THEN "resolve" ELSE "attributes")
    /\ UNCHANGED <<Rest, entry, nav, found, approved, locks, Server>>

(* The attribute map is read by OID, under the locks.                      *)
ReadAttributes ==
    /\ Ask("attributes")
    /\ bound' = [i \in 1..Len(bound) |->
                   [bound[i] EXCEPT !.cols = catalog.cols[bound[i].oid]]]
    /\ Go(IF nav = None THEN "viewdeps" ELSE "navverify")
    /\ UNCHANGED <<Rest, entry, nav, ref, found, approved, locks, Server>>

(* The prepared mapping is read again and must be the same, between the    *)
(* relations that are now bound.                                           *)
VerifyNavigation ==
    /\ Ask("navverify")
    /\ IF /\ bound[1].oid = nav.target
          /\ bound[2].oid = nav.source
          /\ ForeignKey = nav
       THEN Go("viewdeps") ELSE Fail("reject")
    /\ UNCHANGED <<Rest, gateVars, locks, Server>>

(* A view may read its own schema and the pinned one.                      *)
ViewDependencies ==
    /\ Ask("viewdeps")
    /\ LET deps == UNION {Deps[r] : r \in Bound}
           within(b) == \A d \in Deps[b.oid] : SchemaOf(d) \in {Pinned, b.schema}
       IN  IF \A i \in 1..Len(bound) : within(bound[i])
           THEN approved' = Bound \cup deps /\ Go("child")
           ELSE Fail("reject") /\ UNCHANGED approved
    /\ UNCHANGED <<Rest, entry, nav, ref, found, bound, locks, Server>>

(* stageInheritChildren, stageEntityIndexes, collectDerivedIdentities: one *)
(* statement per kind of relation the server locks on behalf of others.    *)
Approve(kind, next) ==
    /\ Ask(kind)
    /\ approved' = approved \cup {r \in Attached(approved) : Kind[r] = kind}
    /\ Go(next)
    /\ UNCHANGED <<Rest, entry, nav, ref, found, bound, locks, Server>>

-----------------------------------------------------------------------------
(* Rewrite, disclosure, parameters.                                        *)

MinOf(a, b) == IF a < b THEN a ELSE b

(* Fault: the window asks for no sentinel row.                             *)
WindowWithoutSentinel(w) ==
    LET browsable == IF w.limit = None THEN w.maxRows ELSE MinOf(w.maxRows, w.limit)
        start == (w.page - 1) * w.size
    IN  [start |-> start, rowLimit |-> MinOf(w.size, browsable - start),
         fetch |-> MinOf(w.size, browsable - start), offset |-> w.offset + start,
         browsable |-> browsable, limited |-> w.limit = None \/ w.limit > w.maxRows]

(* PaginatePG: the statement's LIMIT and OFFSET and the row budget become  *)
(* one execution window with a sentinel row.                               *)
Window(w) ==
    LET browsable == IF w.limit = None THEN w.maxRows ELSE MinOf(w.maxRows, w.limit)
        start == (w.page - 1) * w.size
    IN  [start |-> start, rowLimit |-> MinOf(w.size, browsable - start),
         fetch |-> MinOf(w.size + 1, browsable - start), offset |-> w.offset + start,
         browsable |-> browsable, limited |-> w.limit = None \/ w.limit > w.maxRows]

OutOfRange(w) ==
    LET browsable == IF w.limit = None THEN w.maxRows ELSE MinOf(w.maxRows, w.limit)
    IN  IF browsable = 0 THEN w.page # 1 ELSE (w.page - 1) * w.size >= browsable

(* The output positions of SELECT *: reference and attribute number.       *)
Positions == [p \in 1..(2 * Len(entry.refs)) |->
                [ref |-> (p + 1) \div 2, attnum |-> 2 - (p % 2)]]

(* verifyPGExpectedLayout: every position has its origin inside the locked *)
(* attribute map of a bound reference.                                     *)
ExpectedLayoutHolds ==
    \A p \in DOMAIN Positions :
      /\ Positions[p].ref \in 1..Len(bound)
      /\ Positions[p].attnum \in 1..Len(bound[Positions[p].ref].cols)

(* Rewriting: one witness per reference, one origin per position.  A shape *)
(* the rewriter cannot freeze is refused.                                  *)
Rewrite ==
    /\ pc = "rewrite" /\ ctx = "live"
    /\ \/ /\ ~OutOfRange(entry.page) /\ ExpectedLayoutHolds
          /\ win' = Window(entry.page)
          /\ Go("preflight")
       \/ \E e \in {"reject", "failed"} : Fail(e) /\ UNCHANGED win
    /\ UNCHANGED <<catalogVars, breaks, gateVars, plan, timeVars, clientVars,
                   out, serverVars>>

PolicyKey(p) ==
    LET b == bound[Positions[p].ref]
    IN  <<b.schema, b.object, b.cols[Positions[p].attnum]>>

(* resolvePGDisclosurePlan: a position without a policy blocks the attempt *)
(* before the statement is sent.                                           *)
DisclosurePreflight ==
    /\ pc = "preflight" /\ ctx = "live"
    /\ IF \E p \in DOMAIN Positions : PolicyKey(p) \notin DOMAIN Policy
       THEN Fail("blocked") /\ UNCHANGED plan
       ELSE /\ plan' = [p \in DOMAIN Positions |-> Policy[PolicyKey(p)]]
            /\ Go(IF entry.kind = "ordinary" THEN "dispatch" ELSE "describe")
    /\ UNCHANGED <<catalogVars, breaks, gateVars, win, timeVars, clientVars,
                   out, serverVars>>

(* What the server finds when it parses the statement now.                 *)
ParsedRels == [i \in 1..Len(entry.refs) |-> catalog.name[entry.refs[i]]]
Parses == \A i \in 1..Len(entry.refs) : ParsedRels[i] # None
ParseLocks == UNION {LockedBy(ParsedRels[i]) : i \in 1..Len(entry.refs)}

(* validatePGParameterInputs, Parse/Describe of the rewritten statement:   *)
(* the text crosses, and parsing locks what the names mean.  The driver's  *)
(* own mark that nothing was sent takes the flag back.                     *)
DescribeParameters ==
    /\ Ask("describe")
    /\ \/ /\ described' = TRUE /\ crossed' = TRUE
          /\ IF Parses THEN locks' = locks \cup ParseLocks /\ Go("probe")
                       ELSE UNCHANGED locks /\ Fail("reject")
          /\ UNCHANGED session
       \/ /\ described' = FALSE /\ session' = "broken" /\ Fail("failed")
          /\ UNCHANGED <<crossed, locks>>
       \/ /\ described' = TRUE /\ crossed' = TRUE /\ session' = "broken"
          /\ Fail("failed") /\ UNCHANGED locks
    /\ UNCHANGED <<catalogVars, breaks, gateVars, planVars, timeVars, tx, started,
                   fate, out, wire, parsed>>

(* The values alone, against the inferred types.                           *)
ProbeParameters ==
    /\ Ask("probe")
    /\ Go("dispatch") \/ Fail("reject")
    /\ UNCHANGED <<Rest, gateVars, locks, Server>>

-----------------------------------------------------------------------------
(* The user statement: the attempt sends and reads, the server runs.       *)

(* Dispatch: from here the statement's fate is indeterminate, unless the   *)
(* driver marks that it failed before any data was sent.                   *)
Dispatch ==
    /\ Ask("dispatch")
    /\ \/ /\ fate' = "indeterminate" /\ wire' = "flight" /\ crossed' = TRUE
          /\ Go("read")
          /\ UNCHANGED session
       \/ /\ fate' = "unsent" /\ session' = "broken"
          /\ Fail("failed")
          /\ UNCHANGED <<wire, crossed>>
    /\ UNCHANGED <<catalogVars, breaks, gateVars, planVars, timeVars, tx, started,
                   described, out, locks, parsed>>

(* The server parses the statement on its own: names, columns and foreign  *)
(* key as they are at this moment.                                         *)
ServerParse ==
    /\ wire = "flight" /\ session # "closed"
    /\ \/ /\ Parses
          /\ wire' = "running"
          /\ locks' = locks \cup ParseLocks
          /\ parsed' = [oids |-> ParsedRels,
                        cols |-> [i \in 1..Len(entry.refs) |-> catalog.cols[ParsedRels[i]]],
                        scanned |-> ParseLocks, fk |-> ForeignKey]
       \/ /\ ~Parses
          /\ wire' = "errored"
          /\ UNCHANGED <<locks, parsed>>
    /\ UNCHANGED <<catalogVars, breaks, gateVars, pc, stage, planVars, timeVars,
                   clientVars, err, out, session, cap, crossed>>

ServerMoves(from, to) ==
    /\ wire = from
    /\ wire' = to
    /\ UNCHANGED <<catalogVars, breaks, gateVars, pc, stage, planVars, timeVars,
                   clientVars, err, out, session, locks, cap, crossed, parsed>>

ServerFinish == ServerMoves("running", "done")
ServerError == ServerMoves("running", "errored")
ServerTimeout == cap > 0 /\ ServerMoves("running", "errored")
BytesLost == session = "broken" /\ ServerMoves("flight", "lost")

(* A backend notices a lost client once it has read and run everything     *)
(* that arrived before; its transaction ends with it.                      *)
ServerCleanup ==
    /\ session = "broken" /\ wire \notin {"flight", "running"}
    /\ session' = "closed"
    /\ locks' = {}
    /\ UNCHANGED <<catalogVars, breaks, gateVars, pc, stage, planVars, timeVars,
                   clientVars, err, out, cap, wire, crossed, parsed>>

(* pgStmtFateAfterRead *)
FateAfterRead(answer) ==
    CASE answer = "ErrorResponse" -> "errored"
      [] answer = "ReadyForQuery" -> "completed"
      [] OTHER -> "indeterminate"

(* executeAndMaterialize after the dispatch.  A limit of its own ends the  *)
(* read early, yet the reader drains to the end.                           *)
ReadResult ==
    /\ pc = "read"
    /\ \/ /\ session = "open" /\ wire = "done"
          /\ fate' = FateAfterRead("ReadyForQuery")
          /\ Go("verify") \/ \E e \in {"toolarge", "failed"} : Fail(e)
          /\ UNCHANGED session
       \/ /\ session = "open" /\ wire = "errored"
          /\ fate' = FateAfterRead("ErrorResponse")
          /\ \E e \in {"reject", "timeout", "failed"} : Fail(e)
          /\ UNCHANGED session
       \/ /\ ctx # "live" \/ session # "open"
          /\ fate' = FateAfterRead("none")
          /\ session' = IF session = "open" THEN "broken" ELSE session
          /\ Fail("failed")
    /\ UNCHANGED <<catalogVars, breaks, gateVars, planVars, timeVars, tx, started,
                   described, out, locks, cap, wire, crossed, parsed>>

-----------------------------------------------------------------------------
(* Comparing what was read with what was bound.                            *)

(* Fault: only the lock set is compared.                                   *)
PositionsAreNotCompared == TRUE

(* verifyPGPositions: the row type of each witness and the origin of each  *)
(* public column.                                                          *)
PositionsMatch ==
    \A i \in 1..Len(entry.refs) : parsed.oids[i] = bound[i].oid

Verify ==
    /\ pc = "verify"
    /\ CASE ~PositionsMatch -> Fail("reject")
         [] PositionsMatch /\ ctx = "live" -> Go("audit")
         [] OTHER -> Fail("failed")
    /\ UNCHANGED <<catalogVars, breaks, gateVars, planVars, timeVars, clientVars,
                   out, serverVars>>

(* auditLockSet: a second connection reads the locks of this backend.      *)
(* Unexplained locks contradict the binding; missing ones are no evidence. *)
Audit ==
    /\ pc = "audit" /\ ctx = "live" /\ left > 0
    /\ CASE session = "closed" -> Fail("failed")
         [] session # "closed" /\ ~(locks \subseteq approved) -> Fail("reject")
         [] session # "closed" /\ locks \subseteq approved /\ ~(Bound \subseteq locks) ->
              Fail("failed")
         [] OTHER -> Go("deliver")
    /\ UNCHANGED <<catalogVars, breaks, gateVars, planVars, timeVars, clientVars,
                   out, serverVars>>

(* The rows the server sends for the execution window.                     *)
Fetched ==
    LET w == win
        n == MinOf(w.fetch, IF entry.total > w.offset THEN entry.total - w.offset ELSE 0)
    IN  [i \in 1..n |-> w.offset + i]

(* PageWindow.Result and projectPGPublicResult *)
Page ==
    LET w == win
        n == Len(Fetched)
    IN  [rows |-> SubSeq(Fetched, 1, MinOf(n, w.rowLimit)),
         hasMore |-> n > w.rowLimit,
         budgetReached |-> /\ w.limited /\ w.rowLimit > 0
                           /\ w.start + w.rowLimit = w.browsable
                           /\ n >= w.rowLimit]

Deliver ==
    /\ pc = "deliver" /\ ctx = "live"
    /\ pc' = "release"
    /\ UNCHANGED <<catalogVars, breaks, gateVars, stage, planVars, timeVars,
                   clientVars, err, out, serverVars>>

-----------------------------------------------------------------------------
(* Convergence: close() and the evidence, on every path.                   *)

(* Fault: a failed rollback is logged and forgotten.                       *)
AfterRollbackForgiving(ok) == err

(* A cleanup failure never hides behind a result and never masks the       *)
(* primary failure.                                                        *)
AfterRollback(ok) == IF ~ok /\ err = "none" THEN "failed" ELSE err

(* releaseExecution runs under a context of its own, so a cancelled        *)
(* request releases its locks too.                                         *)
ReleaseExecution ==
    /\ pc = "release"
    /\ \/ /\ session = "open"
          /\ session' = "closed" /\ locks' = {}
          /\ err' = AfterRollback(TRUE)
       \/ /\ session = "open" /\ tx
          /\ session' = "broken" /\ err' = AfterRollback(FALSE)
          /\ UNCHANGED locks
       \/ /\ session # "open"
          /\ err' = AfterRollback(~tx)
          /\ UNCHANGED <<session, locks>>
    /\ tx' = FALSE
    /\ pc' = "observe"
    /\ UNCHANGED <<catalogVars, breaks, gateVars, stage, planVars, timeVars, started,
                   described, fate, out, cap, wire, crossed, parsed>>

(* pgProbeBackendState on a connection of its own: only a missing row, or  *)
(* an idle one of the same backend_start, proves that the statement has    *)
(* stopped; anything else, a failed probe too, is unknown.                 *)
ProbeVerdicts ==
    {"unknown"} \cup
    (IF session \in {"closed", "none"} \/ (started /\ wire # "running")
     THEN {"stopped"} ELSE {})

RemoteStates ==
    CASE fate = "unsent" -> {"none"}
      [] fate = "completed" -> {"completed"}
      [] fate = "errored" -> {"stopped"}
      [] fate = "indeterminate" -> ProbeVerdicts

UserSQLSent == fate # "unsent" \/ described

ObserveRemoteState ==
    /\ pc = "observe"
    /\ \E r \in RemoteStates :
         out' = [out EXCEPT !.evidence =
                   [stage |-> stage, status |-> AttemptStatus(err),
                    sent |-> UserSQLSent, remote |-> r]]
    /\ pc' = "finish"
    /\ UNCHANGED <<catalogVars, breaks, gateVars, stage, planVars, timeVars,
                   clientVars, err, serverVars>>

(* applyPGDisclosure on a result, which may refuse a plan or a shape that  *)
(* does not fit; the outcome otherwise.                                    *)
Finish ==
    /\ pc = "finish"
    /\ \/ /\ out' = [out EXCEPT !.result = IF err = "none"
                                           THEN [modes |-> plan, page |-> Page] ELSE None,
                                !.error = err]
          /\ UNCHANGED <<stage, err>>
       \/ /\ err = "none"
          /\ stage' = "transform" /\ err' = "failed"
          /\ out' = [out EXCEPT !.evidence =
                       [stage |-> "transform", status |-> AttemptStatus("failed"),
                        sent |-> out.evidence.sent, remote |-> out.evidence.remote],
                                !.error = "failed"]
    /\ pc' = "end"
    /\ UNCHANGED <<catalogVars, breaks, gateVars, planVars, timeVars, clientVars,
                   serverVars>>

-----------------------------------------------------------------------------
NoOutcome == [result |-> None, evidence |-> None, error |-> None]

Init ==
    /\ catalog = Catalog0 /\ ddl = 0 /\ breaks = 0
    /\ entry \in Entries
    /\ nav = None /\ pc = "prepare" /\ stage = "input"
    /\ ref = 1 /\ found = None /\ bound = <<>> /\ approved = {}
    /\ win = None /\ plan = <<>>
    /\ ctx = "live" /\ left = Budget
    /\ tx = FALSE /\ started = FALSE /\ described = FALSE /\ fate = "unsent"
    /\ err = "none" /\ out = NoOutcome
    /\ session = "none" /\ locks = {} /\ cap = 0 /\ wire = "none"
    /\ crossed = FALSE /\ parsed = None

BindSteps ==
    \/ PinnedUsage \/ ResolveName \/ Touch \/ Recheck \/ ReadAttributes
    \/ VerifyNavigation \/ ViewDependencies
    \/ Approve("child", "index") \/ Approve("index", "toast")
    \/ Approve("toast", "rewrite")

Step ==
    \/ PrepareNavigation \/ Prepare \/ Guard \/ Connect \/ Begin
    \/ ReadTransactionIdentity \/ BindSteps
    \/ Rewrite \/ DisclosurePreflight \/ DescribeParameters \/ ProbeParameters
    \/ Dispatch \/ ReadResult \/ Verify \/ Audit \/ Deliver
    \/ ReleaseExecution \/ ObserveRemoteState \/ Finish
    \/ StatementFails \/ ContextCheck

ServerNotices == ServerCleanup \/ BytesLost \/ ServerParse

Environment ==
    \/ DDL \/ Cancel \/ Tick \/ ConnectionBreaks
    \/ ServerNotices \/ ServerFinish \/ ServerError \/ ServerTimeout

Next == Step \/ Environment

(* The attempt runs, time passes, sent bytes arrive or are lost, a backend *)
(* notices a lost client and applies its statement_timeout.  A statement   *)
(* need not finish by itself.                                              *)
Spec == Init /\ [][Next]_vars
        /\ WF_vars(Step) /\ WF_vars(Tick)
        /\ WF_vars(ServerNotices) /\ WF_vars(ServerTimeout)

-----------------------------------------------------------------------------
Delivered == pc = "end" /\ out.result # None

(* Whatever other sessions did to the catalog between any two statements,  *)
(* a delivered result was read from the relations the gate bound, scanned  *)
(* nothing the gate had not approved, shows raw no position whose column,  *)
(* as the server parsed it, is masked by its policy, and follows the       *)
(* foreign key as it was when the server parsed the statement.             *)
DeliveredWhatWasBound ==
    Delivered =>
      /\ \A i \in 1..Len(entry.refs) : parsed.oids[i] = bound[i].oid
      /\ parsed.scanned \subseteq approved
      /\ \A p \in DOMAIN Positions :
           LET n == entry.refs[Positions[p].ref]
               key == <<n[1], n[2], parsed.cols[Positions[p].ref][Positions[p].attnum]>>
           IN  key \in DOMAIN Policy /\ out.result.modes[p] = Policy[key]
      /\ nav # None => parsed.fk = nav

(* The rows of the user's own window, cut at the row budget: the reference *)
(* the execution window is checked against.                                *)
UsersRows ==
    LET w == entry.page
        n == MinOf(IF entry.total > w.offset THEN entry.total - w.offset ELSE 0,
                   IF w.limit = None THEN w.maxRows ELSE MinOf(w.limit, w.maxRows))
    IN  [i \in 1..n |-> w.offset + i]

(* A delivered page is that page of the user's window, it promises a       *)
(* further page exactly when there are further rows in the window, and it  *)
(* reports the budget only when the budget cut the window.                 *)
PageIsTheUsersSlice ==
    Delivered =>
      LET w == entry.page
          page == out.result.page
          last == w.page * w.size
      IN  /\ page.rows = SubSeq(UsersRows, last - w.size + 1, MinOf(last, Len(UsersRows)))
          /\ page.hasMore <=> Len(UsersRows) > last
          /\ page.budgetReached => Len(UsersRows) = w.maxRows

(* The evidence never claims more than happened: "completed" only for a    *)
(* statement the server finished, "none" only for one that never arrived,  *)
(* not sent only if no user text crossed, and a stage before the           *)
(* parameters only without any of it; status, error and result agree, and  *)
(* a result means the transaction was rolled back.                         *)
EvidenceIsTrue ==
    (pc = "end" /\ out.evidence # None) =>
      LET ev == out.evidence
      IN  /\ ev.remote = "completed" => wire = "done"
          /\ ev.remote = "none" => wire = "none"
          /\ ~ev.sent => ~crossed
          /\ ev.stage \in {"input", "guard", "connect", "identity", "bind",
                           "rewrite", "preflight"} => ~crossed
          /\ (ev.status = "success") <=> Delivered
          /\ Delivered => ev.remote = "completed" /\ locks = {} /\ session = "closed"

(* Every attempt ends, and in the end the target holds no lock for it,     *)
(* whether its connection survived, its context fired or its statement     *)
(* would never have finished.                                              *)
EndsAndReleases == <>[](pc = "end" /\ locks = {})
-----------------------------------------------------------------------------
(* The inductive invariant: why the properties hold.                       *)

(* The places of the attempt, in groups that follow each other.            *)
Opening == {"prepare", "guard", "connect", "begin", "identity", "pinned"}
Naming == {"resolve", "touch", "recheck"}
Describing == {"viewdeps", "child", "index", "toast", "rewrite"}
Sending == {"describe", "probe", "dispatch"}
Checking == {"verify", "audit", "deliver"}
Ending == {"release", "observe", "finish", "end"}
Gated == {"preflight", "read"} \cup Describing \cup Sending \cup Checking

(* The attempt converges, or ended, with a result; a navigation without a  *)
(* mapping ends with no outcome at all.                                    *)
Succeeded == pc = "end" /\ err = "none" /\ out # NoOutcome
Succeeding ==
    \/ pc \in {"release", "observe", "finish"} /\ err = "none"
    \/ Succeeded

(* The attempt is at one of the places or came through it without error.   *)
Through(places) == pc \in places \/ Succeeding

StatementInv ==
    /\ catalog \in CatalogState
    /\ entry \in Entry
    /\ entry.kind = "navigation" => entry.source \in Names
    /\ pc \in {"prepare", "end"} \/ entry.refs # <<>>
    /\ entry.kind # "navigation" => entry.refs # <<>>
    /\ nav # None => entry.kind = "navigation" /\ Len(entry.refs) = 1

BoundReference ==
    [oid : Rels, schema : Schemas, object : Objects, cols : ColumnLists]

(* The references are bound one after the other under their own names.     *)
NamesInv ==
    /\ ref \in Nat /\ bound \in Seq(BoundReference)
    /\ pc \in Opening => ref = 1 /\ bound = <<>>
    /\ pc \in Naming => Len(bound) = ref - 1 /\ ref \in 1..Len(BindList)
    /\ Through({"attributes", "navverify"} \cup Gated) => Len(bound) = Len(BindList)
    /\ \A i \in 1..Len(bound) :
         BindList[i] = <<bound[i].schema, bound[i].object>>
    /\ pc \in {"touch", "recheck"} => found \in Rels

(* As long as the backend lives, what was bound is locked, and what was    *)
(* read about it under the locks is still so.                              *)
AttributesHold ==
    \A i \in 1..Len(bound) : bound[i].cols = catalog.cols[bound[i].oid]

KeyHolds == ForeignKey = nav /\ {catalog.fk.source, catalog.fk.target} \subseteq locks

LocksInv ==
    session # "closed" =>
      /\ Bound \subseteq locks
      /\ pc = "recheck" => found \in locks
      /\ pc \in {"navverify"} \cup Gated => AttributesHold
      /\ nav # None /\ pc \in Gated => KeyHolds

(* The window and the plan are what the request and the policies make of   *)
(* the bound references.                                                   *)
WindowHolds == win = Window(entry.page) /\ ~OutOfRange(entry.page) /\ ExpectedLayoutHolds

PlanHolds ==
    /\ \A p \in DOMAIN Positions : PolicyKey(p) \in DOMAIN Policy
    /\ plan = [p \in DOMAIN Positions |-> Policy[PolicyKey(p)]]

PlanInv ==
    /\ Through({"preflight", "read"} \cup Sending \cup Checking) => WindowHolds
    /\ Through({"read"} \cup Sending \cup Checking) => PlanHolds

(* What the server read of the bound relations is what the gate read.      *)
ReadHolds ==
    /\ nav # None => parsed.fk = nav
    /\ \A i \in 1..Len(entry.refs) :
         parsed.oids[i] = bound[i].oid => parsed.cols[i] = bound[i].cols
    /\ session # "closed" => parsed.scanned \subseteq locks

ReadInv ==
    /\ Through({"read"} \cup Checking) /\ wire \in {"running", "done"} => ReadHolds
    /\ Through(Checking) => wire = "done" /\ fate = "completed"
    /\ Through({"audit", "deliver"}) => PositionsMatch
    /\ Through({"deliver"}) => parsed.scanned \subseteq approved

(* What the attempt knows of its statement is true of the server.          *)
FateInv ==
    /\ fate \in {"unsent", "indeterminate", "completed", "errored"}
    /\ fate = "unsent" => wire = "none"
    /\ fate = "completed" => wire = "done"
    /\ crossed => described \/ fate # "unsent"
    /\ crossed => stage \in {"parameters", "execute", "verify", "audit", "deliver",
                             "transform"}
    /\ pc \notin Converging => stage = StageOf(pc)
    /\ pc \notin Ending \cup {"read"} \cup Checking => fate = "unsent"
    /\ pc \notin Ending \cup {"read", "probe", "dispatch"} \cup Checking => ~crossed

ErrorInv ==
    /\ err \in {"none", "reject", "invalid", "toolarge", "blocked", "timeout",
                "cancelled", "failed"}
    /\ pc \notin Ending => err = "none"
    /\ pc \notin {"prepare", "guard", "connect", "begin"} \cup Ending => tx
    /\ pc = "release" /\ err = "none" => tx
    /\ (pc \in {"observe", "finish"} /\ err = "none") \/ Succeeded =>
         session = "closed" /\ locks = {}

(* The evidence says what the attempt knew when it was built. *)
Tells(ev) ==
    /\ ev.stage = stage /\ ev.status = AttemptStatus(err) /\ ev.sent = UserSQLSent
    /\ ev.remote = "completed" <=> fate = "completed"
    /\ ev.remote = "none" <=> fate = "unsent"

OutcomeInv ==
    /\ pc \notin {"finish", "end"} => out = NoOutcome
    /\ pc = "finish" =>
         /\ out = [result |-> None, evidence |-> out.evidence, error |-> None]
         /\ Tells(out.evidence)
    /\ pc = "end" =>
         \/ out = NoOutcome
         \/ /\ Tells(out.evidence)
            /\ out.result = IF err = "none" THEN [modes |-> plan, page |-> Page] ELSE None

AttemptInv ==
    /\ StatementInv /\ NamesInv /\ LocksInv /\ PlanInv /\ ReadInv
    /\ FateInv /\ ErrorInv /\ OutcomeInv
=============================================================================
