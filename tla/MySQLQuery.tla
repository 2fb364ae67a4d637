----------------------------- MODULE MySQLQuery -----------------------------
(***************************************************************************)
(* The governed chain of one MySQL or TiDB statement after its admission:  *)
(* the guard gives the statement a row limit or a page window, the         *)
(* preflight reads the table's columns and then their disclosure policies  *)
(* one by one, the server runs the statement, the scan keeps what the caps *)
(* allow, and the plan is applied to the result by position.               *)
(*                                                                         *)
(* Between any two of these steps other sessions may alter the table and   *)
(* administrators may create, change or delete policies.  The client may   *)
(* walk through the pages of a statement; the rows stay as they are.       *)
(*                                                                         *)
(* A column has a name, by which policies and statements know it, and a    *)
(* field: the data it holds, which a rename leaves alone.                  *)
(***************************************************************************)
EXTENDS Integers, SequencesExt

CONSTANTS
    Names,             \* column names
    Tables,            \* the column lists the table may have
    Contents,          \* rows, as the size in bytes of their cells; 0 is NULL
    Requests,          \* statements with their limits and pages
    DefaultMaxRows, HardMaxRows, ProductionMaxRows,
    RelatedDefaultRows, RelatedHardRows,
    MaxColumns, MaxCellBytes, MaxResponseBytes,
    MaxInt,            \* the largest integer an offset may reach
    Masked,            \* what replaces a masked value
    None

ASSUME LimitsAssumption ==
    /\ DefaultMaxRows \in Nat \ {0} /\ HardMaxRows \in Nat \ {0}
    /\ ProductionMaxRows \in Nat \ {0}
    /\ RelatedDefaultRows \in Nat \ {0} /\ RelatedHardRows \in Nat \ {0}
    /\ MaxInt \in Nat

VARIABLES
    table,    \* the columns of the table, in their order
    sizes,    \* its rows
    policies, \* name -> "raw", "masked" or None
    req,      \* the request being served or served last
    pc,
    plan,     \* the names listed at preflight, the projection, its modes
    result,   \* what the executor returned
    answer,   \* what the client got
    walk,     \* the rows of the consecutive pages read, and what precedes them
    seen      \* name -> the modes its policy had while req was served

vars == <<table, sizes, policies, req, pc, plan, result, answer, walk, seen>>

Modes == {"raw", "masked"}
STAR == "*"
Literal == "literal"
Expression == "expression"

Request ==
    [kind : {"select", "literal", "related", "metadata", "forbidden"},
     exprs : Seq(Names \cup {STAR, Literal, Expression}),
     page : Nat, pageSize : Nat, maxRows : Nat,
     production : BOOLEAN, knowsTruncation : BOOLEAN]

\* A request that asks for a page gives its size.
ASSUME RequestsAssumption ==
    Requests \subseteq {r \in Request : r.page # 0 => r.pageSize # 0}

Columns == UNION {Range(t) : t \in Tables}

\* The columns of a table have different names, which no keyword is.
ASSUME TablesAssumption ==
    /\ Tables \subseteq Seq(Columns)
    /\ \A c \in Columns : c.name \in Names
    /\ \A t \in Tables : \A i, j \in DOMAIN t : t[i].name = t[j].name => i = j
    /\ Names \cap {STAR, Literal, Expression} = {}

ASSUME ContentsAssumption == Contents \subseteq Seq(Nat)

\* No cell is what a masked one shows, and None is no mode.
ASSUME SentinelsAssumption ==
    /\ Masked \notin [field : {c.field : c \in Columns} \cup {None},
                      row : Nat, cut : BOOLEAN]
    /\ None \notin Modes

NamesOf(columns) == [i \in DOMAIN columns |-> columns[i].name]

noPlan == [listed |-> <<>>, projection |-> <<>>, modes |-> <<>>]
noResult == [columns |-> <<>>, listed |-> <<>>, rows |-> <<>>, cells |-> <<>>,
             cellTruncated |-> <<>>, truncated |-> FALSE]
noAnswer == [kind |-> "none"]
newWalk(offset) == [from |-> offset, rows |-> <<>>]

Init ==
    /\ table \in Tables
    /\ sizes \in Contents
    /\ policies \in [Names -> Modes \cup {None}]
    /\ req = None /\ pc = "idle"
    /\ plan = noPlan /\ result = noResult /\ answer = noAnswer
    /\ walk = newWalk(0)
    /\ seen = [n \in Names |-> {}]

-----------------------------------------------------------------------------
(* Administrators.  A conflicting create, an update of a missing policy and *)
(* a repeated delete change nothing.                                        *)

SetPolicy(n, mode) ==
    /\ policies' = [policies EXCEPT ![n] = mode]
    /\ seen' = IF pc = "idle" THEN seen ELSE [seen EXCEPT ![n] = @ \cup {mode}]
    /\ UNCHANGED <<table, sizes, req, pc, plan, result, answer, walk>>

CreatePolicy(n, mode) == policies[n] = None /\ SetPolicy(n, mode)

UpdatePolicy(n, mode) == policies[n] \notin {None, mode} /\ SetPolicy(n, mode)

DeletePolicy(n) == policies[n] # None /\ SetPolicy(n, None)

\* Another session alters the table: columns renamed, moved, added or dropped.
AlterTable ==
    /\ table' \in Tables \ {table}
    /\ UNCHANGED <<sizes, policies, req, pc, plan, result, answer, walk, seen>>

-----------------------------------------------------------------------------
(* The request and the guard.                                               *)

Serve(r, kept) ==
    /\ req' = r /\ pc' = "guard"
    /\ plan' = noPlan /\ result' = noResult /\ answer' = noAnswer
    /\ walk' = kept
    /\ seen' = [n \in Names |-> {policies[n]}]
    /\ UNCHANGED <<table, sizes, policies>>


\* The request ends without rows: "refused" is recorded as rejected, "failed"
\* as failed or timed out, "upgrade" after the recorded success.
Refuse(kind) ==
    /\ pc' = "idle" /\ answer' = [kind |-> kind]
    /\ req' = None /\ plan' = noPlan /\ result' = noResult
    /\ walk' = newWalk(0) /\ seen' = [n \in Names |-> {}]
    /\ UNCHANGED <<table, sizes, policies>>

clampProductionMaxRows(r) ==
    IF r.production /\ (r.maxRows = 0 \/ r.maxRows > ProductionMaxRows)
    THEN ProductionMaxRows ELSE r.maxRows

effectiveMaxRows(r) ==
    LET asked == clampProductionMaxRows(r)
        rows == IF asked = 0 THEN DefaultMaxRows ELSE asked
    IN  IF rows > HardMaxRows THEN HardMaxRows ELSE rows

relatedRows(r) ==
    LET rows == IF r.maxRows = 0 THEN RelatedDefaultRows
                ELSE IF r.maxRows > RelatedHardRows THEN RelatedHardRows
                ELSE r.maxRows
    IN  IF r.production /\ rows > ProductionMaxRows THEN ProductionMaxRows ELSE rows

Paged(r) == r.page # 0 /\ r.kind \in {"select", "literal"}

\* The offset is compared with the largest integer before it is multiplied.
Overflows(r) == r.page - 1 > MaxInt \div r.pageSize
Offset(r) == IF Paged(r) THEN (r.page - 1) * r.pageSize ELSE 0

Remaining(r) == effectiveMaxRows(r) - Offset(r)
PageRows(r) == IF r.pageSize < Remaining(r) THEN r.pageSize ELSE Remaining(r)

paginationInvalid(r) == Overflows(r) \/ Remaining(r) <= 0

\* The most rows the scan keeps; 0 keeps all.
ScanLimit(r) ==
    CASE r.kind = "related"  -> relatedRows(r)
      [] r.kind = "metadata" -> 0
      [] OTHER -> IF Paged(r) THEN PageRows(r) ELSE effectiveMaxRows(r)

\* The LIMIT the server is given: one row more than is kept, so that the scan
\* can tell whether there is another; a related-record statement has no such row.
LimitClause(r) == IF r.kind = "related" THEN ScanLimit(r) ELSE ScanLimit(r) + 1

Submit(r) == pc = "idle" /\ Serve(r, newWalk(Offset(r)))

\* The client asks for the page after the one it got.
FollowingPage ==
    /\ pc = "idle" /\ answer.kind = "rows" /\ answer.hasNext
    /\ Serve([req EXCEPT !.page = @ + 1], walk)

\* "forbidden" stands for everything but a single SELECT without locks, INTO
\* and side effects, or one of the allowed metadata statements.
guardRefuses(r) == r.kind = "forbidden" \/ (Paged(r) /\ paginationInvalid(r))

Guard ==
    /\ pc = "guard"
    /\ IF guardRefuses(req) THEN Refuse("refused")
       ELSE pc' = "inspect"
            /\ UNCHANGED <<table, sizes, policies, req, plan, result, answer,
                           walk, seen>>

-----------------------------------------------------------------------------
(* Preflight.                                                               *)

\* What one expression of the statement projects from a list of columns.
Expand(expr, columns) ==
    IF expr = STAR THEN columns
    ELSE <<CHOOSE c \in Range(columns) : c.name = expr>>

Project(exprs, columns) ==
    FlattenSeq([i \in DOMAIN exprs |-> Expand(exprs[i], columns)])

Known(exprs, columns) ==
    \A i \in DOMAIN exprs :
        exprs[i] = STAR \/ \E c \in Range(columns) : c.name = exprs[i]

literalColumns(exprs) == [i \in DOMAIN exprs |-> [name |-> Literal, field |-> None]]

\* The statement projects columns of one table, by name or all of them, or
\* nothing but literals.
projectionUnsupported(r, columns) ==
    CASE r.kind = "literal"  -> Range(r.exprs) # {Literal}
      [] r.kind = "metadata" -> FALSE
      [] OTHER -> ~Known(r.exprs, columns)

resolveProjection(r, columns) ==
    CASE r.kind = "literal"  -> literalColumns(r.exprs)
      [] r.kind = "metadata" -> <<>>
      [] OTHER -> Project(r.exprs, columns)

\* The inspector reads the columns.  A projection it cannot resolve, or one
\* of no columns, is refused; a failed read is a failure.
Inspect ==
    /\ pc = "inspect"
    /\ \/ Refuse("failed")
       \/ LET projection == resolveProjection(req, table)
          IN  IF projectionUnsupported(req, table) \/ projection = <<>>
              THEN Refuse("refused")
              ELSE /\ pc' = "policies"
                   /\ plan' = [listed |-> NamesOf(table),
                               projection |-> NamesOf(projection),
                               modes |-> <<>>]
                   /\ UNCHANGED <<table, sizes, policies, req, result, answer,
                                  walk, seen>>

NextColumn == plan.projection[Len(plan.modes) + 1]

\* Mutant: a column without a policy is shown.
AllowedByDefault(n) == IF n = Literal \/ policies[n] # "masked" THEN "raw" ELSE "masked"

\* The mode of a column; literals need no policy.
ColumnMode(n) == IF n = Literal THEN "raw" ELSE policies[n]

ReadPolicy ==
    /\ pc = "policies" /\ Len(plan.modes) < Len(plan.projection)
    /\ \/ NextColumn # Literal /\ Refuse("failed")
       \/ IF ColumnMode(NextColumn) = None
          THEN Refuse("refused")
          ELSE /\ plan' = [plan EXCEPT !.modes = Append(@, ColumnMode(NextColumn))]
               /\ UNCHANGED <<table, sizes, policies, req, pc, result, answer,
                              walk, seen>>

-----------------------------------------------------------------------------
(* The server runs the statement and the scan bounds its result.            *)

\* The rows the server returns for the window of r.
ServerRows(r) ==
    LET last == Offset(r) + LimitClause(r)
        rows == IF r.kind = "literal" THEN 1 ELSE Len(sizes)
    IN  [i \in 1 .. (IF last < rows THEN last ELSE rows) - Offset(r) |-> Offset(r) + i]

CellSize(row) == IF req.kind = "literal" THEN 1 ELSE sizes[row]
CellTruncated(row) == CellSize(row) > MaxCellBytes
CellWeight(row) == IF CellTruncated(row) THEN MaxCellBytes ELSE CellSize(row)

Cell(column, row) ==
    IF CellSize(row) = 0 THEN None
    ELSE [field |-> column.field, row |-> row, cut |-> CellTruncated(row)]

\* The bytes of the first k of some rows.
Bytes(rows, width) ==
    LET sum[k \in 0 .. Len(rows)] ==
          IF k = 0 THEN 0 ELSE sum[k - 1] + width * CellWeight(rows[k])
    IN  sum

\* The scan stops at the first row over the limit, or over the byte budget.
overBudget(rows, width, limit) ==
    {k \in 1 .. Len(rows) : (limit = 0 \/ k <= limit)
                            /\ Bytes(rows, width)[k] > MaxResponseBytes}

keptRows(rows, width, limit) ==
    LET over == overBudget(rows, width, limit)
        fits == IF limit = 0 \/ Len(rows) < limit THEN Len(rows) ELSE limit
    IN  SubSeq(rows, 1, IF over = {} THEN fits ELSE Min(over) - 1)

\* Mutant: a page over the budget is cut short like any other result.
PartialPages(rows, width, limit) == FALSE

\* A page must be whole, or the next offset would skip what it lacks.
pageTooLarge(rows, width, limit) ==
    Paged(req) /\ overBudget(rows, width, limit) # {}

Scanned(columns, rows, limit) ==
    LET kept == keptRows(rows, Len(columns), limit)
    IN  [columns |-> columns, listed |-> NamesOf(table), rows |-> kept,
         cells |-> [r \in DOMAIN kept |->
                      [c \in DOMAIN columns |-> Cell(columns[c], kept[r])]],
         cellTruncated |-> [r \in DOMAIN kept |->
                      [c \in DOMAIN columns |-> CellTruncated(kept[r])]],
         truncated |-> Len(kept) < Len(rows)]

\* The server resolves the statement against the table as it is now.
ServerColumns(r) == resolveProjection(r, table)
ServerRefuses(r) == projectionUnsupported(r, table) \/ ServerColumns(r) = <<>>

Execute ==
    /\ pc = "policies" /\ Len(plan.modes) = Len(plan.projection)
    /\ \/ Refuse("failed")
       \/ LET columns == ServerColumns(req)
              rows == ServerRows(req)
              limit == ScanLimit(req)
          IN  IF ServerRefuses(req) THEN Refuse("failed")
              ELSE IF Len(columns) > MaxColumns
                      \/ pageTooLarge(rows, Len(columns), limit)
              THEN Refuse("refused")
              ELSE /\ pc' = "apply"
                   /\ result' = Scanned(columns, rows, limit)
                   /\ UNCHANGED <<table, sizes, policies, req, plan, answer,
                                  walk, seen>>

-----------------------------------------------------------------------------
(* Disclosure is applied by position, the success is recorded, and the      *)
(* delivery gate looks at what would be delivered.                          *)

planFits == Len(plan.modes) = Len(result.columns)

applyDisclosureMask(cell, mode) ==
    IF mode = "masked" /\ cell # None THEN Masked ELSE cell

MaskedCells ==
    [r \in DOMAIN result.rows |-> [c \in DOMAIN result.columns |->
        applyDisclosureMask(result.cells[r][c], plan.modes[c])]]

Apply ==
    /\ pc = "apply"
    /\ IF ~planFits THEN Refuse("refused")
       ELSE /\ pc' = "finalize"
            /\ result' = [result EXCEPT !.cells = MaskedCells]
            /\ UNCHANGED <<table, sizes, policies, req, plan, answer, walk, seen>>

AnyCellTruncated ==
    \E r \in DOMAIN result.rows : \E c \in DOMAIN result.columns :
        result.cellTruncated[r][c]

HasNextPage ==
    Paged(req) /\ result.truncated
    /\ Offset(req) + PageRows(req) < effectiveMaxRows(req)

Page ==
    [kind |-> "rows", columns |-> NamesOf(result.columns), cells |-> result.cells,
     rows |-> result.rows, truncated |-> result.truncated, hasNext |-> HasNextPage]

\* A failure to record the success wins; a client that does not know about
\* truncated cells gets none of a page that has one.
Finalize ==
    /\ pc = "finalize"
    /\ \/ Refuse("failed")
       \/ IF AnyCellTruncated /\ ~req.knowsTruncation THEN Refuse("upgrade")
          ELSE /\ pc' = "idle" /\ answer' = Page
               /\ walk' = [walk EXCEPT !.rows = @ \o result.rows]
               /\ UNCHANGED <<table, sizes, policies, req, plan, result, seen>>

Next ==
    \/ \E r \in Requests : Submit(r)
    \/ FollowingPage
    \/ Guard \/ Inspect \/ ReadPolicy \/ Execute \/ Apply \/ Finalize
    \/ AlterTable
    \/ \E n \in Names :
         \/ \E mode \in Modes : CreatePolicy(n, mode) \/ UpdatePolicy(n, mode)
         \/ DeletePolicy(n)

Spec == Init /\ [][Next]_vars

-----------------------------------------------------------------------------
\* A value of a column was shown, or hidden, in a mode its policy had.
InForce(n, cell) ==
    \/ cell = None \/ n = Literal
    \/ (IF cell = Masked THEN "masked" ELSE "raw") \in seen[n]

EveryCellInForce ==
    \A r \in DOMAIN answer.cells : \A c \in DOMAIN answer.columns :
        InForce(answer.columns[c], answer.cells[r][c])

\* The statement lists whatever columns there are, and they changed between
\* the preflight and the execution.
Drifted == STAR \in Range(req.exprs) /\ plan.listed # result.listed

\* Every delivered value is raw or masked as some policy in force while the
\* request was served said of the column the server took it from, whatever
\* administrators and other sessions changed between the reads of Preflight,
\* the execution and Apply; the columns of a star may not drift meanwhile.
ShownAsThePolicySaid == answer.kind = "rows" /\ ~Drifted => EveryCellInForce

\* The same without the exception: Apply's comment says that its comparison
\* of the column counts "catches schema drift between preflight and execution
\* that could otherwise leak unplanned raw values".
DriftIsCaught == answer.kind = "rows" => EveryCellInForce

\* The pages a client reads one after the other are one gapless sequence of
\* rows without duplicates; there is a next page exactly while rows that the
\* release cap allows remain, and an unpaged answer is marked truncated
\* exactly when it lacks rows.
PagesAreOneSequence ==
    answer.kind = "rows" =>
        LET end == walk.from + Len(walk.rows)
            rows == IF req.kind = "literal" THEN 1 ELSE Len(sizes)
            released == IF rows < effectiveMaxRows(req) THEN rows
                        ELSE effectiveMaxRows(req)
        IN  /\ walk.rows = [i \in DOMAIN walk.rows |-> walk.from + i]
            /\ Paged(req) => (answer.hasNext <=> end < released)
            /\ req.kind # "related" => (answer.truncated <=> end < rows)

=============================================================================
