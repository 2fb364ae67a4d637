-------------------------- MODULE ExecutionHistory --------------------------
(***************************************************************************)
(* The execution history of a target: terminal rows and occupied, not yet *)
(* linked claims in one list, newest activity first, read page by page    *)
(* with a cursor while attempts go on committing.                          *)
(***************************************************************************)
EXTENDS EvidenceStore

CONSTANTS
    PageSize,   \* rows of a page
    MaxRows,    \* bound on the rows ever committed
    MaxPages,   \* bound on the pages of one walk
    Expiry,     \* attempt_timeout_ms of a claim plus claimStateGrace
    Queries,    \* the queries clients send
    NoCursor

VARIABLES
    filter,   \* the query of the last page request
    cursor,   \* nextCursor the client holds, NoCursor at either end
    page,     \* pages read so far in this walk, 0 before the first
    listed,   \* entries delivered in this walk, with their page
    base,     \* what the tables held when the walk began
    shown     \* the last status delivered for each slot, over all walks

readerVars  == <<filter, cursor, page, listed, base, shown>>
historyVars == <<evidenceVars, readerVars>>

ASSUME HistoryAssumption ==
    /\ PageSize \in Nat \ {0}
    /\ MaxRows \in Nat
    /\ MaxPages \in Nat
    /\ Expiry \in Nat \ {0}
    /\ Keys \subseteq Nat \ {NoKey}
    /\ MaxNow \in Nat
    /\ NoClaim \notin StoredClaim
    /\ Statuses \cap {"none", "any", "running", "unknown"} = {}

(* What a page request pins.  An admin reads the entries of all actors,    *)
(* anyone else those of one typed actor: a user never sees the machine     *)
(* principal of the same id.                                               *)
Query == [target : Targets, scope : {Actor} \cup {{actor} : actor \in Actor},
          status : {"any"} \cup Statuses]

(* The boundary row of the page before, and the query it was read for.     *)
Cursor == [at : Nat, kind : {0, 1}, ref : Nat, query : Query]

ASSUME QueriesAssumption ==
    /\ Queries \subseteq Query /\ Queries # {}
    /\ NoCursor \notin Cursor

HistoryInit ==
    /\ StoreInit
    /\ filter = CHOOSE f \in Queries : TRUE
    /\ cursor = NoCursor
    /\ page = 0
    /\ listed = {}
    /\ base = [ids |-> {}, open |-> {}]
    /\ shown = [s \in Slots |-> "none"]

-----------------------------------------------------------------------------
(* The union query.                                                        *)

InScope(f, actor) == actor \in f.scope

ExecArm(f) ==
    {[at |-> r.createdAt, kind |-> 0, ref |-> r.id, key |-> r.key,
      status |-> r.status] :
        r \in {x \in rows : /\ x.target = f.target
                            /\ InScope(f, x.actor)
                            /\ f.status \in {"any", x.status}}}

(* The stored link leads to this claim's own row.                          *)
ValidLink(s) ==
    \E r \in rows : /\ r.id = claims[s].execution
                    /\ <<r.target, r.key>> = s
                    /\ r.actor = claims[s].actor

(* Fault: the comparison with the end of the window is reversed.           *)
deriveClaimViewStatusReversed(claimedAt) ==
    IF now < claimedAt + Expiry THEN "unknown" ELSE "running"

(* Running until the recorded budget and the grace are over.               *)
deriveClaimViewStatus(claimedAt) ==
    IF now >= claimedAt + Expiry THEN "unknown" ELSE "running"

ClaimItem(s) ==
    [at |-> claims[s].claimedAt, kind |-> 1, ref |-> s[2], key |-> s[2],
     status |-> deriveClaimViewStatus(claims[s].claimedAt)]

(* Fault: the claim arm lists linked claims as well.                       *)
ClaimArmWithLinked(f) ==
    IF f.status # "any" THEN {}
    ELSE {ClaimItem(s) : s \in {x \in Slots : /\ claims[x] # NoClaim
                                              /\ x[1] = f.target
                                              /\ InScope(f, claims[x].actor)}}

(* Unlinked claims, and those whose link is broken; none under a status.   *)
ClaimArm(f) ==
    IF f.status # "any" THEN {}
    ELSE {ClaimItem(s) : s \in {x \in Slots : /\ claims[x] # NoClaim
                                              /\ x[1] = f.target
                                              /\ InScope(f, claims[x].actor)
                                              /\ ~ValidLink(x)}}

Union(f) == ExecArm(f) \cup ClaimArm(f)

(* ORDER BY activity_at DESC, kind ASC, ref DESC.                          *)
Precedes(x, y) ==
    \/ x.at > y.at
    \/ x.at = y.at /\ x.kind < y.kind
    \/ x.at = y.at /\ x.kind = y.kind /\ x.ref > y.ref

(* Fault: entries of the cursor's own instant are skipped.                 *)
AfterCursorByTime(c, x) == c = NoCursor \/ x.at < c.at

(* The WHERE clause a cursor adds, for each kind of boundary row.          *)
AfterCursor(c, x) ==
    \/ c = NoCursor
    \/ x.at < c.at
    \/ c.kind = 0 /\ x.at = c.at /\ (x.kind > 0 \/ (x.kind = 0 /\ x.ref < c.ref))
    \/ c.kind = 1 /\ x.at = c.at /\ x.kind = 1 /\ x.ref < c.ref

(* The first n entries of a set in list order.                             *)
FirstOf(n, items) ==
    {x \in items : Cardinality({y \in items : Precedes(y, x)}) < n}

(* LIMIT PageSize + 1: the extra entry only tells that there is more.      *)
Fetched(f, c) == FirstOf(PageSize + 1, {x \in Union(f) : AfterCursor(c, x)})

Trimmed(items) == FirstOf(PageSize, items)

LastOf(items) == CHOOSE x \in items : \A y \in items \ {x} : Precedes(y, x)

(* A cursor carries its boundary row and the query it belongs to.          *)
EncodeCursor(x, f) == [at |-> x.at, kind |-> x.kind, ref |-> x.ref, query |-> f]

-----------------------------------------------------------------------------
(* Reading a page: the projected entries and the next cursor.              *)

Deliver(f, c) ==
    LET items == Trimmed(Fetched(f, c))
    IN  /\ filter' = f
        /\ cursor' = IF Cardinality(Fetched(f, c)) > PageSize
                     THEN EncodeCursor(LastOf(items), f) ELSE NoCursor
        /\ shown' = [s \in Slots |->
             LET now_s == {x \in items : s = <<f.target, x.key>>}
             IN  IF now_s = {} THEN shown[s] ELSE (CHOOSE x \in now_s : TRUE).status]

FirstPage(f) ==
    /\ Deliver(f, NoCursor)
    /\ page' = 1
    /\ listed' = {[page |-> 1, item |-> x] : x \in Trimmed(Fetched(f, NoCursor))}
    /\ base' = [ids |-> {r.id : r \in rows},
                open |-> {s \in Slots : claims[s] # NoClaim /\ claims[s].execution = 0}]
    /\ UNCHANGED evidenceVars

(* Fault: a cursor is accepted whatever query it was issued for.           *)
ValidateCursorUnbound(c, f) == c # NoCursor

(* The query hash pins target, filters, page size and typed scope.         *)
ValidateCursor(c, f) == c # NoCursor /\ c.query = f

NextPage(f) ==
    /\ page \in 1..(MaxPages - 1)
    /\ ValidateCursor(cursor, f)
    /\ Deliver(f, cursor)
    /\ page' = page + 1
    /\ listed' = listed \cup
         {[page |-> page + 1, item |-> x] : x \in Trimmed(Fetched(f, cursor))}
    /\ UNCHANGED <<evidenceVars, base>>

Commit ==
    /\ StoreNext
    /\ nextId' <= MaxRows + 1
    /\ UNCHANGED readerVars

HistoryNext ==
    \/ Commit
    \/ \E f \in Queries : FirstPage(f) \/ NextPage(f)

HistorySpec == HistoryInit /\ [][HistoryNext]_historyVars

-----------------------------------------------------------------------------
(* Properties.                                                             *)

(* The identity of an execution: its key, or its row when it has none.     *)
Identity(x) == IF x.key # NoKey THEN <<"key", x.key>> ELSE <<"row", x.ref>>

(* A walk never delivers the same execution twice: not on two pages, not   *)
(* as a claim on one page and, finalized in between, as a row on another,  *)
(* not as both on one page.                                                *)
NoExecutionListedTwice ==
    \A x, y \in listed : Identity(x.item) = Identity(y.item) => x = y

(* The walk has come to its end. *)
Finished == page > 0 /\ cursor = NoCursor

(* A finished walk has delivered every row of its scope that was committed *)
(* when it began, and every claim of its scope that was open then and      *)
(* still is, whatever was committed meanwhile.                             *)
FinishedWalkIsComplete ==
    Finished =>
        /\ \A r \in rows :
             /\ r.id \in base.ids
             /\ r.target = filter.target
             /\ InScope(filter, r.actor)
             /\ filter.status \in {"any", r.status}
             => \E x \in listed : x.item.kind = 0 /\ x.item.ref = r.id
        /\ \A s \in base.open :
             /\ claims[s].execution = 0
             /\ s[1] = filter.target
             /\ InScope(filter, claims[s].actor)
             /\ filter.status = "any"
             => \E x \in listed : x.item.kind = 1 /\ x.item.ref = s[2]

(* What a client is shown of an execution only moves on: running, then    *)
(* unknown, then one terminal status that never changes again.             *)
ShownStatusNeverReverts ==
    [][\A s \in Slots :
         \/ shown'[s] = shown[s]
         \/ shown[s] \in {"none", "running"} /\ shown'[s] # "none"
         \/ shown[s] = "unknown" /\ shown'[s] \in Statuses]_historyVars

-----------------------------------------------------------------------------
(* The inductive invariant: why the properties hold.                       *)

(* Row ids identify rows, and only finitely much was ever committed.       *)
StoreInv ==
    /\ claims \in [Slots -> {NoClaim} \cup StoredClaim]
    /\ IsFiniteSet({s \in Slots : claims[s] # NoClaim})
    /\ rows \subseteq StoredRow /\ IsFiniteSet(rows)
    /\ nextId \in Nat \ {0} /\ now \in Nat
    /\ \A r \in rows : r.id \in 1..nextId - 1
    /\ \A r, q \in rows : r.id = q.id => r = q

(* A keyed row and its claim lead to each other.                           *)
LinkInv ==
    /\ \A s \in Slots : claims[s] # NoClaim /\ claims[s].execution # 0 => ValidLink(s)
    /\ \A r \in rows : r.key # NoKey =>
         LET s == <<r.target, r.key>>
         IN  /\ claims[s] # NoClaim
             /\ claims[s].execution = r.id
             /\ claims[s].claimedAt <= r.createdAt

(* What was delivered stands: the row, or the claim whatever became of it. *)
RowStands(f, x) ==
    \E r \in rows : /\ r.id = x.ref /\ r.createdAt = x.at
                    /\ r.key = x.key /\ r.target = f.target

ClaimStands(f, x) ==
    LET s == <<f.target, x.key>>
    IN  x.key = x.ref /\ s \in Slots /\ claims[s] # NoClaim /\ claims[s].claimedAt = x.at

Stands(f, x) == \/ x.kind = 0 /\ RowStands(f, x)
                \/ x.kind = 1 /\ ClaimStands(f, x)

(* Every delivered entry stands, and none lies beyond the cursor.          *)
WalkInv ==
    /\ page \in Nat /\ filter \in Query
    /\ cursor # NoCursor => cursor \in Cursor /\ cursor.query = filter
    /\ page = 0 => listed = {} /\ cursor = NoCursor
    /\ \A x \in listed :
         /\ x.page \in 1..page
         /\ Stands(filter, x.item)
         /\ cursor # NoCursor => ~AfterCursor(cursor, x.item)

(* What the walk still owes lies beyond the cursor.                        *)
Ahead(x) == cursor # NoCursor /\ AfterCursor(cursor, x)

RowItem(r) ==
    [at |-> r.createdAt, kind |-> 0, ref |-> r.id, key |-> r.key, status |-> r.status]

OwedRow(r) ==
    /\ r.id \in base.ids /\ r.target = filter.target /\ InScope(filter, r.actor)
    /\ filter.status \in {"any", r.status}

OwedClaim(s) ==
    /\ claims[s].execution = 0 /\ s[1] = filter.target /\ InScope(filter, claims[s].actor)
    /\ filter.status = "any"

CoverInv ==
    /\ base.ids \subseteq 1..nextId - 1
    /\ base.open \subseteq {s \in Slots : claims[s] # NoClaim}
    /\ page > 0 =>
         /\ \A r \in rows : OwedRow(r) =>
              Ahead(RowItem(r)) \/ \E x \in listed : x.item.kind = 0 /\ x.item.ref = r.id
         /\ \A s \in base.open : OwedClaim(s) =>
              Ahead(ClaimItem(s)) \/ \E x \in listed : x.item.kind = 1 /\ x.item.ref = s[2]

(* A terminal status was read from the slot's row; "unknown" stays true    *)
(* until there is one.                                                     *)
ShownInv ==
    \A s \in Slots :
        \/ shown[s] \in {"none", "running"}
        \/ shown[s] = "unknown" /\ claims[s] # NoClaim /\ now >= claims[s].claimedAt + Expiry
        \/ \E r \in rows : <<r.target, r.key>> = s /\ r.status = shown[s]

HistoryInv ==
    /\ StoreInv
    /\ LinkInv
    /\ WalkInv
    /\ NoExecutionListedTwice
    /\ CoverInv
    /\ shown \in [Slots -> {"none", "running", "unknown"} \cup Statuses]
    /\ ShownInv
=============================================================================
