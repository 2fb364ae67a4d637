---------------------------- MODULE MCInventory ----------------------------
(* Bounded instances of Inventory for TLC.                                 *)
EXTENDS Inventory, TLC

CONSTANTS c1, c2, app, db, n1, n2, n3, a1, e1, e2, old, v1, v2, host, port

Whole(v) == [k \in ProfileKeys |-> v]
Partial(v) == [k \in {host} |-> v]

CI(type, name, externals) ==
    [type |-> type, name |-> name, display |-> v1, aliases |-> {},
     externals |-> externals, profile |-> Whole(v1), observed |-> None, label |-> None,
     override |-> None, archived |-> FALSE, updatedAt |-> 0]
TwoCIs == <<CI(app, n1, {e1}), CI(db, n2, {})>>

AppToDB == {<<app, db>>}

IngestionRow(name, externals, aliases, display, profile, observed, targets) ==
    [type |-> app, name |-> name, display |-> display, aliases |-> aliases,
     externals |-> externals, profile |-> profile, observed |-> observed, targets |-> targets]
Ingest(rows) == [op |-> "ingest", rows |-> rows]
NoLabel == [kind |-> "none", value |-> None]

(* CI 1 is matched by its identifier and gets an alias, a relation and     *)
(* another name; the next row is new and leaves a profile key out, and so  *)
(* does the third, which matches CI 1 by its name; the last one leaves the *)
(* profile out.                                                            *)
MatchedRow == IngestionRow(n2, {e1}, {a1}, v2, Whole(v2), v1, {2})
NewRow == IngestionRow(n3, {e2}, {}, v1, Partial(v2), v2, {})
SecondRow == IngestionRow(n1, {}, {}, v1, Partial(v1), None, {})
BareRow == IngestionRow(n1, {e1}, {}, v1, None, None, {})

(* Requests that meet: they take each other's identity, change what the     *)
(* other reviewed, archive what the other relates.                         *)
Meeting ==
    {[op |-> "create", type |-> app, name |-> n3, display |-> v1, aliases |-> {a1},
      externals |-> {}, profile |-> Partial(v1)],
     [op |-> "patch", id |-> 2, set |-> [aliases |-> {a1}]],
     [op |-> "patch", id |-> 1, set |-> [externalId |-> {old}]],
     [op |-> "profile", id |-> 1, mutation |-> "put", fields |-> Partial(v2)],
     [op |-> "profile", id |-> 1, mutation |-> "patch", fields |-> Partial(v2)],
     [op |-> "profile", id |-> 1, mutation |-> "delete", fields |-> <<>>],
     [op |-> "archive", id |-> 2, to |-> TRUE], [op |-> "archive", id |-> 2, to |-> FALSE],
     [op |-> "relate", from |-> 1, to |-> 2], [op |-> "unrelate"],
     [op |-> "override", id |-> 1, value |-> v1, expected |-> 0],
     [op |-> "override", id |-> 1, value |-> None, expected |-> 1],
     [op |-> "bulk", ids |-> {1, 2}, set |-> [display |-> v2],
      label |-> [kind |-> "add", value |-> v1]],
     Ingest(<<MatchedRow, NewRow>>), Ingest(<<BareRow>>),
     Ingest(<<MatchedRow, SecondRow>>)}

Archiving ==
    {[op |-> "patch", id |-> 2, set |-> [display |-> v2]],
     [op |-> "archive", id |-> 2, to |-> TRUE],
     [op |-> "relate", from |-> 1, to |-> 2]}

Symmetric == Permutations(Clients)
=============================================================================
