-------------------------- MODULE MCSchemaBrowser --------------------------
(* Bounded instances of SchemaBrowser for TLC.                             *)
EXTENDS SchemaBrowser, TLC

CONSTANTS c1, c2, tidb, postgres, db, ns1

Ask(op, target, database, schema, refresh) ==
    [op |-> op, target |-> target, database |-> database, schema |-> schema,
     item |-> 1, refresh |-> refresh]

(* Two lists of one connection that differ in the schema asked for, one of *)
(* them a refresh; on TiDB the details of a table, its definition, and a    *)
(* relationship map, which is refused.                                      *)
Reads ==
    {Ask("objects", postgres, db, None, FALSE), Ask("objects", postgres, db, ns1, TRUE),
     Ask("object_details", tidb, db, None, FALSE),
     Ask("relationship_map", tidb, db, None, FALSE),
     Ask("table_definition", tidb, db, None, FALSE)}

(* Two rows that differ in everything; the second has no default schema.    *)
TwoRows == {[ref |-> 1, schema |-> ns1], [ref |-> 2, schema |-> None]}
=============================================================================
