----------------------------- MODULE MCPGAttempt -----------------------------
(* Two schemas with tables of different column order, a view, a child and  *)
(* an index that other sessions may attach.                                *)
EXTENDS PGAttempt

CONSTANTS tA, tB, vA, kid, idx

Start ==
    [name |-> [n \in Names |-> CASE n = <<"s", "t">> -> tA
                                 [] n = <<"o", "t">> -> tB
                                 [] n = <<"s", "v">> -> vA
                                 [] OTHER -> None],
     cols |-> [r \in Rels |-> CASE r \in {tA, vA} -> <<"id", "secret">>
                                [] r = tB -> <<"secret", "id">>
                                [] OTHER -> <<>>],
     owner |-> [r \in Rels |-> IF r = idx THEN tA ELSE None],
     fk |-> [source |-> tB, target |-> tA, attnum |-> 1]]

ViewReads == [r \in Rels |-> IF r = vA THEN {tA} ELSE {}]
KindOf == [r \in Rels |-> CASE r = kid -> "child" [] r = idx -> "index"
                                [] r = vA -> "view" [] OTHER -> "table"]

Masking ==
    [k \in {<<"s", "t", "id">>, <<"s", "t", "secret">>, <<"o", "t", "id">>,
            <<"o", "t", "secret">>, <<"s", "v", "id">>, <<"s", "v", "secret">>} |->
       IF k \in {<<"s", "t", "secret">>, <<"s", "v", "secret">>} THEN "masked" ELSE "raw"]

Asks(kind, refs, source, page, total) ==
    [kind |-> kind, refs |-> refs, source |-> source, page |-> page, total |-> total]

PageOf(page, size, limit, offset, maxRows) ==
    [page |-> page, size |-> size, limit |-> limit, offset |-> offset, maxRows |-> maxRows]

First == PageOf(1, 2, None, 0, 2)
ST == <<"s", "t">>
OT == <<"o", "t">>

Statements ==
    {Asks("ordinary", <<ST, OT>>, None, First, 3),
     Asks("ordinary", <<ST, ST>>, None, PageOf(1, 1, 2, 0, 3), 2),
     Asks("bound", <<<<"s", "v">>>>, None, PageOf(2, 1, 3, 1, 2), 3),
     Asks("navigation", <<>>, OT, PageOf(1, 1, None, 0, 2), 1),
     Asks("ordinary", <<OT>>, None, PageOf(1, 1, 0, 0, 3), 2)}
=============================================================================
