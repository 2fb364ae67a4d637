---------------------------- MODULE MCMySQLQuery ----------------------------
EXTENDS MySQLQuery

Column(n, f) == [name |-> n, field |-> f]

\* As created; reordered; with the names exchanged; without a column; dropped.
MCTables ==
    { <<Column("a", "f1"), Column("b", "f2")>>, <<Column("b", "f2"), Column("a", "f1")>>,
      <<Column("a", "f2"), Column("b", "f1")>>, <<Column("a", "f1")>>, <<>> }

\* No rows, a boundary of every limit, a NULL row, a row over the cell cap,
\* and more bytes than a response may have.
MCContents == { <<>>, <<1, 1>>, <<1, 0, 1, 1, 1>>, <<3, 1, 2>> }

Ask(kind, exprs) ==
    [kind |-> kind, exprs |-> exprs, page |-> 0, pageSize |-> 0, maxRows |-> 0,
     production |-> FALSE, knowsTruncation |-> TRUE]

Paging(r, page, size, rows) == [r EXCEPT !.page = page, !.pageSize = size, !.maxRows = rows]

AllColumns == Ask("select", <<STAR>>)
Named == Ask("select", <<"b", "a">>)

MCRequests ==
    { AllColumns, Paging(Named, 1, 1, 0), Paging(AllColumns, 1, 2, 3),
      Paging(Named, 2, 2, 9), Paging(Named, 9, 2, 0),
      [Named EXCEPT !.production = TRUE, !.knowsTruncation = FALSE],
      Ask("select", <<"a", Expression>>), Ask("select", <<STAR, STAR>>),
      Ask("literal", <<Literal>>), Ask("literal", <<Expression>>),
      Ask("metadata", <<>>), Ask("forbidden", <<>>),
      Ask("related", <<STAR>>), [Ask("related", <<STAR>>) EXCEPT !.maxRows = 9] }
=============================================================================
