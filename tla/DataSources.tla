---------------------------- MODULE DataSources ----------------------------
(* The two data sources among the calls of a plugin process: sql_query, which *)
(* reads the rows of its query one by one while it holds a connection, and    *)
(* sql_driver, which only looks at the URL. The other calls are applies.      *)
EXTENDS Connections, Columns

CONSTANTS
    Reader,   \* the calls that read a data source
    SchemeOf, \* the scheme of each URL
    Query     \* the queries: [url, columns, rows], each for its database

ASSUME DataSourcesAssumption ==
    /\ Reader \subseteq Call
    /\ \A u \in Url : DriverOf(SchemeOf[u]) \in Drivers
    /\ \A q \in Query :
          /\ q.url \in Url
          /\ q.columns \in Seq(Range(q.columns)) /\ q.rows \in Seq(Range(q.rows))

(* The drivers describe the columns, and the tables hold what fits them.      *)
ASSUME TableAssumption ==
    /\ Nil \notin Nat \cup Guids /\ NaN \notin Nat \cup {Nil}
    /\ \A q \in Query : \A i \in DOMAIN q.columns :
          /\ Described(DriverOf(SchemeOf[q.url]), q.columns[i])
          /\ \A r \in DOMAIN q.rows : IsCell(q.columns[i], q.rows[r][i])

VARIABLE read \* read[k]: what ReadDataSource knows, and its answer

dataVars == <<connectionVars, read>>

(* url: the attribute; driver: the one in use, or the one to name; open: the  *)
(* query has answered with rows; rows: those converted so far; lost: history, *)
(* the rows ended because the connection did.                                 *)
NoQuery == [url |-> NoUrl, columns |-> <<>>, rows |-> <<>>]
NoRead == [url |-> NoUrl, query |-> NoQuery, driver |-> "none", open |-> FALSE,
           rows |-> <<>>, answer |-> "pending", lost |-> FALSE]

DataInit == ConnectionsInit /\ read = [k \in Reader |-> NoRead]

Answer(k, answer) == read' = [read EXCEPT ![k].answer = answer]

(* GetDataSource, of a url that parses.                                       *)
DriverAt(u) == DriverOf(SchemeOf[Resolve(u)])

---------------------------------------------------------------------------
(* sql_query *)
ReadQuery(k, u, q) ==
    /\ Connect(k, u, 1)
    /\ q.url = Resolve(u)
    /\ read' = [read EXCEPT ![k] = [NoRead EXCEPT !.url = u, !.query = q,
                                                  !.driver = DriverAt(u)]]

ReadRejected(k, u) == ConnectRejected(k, u) /\ Answer(k, "error")

(* The ping and its answer, and the connection for the query.                 *)
Prepare(k) ==
    /\ Acquire(k) \/ (call[k].phase = "pinging" /\ Release(k))
    /\ UNCHANGED read

(* No connection, no answer to the ping, or the query is refused.             *)
ReadFails(k) ==
    /\ AcquireFails(k) \/ (~read[k].open /\ Fails(k))
    /\ Answer(k, "error")

RowsOpen(k) ==
    /\ call[k].phase = "executing" /\ ~read[k].open
    /\ read' = [read EXCEPT ![k].open = TRUE]
    /\ UNCHANGED connectionVars

NextCells(k) == read[k].query.rows[Len(read[k].rows) + 1]
RowsLeft(k) == Len(read[k].rows) < Len(read[k].query.rows)
Converts(k) == RowConverts(read[k].driver, read[k].query.columns, NextCells(k))
Panics(k) == RowPanics(read[k].driver, read[k].query.columns, NextCells(k))

NextRow(k) ==
    /\ read[k].open /\ call[k].phase = "executing"
    /\ RowsLeft(k) /\ Converts(k) /\ ~Panics(k)
    /\ read' = [read EXCEPT ![k].rows =
                  Append(@, ValuesForRow(read[k].driver, read[k].query.columns, NextCells(k)))]
    /\ UNCHANGED connectionVars

(* Broken variants: a row that does not convert is left out; its error leaves *)
(* the rows open.                                                             *)
RowSkipped(k) ==
    /\ read[k].open /\ call[k].phase = "executing"
    /\ RowsLeft(k) /\ ~Converts(k)
    /\ Release(k)
    /\ Answer(k, "rows")

RowFailsOpen(k) ==
    /\ read[k].open /\ call[k].phase = "executing"
    /\ RowsLeft(k) /\ ~Converts(k)
    /\ Advance(k, "done")
    /\ Answer(k, "diag")
    /\ UNCHANGED <<provider, pool>>

(* A row that does not convert ends the read with a diagnostic and no rows,   *)
(* and closes what is left of them.                                           *)
RowFails(k) ==
    /\ read[k].open /\ call[k].phase = "executing"
    /\ RowsLeft(k) /\ ~Converts(k)
    /\ Release(k)
    /\ Answer(k, "diag")

(* The process dies, and all calls it was serving end in an error.            *)
Die ==
    /\ ProcessDies
    /\ read' = [k \in Reader |-> IF Serving(k) THEN [read[k] EXCEPT !.answer = "error"]
                                ELSE read[k]]

(* A row that panics takes the process with it.                               *)
RowKills(k) ==
    /\ read[k].open /\ call[k].phase = "executing"
    /\ RowsLeft(k) /\ Panics(k)
    /\ Die

RowsEnd(k) ==
    /\ read[k].open /\ call[k].phase = "executing"
    /\ ~RowsLeft(k)
    /\ Release(k)
    /\ Answer(k, "rows")

(* The connection breaks, rows.Next answers false as it does at the end, and  *)
(* nobody asks rows.Err which of the two it was.                              *)
RowsLost(k) ==
    /\ read[k].open /\ call[k].phase = "executing"
    /\ Dropped(k) /\ Advance(k, "done")
    /\ read' = [read EXCEPT ![k].answer = "rows", ![k].lost = TRUE]
    /\ UNCHANGED provider

ReadProceeds(k) ==
    Prepare(k) \/ RowsOpen(k) \/ NextRow(k) \/ RowFails(k) \/ RowKills(k) \/ RowsEnd(k)

ReadStep(k) == ReadProceeds(k) \/ ReadFails(k) \/ RowsLost(k)

---------------------------------------------------------------------------
(* sql_driver names no driver while the provider's url is unknown, whether    *)
(* the data source has a url of its own or not.                               *)
ReadDriver(k, u) ==
    /\ provider.configured /\ call[k].phase = "waiting"
    /\ read' = [read EXCEPT ![k] = [NoRead EXCEPT
                  !.url = u,
                  !.driver = IF provider.url = UnknownUrl THEN "unknown"
                             ELSE IF Connectable(u) THEN DriverAt(u) ELSE "none",
                  !.answer = IF provider.url = UnknownUrl \/ Connectable(u)
                             THEN "driver" ELSE "error"]]
    /\ Advance(k, "done")
    /\ UNCHANGED <<provider, pool>>

---------------------------------------------------------------------------
DataNext ==
    \/ \E c \in ProviderConfig : ConfigureAgain(c) /\ UNCHANGED read
    \/ /\ \E k \in Call \ Reader :
             \/ \E u \in Url \cup {NoUrl, BadUrl} :
                   \/ \E statements \in 1..MaxStatements : Connect(k, u, statements)
                   \/ ConnectRejected(k, u)
             \/ ServeStep(k)
       /\ UNCHANGED read
    \/ \E k \in Reader, u \in Url \cup {NoUrl, BadUrl} :
          \/ \E q \in Query : ReadQuery(k, u, q)
          \/ ReadRejected(k, u)
          \/ ReadDriver(k, u)
    \/ \E k \in Reader : ReadStep(k)
    \/ Die

DataSpec == DataInit /\ [][DataNext]_dataVars

(* A call's goroutine goes on as long as it can and the database answers it;  *)
(* nothing has to go wrong.                                                   *)
FairData ==
    /\ DataSpec
    /\ \A k \in Call \ Reader : WF_dataVars((Acquire(k) \/ Release(k)) /\ UNCHANGED read)
    /\ \A k \in Reader : WF_dataVars(ReadProceeds(k))

---------------------------------------------------------------------------
(* A number as near to another as a float64 comes: all others it has room for *)
(* are farther, or as far and then without the even significand.              *)
Distance(m, n) == IF m < n THEN n - m ELSE m - n
AsNear(value, number) ==
    /\ value \in Nat /\ Representable(value)
    /\ \A n \in 0..number + 1 : Representable(n) /\ n # value =>
          \/ Distance(value, number) < Distance(n, number)
          \/ Distance(value, number) = Distance(n, number) /\ value % 4 = 0

(* An attribute shows a cell: NULL and only NULL as null, a time to the       *)
(* second, a Postgres numeric as near as a float64 comes, and everything else *)
(* as the database holds it.                                                  *)
Shows(attribute, c, cell) ==
    /\ attribute.value = Nil <=> cell = Nil
    /\ cell # Nil =>
          CASE c.db \in TimeNames -> attribute.value = cell[1]
            [] c.db = "NUMERIC" -> AsNear(attribute.value, cell)
            [] OTHER -> attribute.value = cell

(* The converted rows are the first rows of the table in their order, and     *)
(* each column that no later column displaces is an attribute under its name  *)
(* that shows its cell, through every driver's types and the two byte orders  *)
(* of an identifier (data_query.go:118, db.go:156, sqlserver.go:11).          *)
RowsAsStored ==
    \A k \in Reader : LET q == read[k].query IN
        \A r \in DOMAIN read[k].rows : \A i \in DOMAIN q.columns :
            /\ q.columns[i].name # Unnamed
            /\ \A j \in DOMAIN q.columns :
                  j > i => NameOf(q.columns, j) # q.columns[i].name
            => /\ q.columns[i].name \in DOMAIN read[k].rows[r]
               /\ Shows(read[k].rows[r][q.columns[i].name], q.columns[i], q.rows[r][i])

(* All rows of an answer are objects of one type, whatever is NULL in which   *)
(* of them: tftypes.NewValue panics on a row that does not fit the type of    *)
(* the first (data_query.go:138).                                             *)
OneRowType ==
    \A k \in Reader : \A r \in DOMAIN read[k].rows :
        LET first == read[k].rows[1]
            row == read[k].rows[r]
        IN  /\ DOMAIN row = DOMAIN first
            /\ \A name \in DOMAIN row : row[name].type = first[name].type

(* An answer with rows has all of them, unless the connection broke: no row   *)
(* that fails to convert is left out.                                         *)
WholeUnlessLost ==
    \A k \in Reader : read[k].answer = "rows" /\ ~read[k].lost =>
        Len(read[k].rows) = Len(read[k].query.rows)

(* The types data_query_test.go:35-182 reads from each driver, as far as the  *)
(* instances have them; it reads nothing through azuresql.                    *)
Tested ==
    [driver \in Drivers |->
        CASE driver = "pgx" ->
                {"INT8", "BIT", "BOOL", "TEXT", "NUMERIC", "790",
                 "TIMESTAMPTZ", "TIMESTAMP", "DATE"}
          [] driver = "mysql" ->
                {"BIGINT", "VARCHAR", "DECIMAL", "DATE", "DATETIME", "TIME", "YEAR", "DOUBLE"}
          [] driver = "sqlserver" ->
                {"INT", "BIT", "DECIMAL", "MONEY", "REAL", "NVARCHAR", "UNIQUEIDENTIFIER"}
          [] OTHER -> {}]

(* A query over types the tests read fails in the middle of its rows only for *)
(* the values the tests leave out: NULL in a uniqueidentifier, a number       *)
(* beyond int64, a time of MySQL without parseTime. Over azuresql:// none of  *)
(* SQL Server's own types is sure to convert (db.go:256).                     *)
TestedTypesConvert ==
    \A k \in Reader : read[k].answer = "diag" =>
        \E i \in DOMAIN read[k].query.columns :
            LET c == read[k].query.columns[i]
                cell == NextCells(k)[i]
            IN  \/ c.db \notin Tested[read[k].driver]
                \/ cell = Nil /\ c.db = "UNIQUEIDENTIFIER"
                \/ cell # Nil /\ c.text
                \/ cell # Nil /\ c.scan \in Wide /\ cell > MaxInt

---------------------------------------------------------------------------
(* docs/data-sources/query.md:41: `result` is "the result of the query"; it   *)
(* is the part of it that had arrived when the connection broke.              *)
ResultIsWhole ==
    \A k \in Reader : read[k].answer = "rows" =>
        Len(read[k].rows) = Len(read[k].query.rows)
=============================================================================
