--------------------------- MODULE MCDataSources ---------------------------
(* Small instances of DataSources for TLC. *)
EXTENDS DataSources

CONSTANTS u1, u2, u3, u4, k1, k2, col1, col2, x, y

MCUrl == {u1, u2, u3, u4}
MCCall == {k1, k2}
MCReader == {k2}
MCScheme == u1 :> "postgresql" @@ u2 :> "mysql" @@ u3 :> "sqlserver" @@ u4 :> "azuresql"
MCPositional == <<col1, col2>>

Conf(url, env, maxOpen, maxIdle) ==
    [url |-> url, env |-> env, maxOpen |-> maxOpen, maxIdle |-> maxIdle]

(* Every way Configure can end, with limits at and around one.                *)
MCProviderConfig ==
    {Conf(u1, NoUrl, Null, Null), Conf(NoUrl, u2, 1, 0), Conf(u1, u2, 2, 1),
     Conf(NoUrl, BadUrl, 1, 1), Conf(u2, NoUrl, NotInteger, Null),
     Conf(NoUrl, NoUrl, 1, NotInteger), Conf(UnknownUrl, NoUrl, 1, 3)}

Column(name, db, scan) == [name |-> name, db |-> db, scan |-> scan, text |-> FALSE]
Unparsed(name, db) == [name |-> name, db |-> db, scan |-> "NullTime", text |-> TRUE]
Guid == <<1, 2, 3, 4, 5, 6, 7, 8, 9, 10, 11, 12, 13, 14, 15, 16>>

(* Columns as the drivers describe them, with a NULL, a number at and beyond  *)
(* each limit, a column type no rule knows, a NaN that is kept and one that *)
(* is displaced, two columns of one name, and one without a name that gets the *)
(* name of another.                                                            *)
Rows(url, columns, rows) == [url |-> url, columns |-> columns, rows |-> rows]
MCQuery ==
    {Rows(u1, <<Column(x, "INT8", "int64"), Column(y, "TIMESTAMPTZ", "time")>>,
          <<<<1, <<5, 2>>>>, <<Nil, Nil>>>>),
     Rows(u1, <<Column(x, "NUMERIC", "float64"), Column(x, "790", "string")>>,
          <<<<5, 3>>, <<NaN, Nil>>>>),
     Rows(u1, <<Column(x, "NUMERIC", "float64"), Column(y, "BIT", "string")>>,
          <<<<7, 1>>, <<NaN, Nil>>>>),
     Rows(u1, <<Column(col2, "BOOL", "bool"), Column(Unnamed, "TEXT", "string")>>,
          <<<<1, 2>>>>),
     Rows(u2, <<Column(x, "BIGINT", "uint64"), Column(y, "DECIMAL", "RawBytes")>>,
          <<<<6, 5>>, <<7, 5>>>>),
     Rows(u2, <<Column(x, "DATETIME", "NullTime"), Column(y, "YEAR", "NullInt64")>>,
          <<<<Nil, 5>>, <<<<5, 2>>, Nil>>>>),
     Rows(u2, <<Unparsed(x, "DATETIME")>>, <<<<Nil>>, <<<<5, 2>>>>>>),
     Rows(u2, <<Column(x, "TEXT", "RawBytes")>>, <<<<1>>>>),
     Rows(u3, <<Column(x, "UNIQUEIDENTIFIER", "bytes"), Column(y, "MONEY", "bytes")>>,
          <<<<Guid, Nil>>, <<Nil, 1>>>>),
     Rows(u3, <<Column(x, "REAL", "float64")>>, <<>>),
     Rows(u4, <<Column(x, "UNIQUEIDENTIFIER", "bytes")>>, <<<<Guid>>>>),
     Rows(u4, <<Column(x, "BIT", "bool"), Column(x, "BIT", "bool")>>, <<<<1, Nil>>, <<1, 0>>>>)}
=============================================================================
