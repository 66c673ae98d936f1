-------------------------- MODULE DataSourcesProofs --------------------------
(* The data sources, for every set of calls, queries and columns: their steps *)
(* are steps of Connections, so what holds of connections holds here, and the *)
(* rows of an answer are all of the query's, of one type.                     *)
EXTENDS DataSources, ConnectionsProofs, SequenceTheorems

DriverNames == Drivers \cup {"none", "unknown"}

(* The rows a driver makes of a query's, and every row there may be.          *)
RowsOf(driver, q) ==
    {ValuesForRow(driver, q.columns, q.rows[r]) : r \in DOMAIN q.rows}
RowValue == UNION {RowsOf(driver, q) : driver \in DriverNames, q \in Query \cup {NoQuery}}

ReadType ==
    [url : Url \cup {NoUrl, BadUrl}, query : Query \cup {NoQuery},
     driver : DriverNames, open : BOOLEAN, rows : Seq(RowValue),
     answer : {"pending", "error", "diag", "rows", "driver"}, lost : BOOLEAN]

DataTypeOK == read \in [Reader -> ReadType]

(* The r-th row is what the driver's rules make of the r-th row of the query. *)
RowDone(rd, r) ==
    /\ RowConverts(rd.driver, rd.query.columns, rd.query.rows[r])
    /\ ~RowPanics(rd.driver, rd.query.columns, rd.query.rows[r])
    /\ rd.rows[r] = ValuesForRow(rd.driver, rd.query.columns, rd.query.rows[r])

(* The rows are the first of the query's, by the rules of its database's      *)
(* driver; an answer with rows has all of them, and one with a diagnostic     *)
(* stands before a row that does not convert. A call that has returned adds   *)
(* none.                                                                      *)
ReadInOrder(rd, c) ==
    /\ Len(rd.rows) <= Len(rd.query.rows)
    /\ \A r \in DOMAIN rd.rows : RowDone(rd, r)
    /\ rd.query.rows # <<>> =>
          rd.query \in Query /\ rd.driver = DriverOf(SchemeOf[rd.query.url])
    /\ rd.answer \in {"rows", "diag"} => c.phase = "done"
    /\ rd.answer = "rows" /\ ~rd.lost => Len(rd.rows) = Len(rd.query.rows)
    /\ rd.answer = "diag" =>
          /\ Len(rd.rows) < Len(rd.query.rows)
          /\ ~RowConverts(rd.driver, rd.query.columns, rd.query.rows[Len(rd.rows) + 1])

(* A data source executes one statement, its query or none.                   *)
OneStatement == \A k \in Reader : call[k].left <= 1

DataInv == DataTypeOK /\ \A k \in Reader : ReadInOrder(read[k], call[k])

---------------------------------------------------------------------------
LEMMA ReadDriverRejects ==
  ASSUME NEW k \in Reader, NEW u, ReadDriver(k, u)
  PROVE  ConnectRejected(k, BadUrl)
<1>1. ~Connectable(BadUrl)
  BY ProviderAssumption DEF Connectable, Resolve
<1>2. QED
  BY <1>1 DEF ReadDriver, ConnectRejected

LEMMA ReadStepServes ==
  ASSUME NEW k \in Reader, ReadStep(k)
  PROVE  ServeStep(k) \/ ProcessDies \/ UNCHANGED connectionVars
<1>1. CASE Prepare(k)
  BY <1>1 DEF Prepare, ServeStep
<1>2. CASE RowsOpen(k) \/ NextRow(k)
  BY <1>2 DEF RowsOpen, NextRow
<1>3. CASE RowFails(k) \/ RowsEnd(k)
  BY <1>3 DEF RowFails, RowsEnd, ServeStep
<1>4. CASE ReadFails(k)
  BY <1>4 DEF ReadFails, ServeStep
<1>5. CASE RowsLost(k)
  BY <1>5 DEF RowsLost, Fails, ServeStep
<1>6. CASE RowKills(k)
  BY <1>6 DEF RowKills, Die
<1>7. QED
  BY <1>1, <1>2, <1>3, <1>4, <1>5, <1>6 DEF ReadStep, ReadProceeds

(* Every step of the data sources is one of Connections, or changes nothing   *)
(* that Connections knows of.                                                 *)
LEMMA DataStepConnects == [DataNext]_dataVars => [ConnectionsNext]_connectionVars
<1> SUFFICES ASSUME [DataNext]_dataVars PROVE [ConnectionsNext]_connectionVars
  OBVIOUS
<1>0. Reader \subseteq Call
  BY DataSourcesAssumption
<1>1. CASE \E c \in ProviderConfig : ConfigureAgain(c)
  BY <1>1 DEF ConnectionsNext
<1>2. CASE \E k \in Call, u \in Url \cup {NoUrl, BadUrl} :
              \/ \E statements \in 1..MaxStatements : Connect(k, u, statements)
              \/ ConnectRejected(k, u)
  BY <1>2 DEF ConnectionsNext
<1>3. CASE \E k \in Call : ServeStep(k)
  BY <1>3 DEF ConnectionsNext
<1>4. ASSUME NEW k \in Reader, NEW u \in Url \cup {NoUrl, BadUrl}, NEW q \in Query,
             ReadQuery(k, u, q)
      PROVE  [ConnectionsNext]_connectionVars
  <2>1. 1 \in 1..MaxStatements /\ Connect(k, u, 1)
    BY <1>4, CallAssumption DEF ReadQuery
  <2>2. QED
    BY <1>0, <1>2, <2>1
<1>5. ASSUME NEW k \in Reader, NEW u \in Url \cup {NoUrl, BadUrl},
             ReadRejected(k, u) \/ ReadDriver(k, u)
      PROVE  [ConnectionsNext]_connectionVars
  BY <1>0, <1>2, <1>5, ReadDriverRejects DEF ReadRejected
<1>6. CASE ProcessDies
  BY <1>6 DEF ConnectionsNext
<1>7. ASSUME NEW k \in Reader, ReadStep(k) PROVE [ConnectionsNext]_connectionVars
  BY <1>0, <1>3, <1>6, <1>7, ReadStepServes
<1>8. CASE UNCHANGED dataVars
  BY <1>8 DEF dataVars
<1>9. QED
  BY <1>1, <1>2, <1>3, <1>4, <1>5, <1>6, <1>7, <1>8 DEF DataNext, Die

(* sql_query and sql_driver use connections as Connections says: the calls    *)
(* with the data sources in them are calls of a plugin process.               *)
THEOREM DataIsConnections == DataSpec => ConnectionsSpec
<1>1. DataInit => ConnectionsInit
  BY DEF DataInit
<1>2. QED
  BY <1>1, DataStepConnects, PTL DEF DataSpec, ConnectionsSpec

(* So no call waits for a limit of connections, none leaks, and each works    *)
(* with one configuration, also while data sources read.                      *)
THEOREM DataConnections ==
    DataSpec => [](ConnectionsTypeOK /\ OneConnection /\ NoIdleNoLeak /\ OneConfiguration)
<1>1. QED
  BY DataIsConnections, ConnectionTypes, OneEach, NoneLeft, Configured, PTL

---------------------------------------------------------------------------
LEMMA DriverIsKnown == ASSUME NEW scheme PROVE DriverOf(scheme) \in DriverNames
  BY DEF DriverOf, DriverNames, Drivers

LEMMA NoReadType == NoRead \in ReadType /\ NoRead.rows = <<>> /\ NoRead.answer = "pending"
<1>1. /\ NoQuery \in Query \cup {NoQuery} /\ <<>> \in Seq(RowValue)
      /\ "none" \in DriverNames /\ NoUrl \in Url \cup {NoUrl, BadUrl}
  BY DEF DriverNames
<1> HIDE DEF NoQuery
<1>2. QED
  BY <1>1 DEF NoRead, ReadType

(* The rows of a query are a sequence. *)
LEMMA QueryRows ==
  ASSUME NEW q \in Query \cup {NoQuery}
  PROVE  Len(q.rows) \in Nat /\ DOMAIN q.rows = 1..Len(q.rows)
<1>1. CASE q \in Query
  <2>1. q.rows \in Seq(Range(q.rows))
    BY <1>1, DataSourcesAssumption
  <2>2. QED
    BY <2>1, LenProperties
<1>2. CASE q = NoQuery
  <2>1. q.rows = <<>>
    BY <1>2 DEF NoQuery
  <2>2. QED
    BY <2>1
<1>3. QED
  BY <1>1, <1>2

(* A step of reader k keeps the invariant if it leaves k's own read in order. *)
LEMMA OneReadMoves ==
  ASSUME DataInv, NEW k \in Reader, NEW next \in ReadType,
         read' = [read EXCEPT ![k] = next], ReadInOrder(next, call'[k]),
         \A j \in Call \ {k} : call'[j] = call[j]
  PROVE  DataInv'
<1>1. read \in [Reader -> ReadType] /\ Reader \subseteq Call
  BY DataSourcesAssumption DEF DataInv, DataTypeOK
<1>2. /\ read' \in [Reader -> ReadType] /\ read'[k] = next
      /\ \A j \in Reader \ {k} : read'[j] = read[j]
  BY <1>1
<1>3. ASSUME NEW j \in Reader PROVE ReadInOrder(read'[j], call'[j])
  <2>1. CASE j = k
    BY <1>2, <2>1
  <2>2. CASE j # k
    BY <1>1, <1>2, <2>2 DEF DataInv
  <2>3. QED
    BY <2>1, <2>2
<1>4. QED
  BY <1>2, <1>3 DEF DataInv, DataTypeOK

(* An error needs nothing of the rows.                                        *)
LEMMA ErrorMoves ==
  ASSUME DataInv, NEW k \in Reader, Answer(k, "error"),
         \A j \in Call \ {k} : call'[j] = call[j]
  PROVE  DataInv'
<1>1. read \in [Reader -> ReadType] /\ read[k] \in ReadType /\ ReadInOrder(read[k], call[k])
  BY DEF DataInv, DataTypeOK
<1> DEFINE next == [read[k] EXCEPT !.answer = "error"]
<1>2. /\ next \in ReadType /\ next.query = read[k].query /\ next.driver = read[k].driver
      /\ next.rows = read[k].rows /\ next.answer = "error"
  BY <1>1 DEF ReadType
<1>3. read' = [read EXCEPT ![k] = next]
  BY DEF Answer
<1> HIDE DEF next
<1>4. ReadInOrder(next, call'[k])
  BY <1>1, <1>2 DEF ReadInOrder, RowDone
<1>5. QED
  BY <1>2, <1>3, <1>4, OneReadMoves

(* The steps of Connections, as a read uses them, leave other calls alone.    *)
LEMMA OtherCalls ==
  ASSUME ConnectionsInv, NEW k \in Call,
         \/ \E u, statements : statements \in 1..MaxStatements /\ Connect(k, u, statements)
         \/ \E u : ConnectRejected(k, u)
         \/ ServeStep(k)
  PROVE  \A j \in Call \ {k} : call'[j] = call[j]
<1>0. ConnectionsTypeOK /\ PoolInv
  BY DEF ConnectionsInv
<1>1. ASSUME NEW u, NEW statements \in 1..MaxStatements, Connect(k, u, statements)
      PROVE  \A j \in Call \ {k} : call'[j] = call[j]
  BY <1>0, <1>1, ConnectEffect DEF Only
<1>2. ASSUME NEW u, ConnectRejected(k, u) PROVE \A j \in Call \ {k} : call'[j] = call[j]
  BY <1>0, <1>2, AdvanceCall DEF ConnectRejected
<1>3. CASE ServeStep(k)
  BY <1>0, <1>3, ServeEffect DEF Only
<1>4. QED
  BY <1>1, <1>2, <1>3

---------------------------------------------------------------------------
(* A new read of sql_query or sql_driver.                                     *)
LEMMA BeginMoves ==
  ASSUME ConnectionsInv, DataInv, NEW k \in Reader, NEW u \in Url \cup {NoUrl, BadUrl},
         (\E q \in Query : ReadQuery(k, u, q)) \/ ReadDriver(k, u)
  PROVE  DataInv'
<1>0. k \in Call /\ NoRead \in ReadType /\ NoRead.rows = <<>> /\ NoRead.answer = "pending"
  BY DataSourcesAssumption, NoReadType
<1>1. ASSUME NEW q \in Query, ReadQuery(k, u, q) PROVE DataInv'
  <2> DEFINE next == [NoRead EXCEPT !.url = u, !.query = q, !.driver = DriverAt(u)]
  <2>1. DriverAt(u) \in DriverNames
    BY DriverIsKnown DEF DriverAt
  <2>2. ASSUME NEW driver \in DriverNames, NEW rd,
               rd = [NoRead EXCEPT !.url = u, !.query = q, !.driver = driver]
        PROVE  /\ rd \in ReadType /\ rd.query = q /\ rd.driver = driver
               /\ rd.rows = NoRead.rows /\ rd.answer = NoRead.answer
    BY <1>0, <2>2 DEF ReadType
  <2>3. /\ next \in ReadType /\ next.query = q /\ next.driver = DriverAt(u)
        /\ next.rows = <<>> /\ next.answer = "pending"
    BY <1>0, <2>1, <2>2
  <2>4. read' = [read EXCEPT ![k] = next] /\ Connect(k, u, 1)
    BY <1>1 DEF ReadQuery
  <2> HIDE DEF next
  <2>5. Len(q.rows) \in Nat
    BY QueryRows
  <2>6. ReadInOrder(next, call'[k])
    <3>1. DriverAt(u) = DriverOf(SchemeOf[q.url])
      BY <1>1 DEF ReadQuery, DriverAt
    <3>2. QED
      BY <2>3, <2>5, <3>1 DEF ReadInOrder
  <2>7. 1 \in 1..MaxStatements
    BY CallAssumption
  <2>8. \A j \in Call \ {k} : call'[j] = call[j]
    BY <1>0, <2>4, <2>7, OtherCalls
  <2>9. QED
    BY <2>3, <2>4, <2>6, <2>8, OneReadMoves
<1>2. CASE ReadDriver(k, u)
  <2> DEFINE driver == IF provider.url = UnknownUrl THEN "unknown"
                       ELSE IF Connectable(u) THEN DriverAt(u) ELSE "none"
             answer == IF provider.url = UnknownUrl \/ Connectable(u)
                       THEN "driver" ELSE "error"
             next == [NoRead EXCEPT !.url = u, !.driver = driver, !.answer = answer]
  <2>1. driver \in DriverNames /\ answer \in {"driver", "error"}
    BY DriverIsKnown DEF DriverAt, DriverNames
  <2>2. read' = [read EXCEPT ![k] = next]
    BY <1>2 DEF ReadDriver
  <2> HIDE DEF driver, answer
  <2>3. /\ next \in ReadType /\ next.query = NoRead.query
        /\ next.rows = <<>> /\ next.answer = answer
    BY <1>0, <2>1 DEF ReadType
  <2> HIDE DEF next
  <2>4. Len(NoRead.query.rows) \in Nat /\ NoRead.query.rows = <<>>
    BY <1>0, QueryRows DEF ReadType, NoRead, NoQuery
  <2>5. ReadInOrder(next, call'[k])
    BY <2>1, <2>3, <2>4 DEF ReadInOrder
  <2>6. \A j \in Call \ {k} : call'[j] = call[j]
    BY <1>0, <1>2, ReadDriverRejects, OtherCalls
  <2>7. QED
    BY <2>2, <2>3, <2>5, <2>6, OneReadMoves
<1>3. QED
  BY <1>1, <1>2

LEMMA RowValues ==
  ASSUME NEW driver \in DriverNames, NEW q \in Query \cup {NoQuery}, NEW r \in DOMAIN q.rows
  PROVE  ValuesForRow(driver, q.columns, q.rows[r]) \in RowValue
<1>1. ValuesForRow(driver, q.columns, q.rows[r]) \in RowsOf(driver, q)
  BY DEF RowsOf
<1>2. QED
  BY <1>1 DEF RowValue

(* A converted row is one more, and has the types of its columns.             *)
LEMMA NextRowMoves ==
  ASSUME DataInv, NEW k \in Reader, NextRow(k)
  PROVE  DataInv'
<1> DEFINE rd == read[k]
           row == ValuesForRow(rd.driver, rd.query.columns, NextCells(k))
           next == [rd EXCEPT !.rows = Append(rd.rows, row)]
<1>1. /\ rd \in ReadType /\ ReadInOrder(rd, call[k]) /\ rd.rows \in Seq(RowValue)
      /\ rd.driver \in DriverNames /\ rd.query \in Query \cup {NoQuery}
  BY DEF DataInv, DataTypeOK, ReadType
<1>2. /\ Len(rd.query.rows) \in Nat /\ DOMAIN rd.query.rows = 1..Len(rd.query.rows)
      /\ Len(rd.rows) \in Nat /\ Len(rd.rows) < Len(rd.query.rows)
  BY <1>1, QueryRows, LenProperties DEF NextRow, RowsLeft
<1>3. row \in RowValue
  <2>1. Len(rd.rows) + 1 \in DOMAIN rd.query.rows
    BY <1>2
  <2>2. QED
    BY <1>1, <2>1, RowValues DEF NextCells
<1>4. /\ RowConverts(rd.driver, rd.query.columns, rd.query.rows[Len(rd.rows) + 1])
      /\ ~RowPanics(rd.driver, rd.query.columns, rd.query.rows[Len(rd.rows) + 1])
  BY DEF NextRow, Converts, Panics, NextCells
<1> DEFINE rows == Append(rd.rows, row)
<1> HIDE DEF row
<1>5. /\ rows \in Seq(RowValue) /\ Len(rows) = Len(rd.rows) + 1
      /\ \A r \in 1..Len(rd.rows) : rows[r] = rd.rows[r]
      /\ rows[Len(rd.rows) + 1] = row
  BY <1>1, <1>3, AppendProperties
<1>6. read' = [read EXCEPT ![k] = next] /\ UNCHANGED call /\ call[k].phase = "executing"
  BY DEF NextRow, row, connectionVars
<1> DEFINE later == [rd EXCEPT !.rows = rows]
<1>7. next = later
  OBVIOUS
<1> HIDE DEF rows, next
<1>8. /\ later \in ReadType /\ later.query = rd.query /\ later.driver = rd.driver
      /\ later.rows = rows /\ later.answer = rd.answer
  BY <1>1, <1>5 DEF ReadType
<1>14. row = ValuesForRow(rd.driver, rd.query.columns, rd.query.rows[Len(rd.rows) + 1])
  BY DEF row, NextCells
<1> HIDE DEF later, rd
<1>9. Len(rows) <= Len(rd.query.rows)
  BY <1>2, <1>5
<1>10. \A r \in DOMAIN rows : RowDone(later, r)
  <2>1. DOMAIN rows = 1..Len(rd.rows) + 1 /\ DOMAIN rd.rows = 1..Len(rd.rows)
    BY <1>1, <1>5, LenProperties
  <2>2. ASSUME NEW r \in DOMAIN rows PROVE r \in DOMAIN rd.rows \/ r = Len(rd.rows) + 1
    BY <1>2, <2>1, <2>2
  <2>3. ASSUME NEW r \in DOMAIN rd.rows PROVE RowDone(later, r)
    BY <1>1, <1>5, <1>8, <2>1 DEF ReadInOrder, RowDone
  <2>4. RowDone(later, Len(rd.rows) + 1)
    BY <1>4, <1>5, <1>8, <1>14 DEF RowDone
  <2>5. QED
    BY <2>2, <2>3, <2>4
<1>11. rd.answer \notin {"rows", "diag"}
  BY <1>1, <1>6 DEF ReadInOrder
<1>12. ReadInOrder(later, call'[k])
  BY <1>1, <1>8, <1>9, <1>10, <1>11 DEF ReadInOrder
<1>13. QED
  BY <1>6, <1>7, <1>8, <1>12, OneReadMoves

(* With one statement to execute, its release is the end of the call.         *)
LEMMA ReleaseEnds ==
  ASSUME ConnectionsTypeOK, NEW k \in Call, call[k].phase = "executing",
         call[k].left <= 1, Release(k)
  PROVE  call'[k].phase = "done" /\ \A j \in Call \ {k} : call'[j] = call[j]
<1>1. call' = [call EXCEPT ![k] =
                [phase |-> IF call[k].left > 1 THEN "ready" ELSE "done",
                 left |-> call[k].left - 1]]
  BY DEF Release
<1>2. call[k].left \in Nat /\ call \in [Call -> [phase : Phases, left : 0..MaxStatements]]
  BY CallAssumption DEF ConnectionsTypeOK
<1>3. ~(call[k].left > 1)
  BY <1>2
<1>4. call'[k] = [phase |-> "done", left |-> call[k].left - 1]
  BY <1>1, <1>2, <1>3
<1>5. QED
  BY <1>1, <1>2, <1>4

(* The end of the rows, and their loss, which nobody tells apart, and a row   *)
(* that does not convert.                                                     *)
LEMMA RowsEndMoves ==
  ASSUME ConnectionsInv, DataInv, OneStatement, NEW k \in Reader,
         RowsEnd(k) \/ RowsLost(k) \/ RowFails(k)
  PROVE  DataInv'
<1>1. /\ read \in [Reader -> ReadType] /\ read[k] \in ReadType
      /\ ReadInOrder(read[k], call[k]) /\ k \in Call
  BY DataSourcesAssumption DEF DataInv, DataTypeOK
<1>2. ConnectionsTypeOK /\ call[k].left <= 1
  BY DEF ConnectionsInv, OneStatement
<1>3. Len(read[k].rows) \in Nat /\ Len(read[k].query.rows) \in Nat
  BY <1>1, QueryRows, LenProperties DEF ReadType
<1>4. ASSUME NEW answer \in {"rows", "diag"}, Answer(k, answer), Release(k),
             call[k].phase = "executing",
             answer = "rows" => ~RowsLeft(k),
             answer = "diag" => RowsLeft(k) /\ ~Converts(k)
      PROVE  DataInv'
  <2> DEFINE next == [read[k] EXCEPT !.answer = answer]
  <2>1. /\ next \in ReadType /\ next.query = read[k].query /\ next.driver = read[k].driver
        /\ next.rows = read[k].rows /\ next.answer = answer
    BY <1>1 DEF ReadType
  <2>2. read' = [read EXCEPT ![k] = next]
    BY <1>4 DEF Answer
  <2> HIDE DEF next
  <2>3. answer = "rows" => Len(read[k].rows) = Len(read[k].query.rows)
    BY <1>1, <1>3, <1>4 DEF RowsLeft, ReadInOrder
  <2>4. answer = "diag" =>
          /\ Len(read[k].rows) < Len(read[k].query.rows)
          /\ ~RowConverts(read[k].driver, read[k].query.columns,
                          read[k].query.rows[Len(read[k].rows) + 1])
    BY <1>4 DEF RowsLeft, Converts, NextCells
  <2>5. call'[k].phase = "done" /\ \A j \in Call \ {k} : call'[j] = call[j]
    BY <1>1, <1>2, <1>4, ReleaseEnds
  <2>6. ReadInOrder(next, call'[k])
    BY <1>1, <2>1, <2>3, <2>4, <2>5 DEF ReadInOrder, RowDone
  <2>7. QED
    BY <2>1, <2>2, <2>5, <2>6, OneReadMoves
<1>5. CASE RowsLost(k)
  <2> DEFINE next == [read[k] EXCEPT !.answer = "rows", !.lost = TRUE]
  <2>1. /\ next \in ReadType /\ next.query = read[k].query /\ next.driver = read[k].driver
        /\ next.rows = read[k].rows /\ next.lost = TRUE /\ next.answer = "rows"
    BY <1>1 DEF ReadType
  <2>2. read' = [read EXCEPT ![k] = next] /\ Advance(k, "done")
    BY <1>1, <1>5 DEF RowsLost
  <2> HIDE DEF next
  <2>3. call'[k].phase = "done" /\ \A j \in Call \ {k} : call'[j] = call[j]
    BY <1>1, <1>2, <2>2, AdvanceCall
  <2>4. ReadInOrder(next, call'[k])
    BY <1>1, <2>1, <2>3 DEF ReadInOrder, RowDone
  <2>5. QED
    BY <2>1, <2>2, <2>3, <2>4, OneReadMoves
<1>6. QED
  BY <1>4, <1>5 DEF RowsEnd, RowFails

(* The process dies: who was being served has an error, who was done has the  *)
(* answer he had.                                                             *)
LEMMA DeathMoves ==
  ASSUME ConnectionsInv, DataInv, Die
  PROVE  DataInv'
<1> DEFINE ended(k) == IF Serving(k) THEN [read[k] EXCEPT !.answer = "error"] ELSE read[k]
<1>1. ASSUME NEW k \in Reader
      PROVE  ended(k) \in ReadType /\ ReadInOrder(ended(k), call'[k])
  <2>1. read[k] \in ReadType /\ ReadInOrder(read[k], call[k]) /\ k \in Call
    BY DataSourcesAssumption DEF DataInv, DataTypeOK
  <2>2. CASE Serving(k)
    <3> DEFINE next == [read[k] EXCEPT !.answer = "error"]
    <3>1. /\ next \in ReadType /\ next.query = read[k].query /\ next.driver = read[k].driver
          /\ next.rows = read[k].rows /\ next.answer = "error"
      BY <2>1 DEF ReadType
    <3> HIDE DEF next
    <3>2. ReadInOrder(next, call'[k])
      BY <2>1, <3>1 DEF ReadInOrder, RowDone
    <3>3. QED
      BY <2>2, <3>1, <3>2 DEF next
  <2>3. CASE ~Serving(k)
    <3>1. call'[k] = call[k]
      BY <2>1, <2>3 DEF Die, ProcessDies
    <3>2. QED
      BY <2>1, <2>3, <3>1
  <2>4. QED
    BY <2>2, <2>3
<1>2. read' = [k \in Reader |-> ended(k)]
  BY DEF Die
<1> HIDE DEF ended
<1>3. QED
  BY <1>1, <1>2 DEF DataInv, DataTypeOK

LEMMA ReadStepMoves ==
  ASSUME ConnectionsInv, DataInv, OneStatement, NEW k \in Reader, ReadStep(k)
  PROVE  DataInv'
<1>0. /\ read \in [Reader -> ReadType] /\ read[k] \in ReadType
      /\ ReadInOrder(read[k], call[k]) /\ k \in Call
  BY DataSourcesAssumption DEF DataInv, DataTypeOK
<1>1. CASE Prepare(k)
  <2>1. UNCHANGED read /\ call[k].phase # "done" /\ ServeStep(k)
    BY <1>1 DEF Prepare, Acquire, ServeStep
  <2>2. \A j \in Call \ {k} : call'[j] = call[j]
    BY <1>0, <2>1, OtherCalls
  <2>3. ReadInOrder(read[k], call'[k])
    BY <1>0, <2>1 DEF ReadInOrder
  <2>4. read' = [read EXCEPT ![k] = read[k]]
    BY <1>0, <2>1
  <2>5. QED
    BY <1>0, <2>2, <2>3, <2>4, OneReadMoves
<1>2. CASE RowsOpen(k)
  <2> DEFINE next == [read[k] EXCEPT !.open = TRUE]
  <2>1. /\ next \in ReadType /\ next.query = read[k].query /\ next.driver = read[k].driver
        /\ next.rows = read[k].rows /\ next.answer = read[k].answer
        /\ next.lost = read[k].lost
    BY <1>0 DEF ReadType
  <2>2. read' = [read EXCEPT ![k] = next] /\ UNCHANGED call
    BY <1>2 DEF RowsOpen, connectionVars
  <2> HIDE DEF next
  <2>3. ReadInOrder(next, call'[k])
    BY <1>0, <2>1, <2>2 DEF ReadInOrder, RowDone
  <2>4. QED
    BY <2>1, <2>2, <2>3, OneReadMoves
<1>3. CASE ReadFails(k)
  <2>1. ServeStep(k) /\ Answer(k, "error")
    BY <1>3 DEF ReadFails, ServeStep
  <2>2. QED
    BY <1>0, <2>1, OtherCalls, ErrorMoves
<1>4. QED
  BY <1>1, <1>2, <1>3, NextRowMoves, RowsEndMoves, DeathMoves
     DEF ReadStep, ReadProceeds, RowKills

---------------------------------------------------------------------------
LEMMA ServeLeft ==
  ASSUME ConnectionsInv, NEW k \in Call, ServeStep(k)
  PROVE  call'[k].left <= call[k].left
<1>1. /\ ConnectionsTypeOK /\ call[k].left \in Nat
      /\ call \in [Call -> [phase : Phases, left : 0..MaxStatements]]
  BY CallAssumption DEF ConnectionsInv, ConnectionsTypeOK
<1>2. CASE \E phase : Advance(k, phase)
  BY <1>1, <1>2, AdvanceCall
<1>3. ASSUME NEW phase, call' = [call EXCEPT ![k] =
                                   [phase |-> phase, left |-> call[k].left - 1]]
      PROVE  call'[k].left <= call[k].left
  <2>1. call'[k] = [phase |-> phase, left |-> call[k].left - 1]
    BY <1>1, <1>3
  <2>2. QED
    BY <1>1, <2>1
<1>4. QED
  BY <1>2, <1>3 DEF ServeStep, Acquire, AcquireFails, Release, Fails

LEMMA OneStatementNext ==
  ASSUME ConnectionsInv, OneStatement, [DataNext]_dataVars
  PROVE  OneStatement'
<1>0. /\ Reader \subseteq Call /\ ConnectionsTypeOK
      /\ call \in [Call -> [phase : Phases, left : 0..MaxStatements]]
      /\ \A k \in Call : call[k].left \in Nat
  BY DataSourcesAssumption, CallAssumption DEF ConnectionsInv, ConnectionsTypeOK
<1>1. CASE UNCHANGED call
  BY <1>1 DEF OneStatement
<1>2. ASSUME NEW k \in Call, \A j \in Call \ {k} : call'[j] = call[j],
             k \in Reader => call'[k].left <= 1
      PROVE  OneStatement'
  BY <1>0, <1>2 DEF OneStatement
<1>3. ASSUME NEW k \in Call, ServeStep(k) PROVE OneStatement'
  <2>1. /\ call'[k].left <= call[k].left /\ \A j \in Call \ {k} : call'[j] = call[j]
        /\ call' \in [Call -> [phase : Phases, left : 0..MaxStatements]]
    BY <1>0, <1>3, ServeLeft, OtherCalls, ServeEffect DEF ConnectionsInv, Moved
  <2>2. call'[k].left \in Nat
    BY <2>1, CallAssumption
  <2>3. k \in Reader => call'[k].left <= 1
    BY <1>0, <2>1, <2>2 DEF OneStatement
  <2>4. QED
    BY <1>2, <2>1, <2>3
<1>4. ASSUME NEW k \in Call, NEW u, ConnectRejected(k, u) PROVE OneStatement'
  <2>1. call'[k].left = call[k].left /\ \A j \in Call \ {k} : call'[j] = call[j]
    BY <1>0, <1>4, AdvanceCall DEF ConnectRejected
  <2>2. QED
    BY <1>2, <2>1 DEF OneStatement
<1>5. ASSUME NEW k \in Call, NEW u, NEW statements \in 1..MaxStatements,
             k \in Reader => statements = 1, Connect(k, u, statements)
      PROVE  OneStatement'
  <2>1. /\ call'[k] = [phase |-> "opened", left |-> statements]
        /\ \A j \in Call \ {k} : call'[j] = call[j]
    BY <1>0, <1>5 DEF Connect
  <2>2. QED
    BY <1>2, <1>5, <2>1
<1>6. ASSUME NEW k \in Reader, NEW u, NEW q, ReadQuery(k, u, q) PROVE OneStatement'
  <2>1. 1 \in 1..MaxStatements /\ Connect(k, u, 1)
    BY <1>6, CallAssumption DEF ReadQuery
  <2>2. QED
    BY <1>0, <1>5, <2>1
<1>7. ASSUME NEW k \in Reader, NEW u, ReadRejected(k, u) \/ ReadDriver(k, u)
      PROVE  OneStatement'
  BY <1>0, <1>4, <1>7, ReadDriverRejects DEF ReadRejected
<1>8. CASE ProcessDies
  BY <1>0, <1>8, DeathKeepsInv DEF OneStatement
<1>9. ASSUME NEW k \in Reader, ReadStep(k) PROVE OneStatement'
  BY <1>0, <1>1, <1>3, <1>8, <1>9, ReadStepServes DEF connectionVars
<1>10. CASE (\E c \in ProviderConfig : ConfigureAgain(c)) \/ UNCHANGED dataVars
  BY <1>1, <1>10 DEF ConfigureAgain, dataVars, connectionVars
<1>11. QED
  BY <1>3, <1>4, <1>5, <1>6, <1>7, <1>8, <1>9, <1>10 DEF DataNext, Die

LEMMA DataInvNext ==
  ASSUME ConnectionsInv, OneStatement, DataInv, [DataNext]_dataVars
  PROVE  DataInv'
<1>0. Reader \subseteq Call
  BY DataSourcesAssumption
<1>1. CASE UNCHANGED <<call, read>>
  BY <1>1 DEF DataInv, DataTypeOK
<1>2. ASSUME NEW k \in Call \ Reader, UNCHANGED read,
             \A j \in Call \ {k} : call'[j] = call[j]
      PROVE  DataInv'
  BY <1>0, <1>2 DEF DataInv, DataTypeOK
<1>3. ASSUME NEW k \in Call \ Reader, UNCHANGED read,
             \/ \E u, statements : statements \in 1..MaxStatements /\ Connect(k, u, statements)
             \/ \E u : ConnectRejected(k, u)
             \/ ServeStep(k)
      PROVE  DataInv'
  BY <1>2, <1>3, OtherCalls
<1>4. ASSUME NEW k \in Reader, NEW u, ReadRejected(k, u) PROVE DataInv'
  BY <1>0, <1>4, OtherCalls, ErrorMoves DEF ReadRejected
<1>5. CASE (\E c \in ProviderConfig : ConfigureAgain(c) /\ UNCHANGED read)
           \/ UNCHANGED dataVars
  BY <1>1, <1>5 DEF ConfigureAgain, dataVars, connectionVars
<1>6. QED
  BY <1>3, <1>4, <1>5, BeginMoves, ReadStepMoves, DeathMoves DEF DataNext

LEMMA DataInvariant == DataSpec => [](ConnectionsInv /\ OneStatement /\ DataInv)
<1>1. DataInit => OneStatement /\ DataInv
  <2> SUFFICES ASSUME DataInit PROVE OneStatement /\ DataInv
    OBVIOUS
  <2>1. OneStatement
    BY DataSourcesAssumption DEF DataInit, ConnectionsInit, OneStatement
  <2>2. read = [k \in Reader |-> NoRead]
    BY DEF DataInit
  <2>3. NoRead.query \in Query \cup {NoQuery}
    BY NoReadType DEF ReadType
  <2>4. Len(NoRead.query.rows) \in Nat /\ NoRead.query.rows = <<>>
    BY <2>3, QueryRows DEF NoRead, NoQuery
  <2>5. \A k \in Reader : ReadInOrder(NoRead, call[k])
    BY <2>4, NoReadType DEF ReadInOrder
  <2>6. QED
    BY <2>1, <2>2, <2>5, NoReadType DEF DataInv, DataTypeOK
<1>2. ConnectionsInv /\ OneStatement /\ DataInv /\ [DataNext]_dataVars
      => OneStatement' /\ DataInv'
  BY OneStatementNext, DataInvNext
<1>3. DataSpec => []ConnectionsInv
  BY DataIsConnections, ConnectionsCorrect, PTL
<1>4. QED
  BY <1>1, <1>2, <1>3, PTL DEF DataSpec

(* A row that does not convert is never left out of an answer.                *)
THEOREM NoRowSkipped == DataSpec => []WholeUnlessLost
<1>1. DataInv => WholeUnlessLost
  BY DEF DataInv, ReadInOrder, WholeUnlessLost
<1>2. QED
  BY <1>1, DataInvariant, PTL

(* The attributes of a row, and their types, come from columns and driver.    *)
LEMMA AttributeIs ==
  ASSUME NEW driver, NEW columns, NEW cells
  PROVE  /\ DOMAIN ValuesForRow(driver, columns, cells) = AttributeNames(columns)
         /\ \A name \in AttributeNames(columns) :
               ValuesForRow(driver, columns, cells)[name].type =
                 TypeOf(Variable(driver, columns[ColumnFor(columns, name)]))
<1> DEFINE attribute(name) ==
             [type |-> TypeOf(Variable(driver, columns[ColumnFor(columns, name)])),
              value |-> Converted(Variable(driver, columns[ColumnFor(columns, name)]),
                                  Delivered(columns[ColumnFor(columns, name)],
                                            cells[ColumnFor(columns, name)]))]
           row == [name \in AttributeNames(columns) |-> attribute(name)]
<1>1. ValuesForRow(driver, columns, cells) = row
  BY Zenon DEF ValuesForRow
<1>2. \A name : attribute(name).type =
                  TypeOf(Variable(driver, columns[ColumnFor(columns, name)]))
  OBVIOUS
<1> HIDE DEF attribute
<1>3. DOMAIN row = AttributeNames(columns)
      /\ \A name \in AttributeNames(columns) : row[name] = attribute(name)
  OBVIOUS
<1> HIDE DEF row
<1>4. QED
  BY <1>1, <1>2, <1>3

(* tftypes.NewValue gets rows of one type only, for every query and driver.   *)
THEOREM RowsOfOneType == DataSpec => []OneRowType
<1> DEFINE RowTyped(rd, row) ==
             /\ DOMAIN row = AttributeNames(rd.query.columns)
             /\ \A name \in DOMAIN row :
                   row[name].type =
                     TypeOf(Variable(rd.driver,
                                     rd.query.columns[ColumnFor(rd.query.columns, name)]))
<1>1. ASSUME DataInv, NEW k \in Reader, NEW r \in DOMAIN read[k].rows
      PROVE  /\ RowTyped(read[k], read[k].rows[r]) /\ RowTyped(read[k], read[k].rows[1])
  <2>1. read[k].rows \in Seq(RowValue)
    BY <1>1 DEF DataInv, DataTypeOK, ReadType
  <2>2. 1 \in DOMAIN read[k].rows
    BY <1>1, <2>1, LenProperties
  <2>3. ASSUME NEW i \in DOMAIN read[k].rows PROVE RowTyped(read[k], read[k].rows[i])
    <3>1. RowDone(read[k], i)
      BY <1>1 DEF DataInv, ReadInOrder
    <3>2. read[k].rows[i] =
            ValuesForRow(read[k].driver, read[k].query.columns, read[k].query.rows[i])
      BY <3>1 DEF RowDone
    <3>3. QED
      BY <3>2, AttributeIs
  <2>4. QED
    BY <1>1, <2>2, <2>3
<1>2. ASSUME DataInv, NEW k \in Reader, NEW r \in DOMAIN read[k].rows
      PROVE  /\ DOMAIN read[k].rows[r] = DOMAIN read[k].rows[1]
             /\ \A name \in DOMAIN read[k].rows[r] :
                   read[k].rows[r][name].type = read[k].rows[1][name].type
  <2>1. RowTyped(read[k], read[k].rows[r]) /\ RowTyped(read[k], read[k].rows[1])
    BY <1>1, <1>2
  <2>2. QED
    BY <2>1
<1> HIDE DEF RowTyped
<1>3. DataInv => OneRowType
  BY <1>2 DEF OneRowType
<1>4. QED
  BY <1>3, DataInvariant, PTL

---------------------------------------------------------------------------
(* The bytes of a uniqueidentifier. *)
IsSlice(part, s, m, n) ==
    /\ part \in Seq(Nat) /\ Len(part) = (n - m) + 1
    /\ \A i \in 1..(n - m) + 1 : part[i] = s[(m + i) - 1]

IsReversed(part, s, m, n) ==
    /\ part \in Seq(Nat) /\ Len(part) = (n - m) + 1
    /\ \A i \in 1..(n - m) + 1 : part[i] = s[(n - i) + 1]

IsJoin(whole, s, t) ==
    /\ whole \in Seq(Nat) /\ Len(whole) = Len(s) + Len(t)
    /\ \A i \in 1..Len(s) : whole[i] = s[i]
    /\ \A i \in 1..Len(t) : whole[Len(s) + i] = t[i]

LEMMA Sliced ==
  ASSUME NEW s \in Seq(Nat), NEW m \in 1..Len(s), NEW n \in m..Len(s),
         NEW part, part = SubSeq(s, m, n)
  PROVE  IsSlice(part, s, m, n)
<1>1. Len(s) \in Nat /\ m \in Nat /\ n \in Nat /\ 1 <= m /\ m <= n /\ n <= Len(s)
  BY LenProperties
<1>2. \A i \in m..n : s[i] \in Nat
  BY <1>1, ElementOfSeq
<1>3. /\ part \in Seq(Nat) /\ Len(part) = (n - m) + 1
      /\ \A i \in 1..(n - m) + 1 : part[i] = s[(m + i) - 1]
  BY <1>1, <1>2, SubSeqProperties
<1>4. QED
  BY <1>3 DEF IsSlice

LEMMA Reversed ==
  ASSUME NEW s \in Seq(Nat), NEW m \in 1..Len(s), NEW n \in m..Len(s),
         NEW part, part = Reverse(SubSeq(s, m, n))
  PROVE  IsReversed(part, s, m, n)
<1> DEFINE front == SubSeq(s, m, n)
<1>1. Len(s) \in Nat /\ m \in Nat /\ n \in Nat /\ 1 <= m /\ m <= n /\ n <= Len(s)
  BY LenProperties
<1>2. IsSlice(front, s, m, n) /\ part = Reverse(front)
  BY Sliced
<1> HIDE DEF front
<1>3. /\ front \in Seq(Nat) /\ Len(front) = (n - m) + 1
      /\ \A i \in 1..(n - m) + 1 : front[i] = s[(m + i) - 1]
  BY <1>2 DEF IsSlice
<1>4. part = [i \in 1..Len(front) |-> front[(Len(front) - i) + 1]]
  BY <1>2 DEF Reverse
<1>5. \A i \in 1..(n - m) + 1 :
        /\ (Len(front) - i) + 1 \in 1..(n - m) + 1
        /\ (m + ((Len(front) - i) + 1)) - 1 = (n - i) + 1
  BY <1>1, <1>3
<1>6. ASSUME NEW i \in 1..(n - m) + 1 PROVE front[(Len(front) - i) + 1] = s[(n - i) + 1]
  <2> DEFINE j == (Len(front) - i) + 1
  <2>1. j \in 1..(n - m) + 1 /\ (m + j) - 1 = (n - i) + 1
    BY <1>5
  <2> HIDE DEF j
  <2>2. front[j] = s[(n - i) + 1]
    BY <1>3, <2>1
  <2>3. QED
    BY <2>2 DEF j
<1>7. \A i \in 1..(n - m) + 1 : front[(Len(front) - i) + 1] \in Nat
  BY <1>3, <1>5, ElementOfSeq
<1>8. part \in [1..Len(front) -> Nat]
  BY <1>3, <1>4, <1>7
<1>9. part \in Seq(Nat) /\ Len(part) = Len(front)
  <2>1. Len(front) \in Nat
    BY <1>3, LenProperties
  <2>2. part \in Seq(Nat)
    BY <1>8, <2>1, SeqDef
  <2>3. Len(part) \in Nat /\ DOMAIN part = 1..Len(part) /\ DOMAIN part = 1..Len(front)
    BY <1>8, <2>2, LenProperties
  <2>4. QED
    BY <2>1, <2>2, <2>3
<1>10. QED
  BY <1>3, <1>4, <1>6, <1>9 DEF IsReversed

LEMMA Joined ==
  ASSUME NEW s \in Seq(Nat), NEW t \in Seq(Nat), NEW whole, whole = s \o t
  PROVE  IsJoin(whole, s, t)
<1>1. Len(s) \in Nat /\ Len(t) \in Nat
  BY LenProperties
<1>2. /\ whole \in Seq(Nat) /\ Len(whole) = Len(s) + Len(t)
      /\ \A i \in 1..Len(s) + Len(t) : whole[i] = IF i <= Len(s) THEN s[i] ELSE t[i - Len(s)]
  BY ConcatProperties
<1>3. ASSUME NEW i \in 1..Len(t) PROVE whole[Len(s) + i] = t[i]
  <2>1. /\ Len(s) + i \in 1..Len(s) + Len(t) /\ ~(Len(s) + i <= Len(s))
        /\ (Len(s) + i) - Len(s) = i
    BY <1>1
  <2>2. QED
    BY <1>2, <2>1
<1>4. QED
  BY <1>1, <1>2, <1>3 DEF IsJoin

(* sqlServerUniqueIdentifier.Scan undoes what the driver did to the bytes.    *)
LEMMA ByteOrder ==
  ASSUME NEW guid \in Guids
  PROVE  MixedEndian(guid) \in Guids /\ Unswapped(MixedEndian(guid)) = guid
<1> DEFINE sixteen == 16
           a == Reverse(SubSeq(guid, 1, 4))
           b == Reverse(SubSeq(guid, 5, 6))
           c == Reverse(SubSeq(guid, 7, 8))
           d == SubSeq(guid, 9, 16)
<1>0. guid \in Seq(Nat) /\ Len(guid) = 16
  <2>1. sixteen \in Nat /\ guid \in [1..sixteen -> Nat]
    BY DEF Guids
  <2> HIDE DEF sixteen
  <2>2. guid \in Seq(Nat) /\ DOMAIN guid = 1..sixteen
    BY <2>1, SeqDef
  <2>3. Len(guid) \in Nat /\ DOMAIN guid = 1..Len(guid)
    BY <2>2, LenProperties
  <2>4. Len(guid) = sixteen
    BY <2>1, <2>2, <2>3
  <2>5. QED
    BY <2>2, <2>4 DEF sixteen
<1>1. IsReversed(a, guid, 1, 4) /\ IsReversed(b, guid, 5, 6) /\ IsReversed(c, guid, 7, 8)
      /\ IsSlice(d, guid, 9, 16)
  <2>1. /\ 1 \in 1..Len(guid) /\ 4 \in 1..Len(guid) /\ 5 \in 1..Len(guid) /\ 6 \in 5..Len(guid)
        /\ 7 \in 1..Len(guid) /\ 8 \in 7..Len(guid) /\ 9 \in 1..Len(guid) /\ 16 \in 9..Len(guid)
    BY <1>0
  <2>2. QED
    BY <1>0, <2>1, Reversed, Sliced
<1> HIDE DEF a, b, c, d
<1>2. /\ a \in Seq(Nat) /\ Len(a) = 4
      /\ a[1] = guid[4] /\ a[2] = guid[3] /\ a[3] = guid[2] /\ a[4] = guid[1]
  BY <1>1 DEF IsReversed
<1>3. b \in Seq(Nat) /\ Len(b) = 2 /\ b[1] = guid[6] /\ b[2] = guid[5]
  BY <1>1 DEF IsReversed
<1>4. c \in Seq(Nat) /\ Len(c) = 2 /\ c[1] = guid[8] /\ c[2] = guid[7]
  BY <1>1 DEF IsReversed
<1>5. d \in Seq(Nat) /\ Len(d) = 8 /\ \A i \in 1..8 : d[i] = guid[(9 + i) - 1]
  BY <1>1 DEF IsSlice
<1> DEFINE ab == a \o b
           abc == ab \o c
           all == abc \o d
<1>6. MixedEndian(guid) = all
  BY DEF MixedEndian, a, b, c, d
<1>7. IsJoin(ab, a, b)
  BY <1>2, <1>3, Joined
<1> HIDE DEF ab
<1>8. /\ ab \in Seq(Nat) /\ Len(ab) = 6
      /\ ab[1] = a[1] /\ ab[2] = a[2] /\ ab[3] = a[3] /\ ab[4] = a[4]
      /\ ab[5] = b[1] /\ ab[6] = b[2]
  BY <1>2, <1>3, <1>7 DEF IsJoin
<1>9. IsJoin(abc, ab, c)
  BY <1>4, <1>8, Joined
<1> HIDE DEF abc
<1>10. /\ abc \in Seq(Nat) /\ Len(abc) = 8
       /\ abc[1] = ab[1] /\ abc[2] = ab[2] /\ abc[3] = ab[3] /\ abc[4] = ab[4]
       /\ abc[5] = ab[5] /\ abc[6] = ab[6] /\ abc[7] = c[1] /\ abc[8] = c[2]
  BY <1>4, <1>8, <1>9 DEF IsJoin
<1>11. IsJoin(all, abc, d)
  BY <1>5, <1>10, Joined
<1> HIDE DEF all
<1>12. /\ all \in Seq(Nat) /\ Len(all) = 16
       /\ \A i \in 1..8 : all[i] = abc[i]
       /\ \A i \in 1..8 : all[8 + i] = d[i]
  BY <1>5, <1>10, <1>11 DEF IsJoin
<1>13. \A i \in 1..16 :
        all[CASE i \in 1..4 -> 5 - i [] i \in 5..6 -> 11 - i [] i \in 7..8 -> 15 - i
              [] OTHER -> i] = guid[i]
  <2>1. /\ all[4] = guid[1] /\ all[3] = guid[2] /\ all[2] = guid[3] /\ all[1] = guid[4]
        /\ all[6] = guid[5] /\ all[5] = guid[6] /\ all[8] = guid[7] /\ all[7] = guid[8]
    BY <1>2, <1>3, <1>4, <1>8, <1>10, <1>12
  <2>2. ASSUME NEW i \in 9..16 PROVE all[i] = guid[i]
    <3>1. i - 8 \in 1..8 /\ 8 + (i - 8) = i /\ (9 + (i - 8)) - 1 = i
      OBVIOUS
    <3>2. all[8 + (i - 8)] = guid[(9 + (i - 8)) - 1]
      BY <1>5, <1>12, <3>1
    <3>3. QED
      BY <3>1, <3>2
  <2>3. QED
    BY <2>1, <2>2
<1>14. Unswapped(all) = guid
  <2>1. Unswapped(all) = [i \in 1..16 |-> guid[i]]
    BY <1>13 DEF Unswapped
  <2>2. QED
    BY <2>1 DEF Guids
<1>15. all \in Guids
  <2>1. all \in [1..Len(all) -> Nat]
    BY <1>12, LenProperties
  <2>2. QED
    BY <1>12, <2>1 DEF Guids
<1>16. QED
  BY <1>6, <1>14, <1>15

(* The attribute of a column is that of the last column of its name.          *)
LEMMA ColumnIs ==
  ASSUME NEW columns, DOMAIN columns \subseteq Nat, NEW i \in DOMAIN columns,
         \A j \in DOMAIN columns : j > i => NameOf(columns, j) # NameOf(columns, i)
  PROVE  ColumnFor(columns, NameOf(columns, i)) = i
<1> DEFINE name == NameOf(columns, i)
           IsLast(m) == /\ NameOf(columns, m) = name
                        /\ \A j \in DOMAIN columns : NameOf(columns, j) = name => j <= m
<1>1. IsLast(i)
  OBVIOUS
<1>2. ASSUME NEW m \in DOMAIN columns, IsLast(m) PROVE m = i
  <2>1. m <= i /\ i <= m /\ m \in Nat /\ i \in Nat
    BY <1>1, <1>2
  <2>2. QED
    BY <2>1
<1>3. QED
  BY <1>1, <1>2 DEF ColumnFor

(* Where a float64 has room for a number it is the number, and else the next  *)
(* one with an even significand.                                              *)
LEMMA NearestIsNear == ASSUME NEW number \in Nat PROVE AsNear(Nearest(number), number)
<1>1. CASE Representable(number)
  <2>1. Nearest(number) = number
    BY <1>1 DEF Nearest
  <2>2. QED
    BY <1>1, <2>1 DEF AsNear, Distance
<1>2. CASE ~Representable(number)
  <2>1. number % 2 = 1 /\ number > MaxExact /\ number % 4 \in {1, 3} /\ number >= 1
    BY <1>2, ColumnsAssumption DEF Representable
  <2> DEFINE value == IF number % 4 = 1 THEN number - 1 ELSE number + 1
  <2>2. Nearest(number) = value
    BY <1>2 DEF Nearest
  <2>3. value \in Nat /\ value % 4 = 0 /\ value % 2 = 0
    BY <2>1
  <2>4. Distance(value, number) = 1
    BY <2>1 DEF Distance
  <2> HIDE DEF value
  <2>5. ASSUME NEW n \in 0..number + 1, Representable(n) PROVE Distance(n, number) >= 1
    <3>1. n # number
      BY <1>2, <2>5
    <3>2. QED
      BY <3>1 DEF Distance
  <2>6. ASSUME NEW n \in 0..number + 1, Representable(n)
        PROVE  \/ Distance(value, number) < Distance(n, number)
               \/ Distance(value, number) = Distance(n, number) /\ value % 4 = 0
    <3>1. Distance(n, number) \in Int
      BY DEF Distance
    <3>2. QED
      BY <2>3, <2>4, <2>5, <2>6, <3>1
  <2>7. QED
    BY <2>2, <2>3, <2>6 DEF AsNear, Representable
<1>3. QED
  BY <1>1, <1>2

(* Where a column and its cell are what drivers and tables have, a variable   *)
(* that the cell scans into shows it.                                         *)
LEMMA CellShows ==
  ASSUME NEW driver \in Drivers, NEW c, NEW cell, NEW attribute,
         Described(driver, c), IsCell(c, cell),
         Nil \notin Nat \cup Guids, NaN \notin Nat \cup {Nil},
         Variable(driver, c) # "none",
         Variable(driver, c) = "NullFloat64" => cell # NaN,
         attribute.value = Converted(Variable(driver, c), Delivered(c, cell))
  PROVE  Shows(attribute, c, cell)
<1> DEFINE variable == Variable(driver, c)
<1>0. /\ TimeNames = {"DATE", "DATETIME", "TIMESTAMPTZ", "TIMESTAMP"}
      /\ TimeTypes[driver] \subseteq TimeNames
      /\ TextTypes[driver] \subseteq {"DECIMAL", "MONEY", "SMALLMONEY", "VARCHAR", "TIME",
                                     "JSON", "790"}
  BY DEF TimeNames, TimeTypes, TextTypes, Drivers
<1>1. CASE cell = Nil
  BY <1>1 DEF Shows, Converted, Delivered
<1>2. CASE cell # Nil /\ c.db \in TimeNames
  <2>1. c.db # "UNIQUEIDENTIFIER" /\ variable = "NullTime"
    <3>1. c.scan \in {"time", "NullTime"}
      BY <1>2 DEF Described
    <3>2. c.db \notin TextTypes[driver] /\ c.db \notin {"UNIQUEIDENTIFIER", "YEAR"}
      BY <1>0, <1>2
    <3>3. ByDatabaseType(driver, c) \in {"NullTime", "none"}
      BY <3>2 DEF ByDatabaseType
    <3>4. ByScanType(c) \in {"NullTime", "none"}
      BY <3>1 DEF ByScanType, Nullable,
         SignedInts, UnsignedInts
    <3>5. variable = "NullTime"
      BY <3>3, <3>4 DEF Variable
    <3>6. QED
      BY <3>2, <3>5
  <2>2. cell \in Nat \X Nat
    BY <1>0, <1>2 DEF IsCell
  <2>3. Delivered(c, cell) = cell
    BY <2>1 DEF Delivered
  <2>4. attribute.value = cell[1]
    BY <1>2, <2>1, <2>3 DEF Converted
  <2>5. cell[1] \in Nat
    BY <2>2
  <2>6. attribute.value # Nil
    BY <2>4, <2>5
  <2>7. QED
    BY <1>0, <1>2, <2>4, <2>6 DEF Shows
<1>3. CASE cell # Nil /\ c.db = "UNIQUEIDENTIFIER"
  <2>1. variable = "UniqueIdentifier" /\ c.db \notin TimeNames
    BY <1>0, <1>3 DEF Described, Variable, ByDatabaseType, ByScanType, Nullable,
         SignedInts, UnsignedInts
  <2>2. cell \in Guids
    BY <1>3, <2>1 DEF IsCell
  <2>3. Delivered(c, cell) = MixedEndian(cell) /\ Unswapped(MixedEndian(cell)) = cell
    BY <1>3, <2>2, ByteOrder DEF Delivered
  <2>4. MixedEndian(cell) # Nil
    BY <2>2, ByteOrder
  <2>5. attribute.value = cell
    BY <2>1, <2>3, <2>4 DEF Converted
  <2>6. QED
    BY <1>3, <2>1, <2>5 DEF Shows
<1>4. CASE cell # Nil /\ c.db \notin TimeNames /\ c.db # "UNIQUEIDENTIFIER"
  <2>1. \/ c.scan \in Floats /\ cell = NaN
        \/ /\ cell \in Nat /\ cell # NaN
           /\ c.scan \in Floats /\ c.db # "NUMERIC" => Nearest(cell) = cell
    BY <1>4 DEF IsCell, Nearest
  <2>2. Delivered(c, cell) = cell
    BY <1>4 DEF Delivered
  <2>3. variable \notin {"UniqueIdentifier", "NullTime"}
    BY <1>0, <1>4 DEF Described, Variable, ByDatabaseType, ByScanType, Nullable,
         SignedInts, UnsignedInts
  <2>4. cell \in Nat => AsNear(Nearest(cell), cell) /\ Nearest(cell) \in Nat
    BY NearestIsNear DEF AsNear
  <2>5. variable = "NullFloat64" => c.scan \in Floats
    BY DEF Variable, ByDatabaseType, ByScanType, Nullable, Floats, SignedInts, UnsignedInts
  <2>6. attribute.value = IF variable = "NullFloat64" THEN Nearest(cell) ELSE cell
    BY <1>4, <2>2, <2>3 DEF Converted
  <2>7. attribute.value # Nil
    BY <1>4, <2>1, <2>4, <2>6
  <2>8. CASE c.db = "NUMERIC"
    <3>1. ByDatabaseType(driver, c) = "none"
      BY <1>0, <2>8 DEF ByDatabaseType
    <3>2. c.scan \in Floats
      BY <2>8 DEF Described
    <3>3. ByScanType(c) = "NullFloat64"
      BY <3>2 DEF ByScanType, Floats, Nullable, SignedInts, UnsignedInts
    <3>4. variable = "NullFloat64"
      BY <3>1, <3>3 DEF Variable
    <3>5. attribute.value = Nearest(cell) /\ cell \in Nat
      BY <2>1, <2>6, <3>4
    <3>6. QED
      BY <1>4, <2>4, <2>7, <2>8, <3>5 DEF Shows
  <2>9. CASE c.db # "NUMERIC"
    <3>1. attribute.value = cell
      BY <2>1, <2>5, <2>6, <2>9
    <3>2. QED
      BY <1>4, <2>7, <2>9, <3>1 DEF Shows
  <2>10. QED
    BY <2>8, <2>9
<1>5. QED
  BY <1>1, <1>2, <1>3, <1>4

(* What a read with rows to convert knows of its query. *)
LEMMA QueryKnown ==
  ASSUME DataInv, NEW k \in Reader, NEW r \in DOMAIN read[k].query.rows
  PROVE  LET rd == read[k] IN
         /\ rd.driver \in Drivers /\ DOMAIN rd.query.columns \subseteq Nat
         /\ \A i \in DOMAIN rd.query.columns :
               /\ Described(rd.driver, rd.query.columns[i])
               /\ IsCell(rd.query.columns[i], rd.query.rows[r][i])
<1> DEFINE rd == read[k]
<1>1. rd.query \in Query /\ rd.driver = DriverOf(SchemeOf[rd.query.url])
  BY DEF DataInv, ReadInOrder
<1>2. rd.driver \in Drivers /\ rd.query.columns \in Seq(Range(rd.query.columns))
  BY <1>1, DataSourcesAssumption
<1>3. DOMAIN rd.query.columns \subseteq Nat
  BY <1>2, LenProperties
<1>4. QED
  BY <1>1, <1>2, <1>3, TableAssumption

(* The rows of an answer show the table: every column under its name, with    *)
(* NULL, times, numerics and identifiers as the database holds them.          *)
THEOREM RowsShowTable == DataSpec => []RowsAsStored
<1>1. ASSUME DataInv, NEW k \in Reader, NEW r \in DOMAIN read[k].rows,
             NEW i \in DOMAIN read[k].query.columns,
             read[k].query.columns[i].name # Unnamed,
             \A j \in DOMAIN read[k].query.columns :
                j > i => NameOf(read[k].query.columns, j) # read[k].query.columns[i].name
      PROVE  /\ read[k].query.columns[i].name \in DOMAIN read[k].rows[r]
             /\ Shows(read[k].rows[r][read[k].query.columns[i].name],
                      read[k].query.columns[i], read[k].query.rows[r][i])
  <2> DEFINE rd == read[k]
             columns == rd.query.columns
             cells == rd.query.rows[r]
             name == columns[i].name
             attribute == rd.rows[r][name]
  <2>1. /\ RowConverts(rd.driver, columns, cells) /\ ~RowPanics(rd.driver, columns, cells)
        /\ rd.rows[r] = ValuesForRow(rd.driver, columns, cells)
    BY <1>1 DEF DataInv, ReadInOrder, RowDone
  <2>2. r \in DOMAIN rd.query.rows
    <3>1. rd \in ReadType /\ Len(rd.rows) <= Len(rd.query.rows)
      BY <1>1 DEF DataInv, DataTypeOK, ReadInOrder
    <3>2. /\ DOMAIN rd.query.rows = 1..Len(rd.query.rows) /\ Len(rd.query.rows) \in Nat
          /\ DOMAIN rd.rows = 1..Len(rd.rows) /\ Len(rd.rows) \in Nat
      BY <3>1, QueryRows, LenProperties DEF ReadType
    <3>3. QED
      BY <3>1, <3>2
  <2>3. /\ rd.driver \in Drivers /\ DOMAIN columns \subseteq Nat
        /\ Described(rd.driver, columns[i]) /\ IsCell(columns[i], cells[i])
    BY <1>1, <2>2, QueryKnown
  <2>4. NameOf(columns, i) = name
    BY <1>1 DEF NameOf
  <2>5. ColumnFor(columns, name) = i
    BY <1>1, <2>3, <2>4, ColumnIs
  <2>6. name \in AttributeNames(columns)
    BY <2>4 DEF AttributeNames
  <2>7. /\ Variable(rd.driver, columns[i]) # "none"
        /\ Variable(rd.driver, columns[i]) = "NullFloat64" => cells[i] # NaN
    BY <2>1, <2>5, <2>6 DEF RowConverts, RowPanics
  <2> HIDE DEF rd, columns, cells, name
  <2>8. /\ name \in DOMAIN rd.rows[r]
        /\ attribute.value =
              Converted(Variable(rd.driver, columns[i]), Delivered(columns[i], cells[i]))
    BY <2>1, <2>5, <2>6 DEF ValuesForRow
  <2> HIDE DEF attribute
  <2>9. Shows(attribute, columns[i], cells[i])
    BY <2>3, <2>7, <2>8, TableAssumption, CellShows
  <2>10. QED
    BY <2>8, <2>9 DEF rd, columns, cells, name, attribute
<1>2. DataInv => RowsAsStored
  BY <1>1 DEF RowsAsStored
<1>3. QED
  BY <1>2, DataInvariant, PTL

---------------------------------------------------------------------------
(* Every type the tests read has a variable, as the drivers describe it.      *)
LEMMA TestedVariable ==
  ASSUME NEW driver \in Drivers, NEW c, Described(driver, c), c.db \in Tested[driver]
  PROVE  Variable(driver, c) # "none"
<1>0. TimeNames = {"DATE", "DATETIME", "TIMESTAMPTZ", "TIMESTAMP"}
  BY DEF TimeNames, TimeTypes, Drivers
<1>1. CASE driver = "pgx"
  <2>1. /\ c.db \in {"INT8", "BIT", "BOOL", "TEXT", "NUMERIC", "790",
                      "TIMESTAMPTZ", "TIMESTAMP", "DATE"}
        /\ TextTypes[driver] = {"MONEY", "790"}
        /\ TimeTypes[driver] = {"TIMESTAMPTZ", "TIMESTAMP", "DATE"}
    BY <1>1 DEF Tested, TextTypes, TimeTypes
  <2>2. c.db \in {"790", "TIMESTAMPTZ", "TIMESTAMP", "DATE"} => ByDatabaseType(driver, c) # "none"
    BY <1>1, <2>1 DEF ByDatabaseType
  <2>3. c.db \in {"INT8", "BIT", "BOOL", "TEXT", "NUMERIC"} => ByScanType(c) # "none"
    BY <1>1 DEF Described, ByScanType, Nullable, Floats, SignedInts, UnsignedInts
  <2>4. QED
    BY <2>1, <2>2, <2>3 DEF Variable
<1>2. CASE driver = "mysql"
  <2>1. /\ c.db \in {"BIGINT", "VARCHAR", "DECIMAL", "DATE", "DATETIME", "TIME", "YEAR", "DOUBLE"}
        /\ TextTypes[driver] = {"VARCHAR", "DECIMAL", "TIME", "JSON"}
        /\ TimeTypes[driver] = {"DATE", "DATETIME"}
    BY <1>2 DEF Tested, TextTypes, TimeTypes
  <2>2. c.db \in {"VARCHAR", "DECIMAL", "DATE", "DATETIME", "TIME", "YEAR"}
        => ByDatabaseType(driver, c) # "none"
    BY <1>2, <2>1 DEF ByDatabaseType
  <2>3. c.db \in {"BIGINT", "DOUBLE"} => ByScanType(c) # "none"
    BY <1>2 DEF Described, ByScanType, Nullable, Floats, SignedInts, UnsignedInts
  <2>4. QED
    BY <2>1, <2>2, <2>3 DEF Variable
<1>3. CASE driver = "sqlserver"
  <2>1. /\ c.db \in {"INT", "BIT", "DECIMAL", "MONEY", "REAL", "NVARCHAR", "UNIQUEIDENTIFIER"}
        /\ TextTypes[driver] = {"DECIMAL", "MONEY", "SMALLMONEY"} /\ TimeTypes[driver] = {}
    BY <1>3 DEF Tested, TextTypes, TimeTypes
  <2>2. c.db \in {"DECIMAL", "MONEY", "UNIQUEIDENTIFIER"} => ByDatabaseType(driver, c) # "none"
    BY <1>3, <2>1 DEF ByDatabaseType
  <2>3. c.db \in {"INT", "BIT", "REAL", "NVARCHAR"} => ByScanType(c) # "none"
    BY <1>3 DEF Described, ByScanType, Nullable, Floats, SignedInts, UnsignedInts
  <2>4. QED
    BY <2>1, <2>2, <2>3 DEF Variable
<1>4. CASE driver = "azuresql"
  BY <1>4 DEF Tested
<1>5. QED
  BY <1>1, <1>2, <1>3, <1>4 DEF Drivers

(* A variable refuses a cell only for one of these reasons.                   *)
LEMMA Refused ==
  ASSUME NEW driver \in Drivers, NEW c, NEW cell, Variable(driver, c) # "none",
         ~Scans(Variable(driver, c), c, cell), Described(driver, c), IsCell(c, cell)
  PROVE  \/ cell = Nil /\ c.db = "UNIQUEIDENTIFIER"
         \/ cell # Nil /\ c.text
         \/ cell # Nil /\ c.scan \in Wide /\ cell > MaxInt
<1> DEFINE variable == Variable(driver, c)
<1>1. CASE cell = Nil
  <2>1. variable \notin Nullable
    BY <1>1 DEF Scans
  <2>2. ByScanType(c) \in Nullable \cup {"none"}
    BY DEF ByScanType, Nullable
  <2>3. ByDatabaseType(driver, c) \in Nullable \cup {"none"} \/ c.db = "UNIQUEIDENTIFIER"
    BY DEF ByDatabaseType, Nullable
  <2>4. QED
    BY <1>1, <2>1, <2>2, <2>3 DEF Variable
<1>2. CASE cell # Nil /\ variable = "NullTime"
  BY <1>2 DEF Scans
<1>3. CASE cell # Nil /\ variable = "NullInt32"
  <2>1. ByDatabaseType(driver, c) \in {"UniqueIdentifier", "NullInt32", "NullString", "NullTime", "none"}
    BY DEF ByDatabaseType
  <2>2. c.db = "YEAR" \/ c.scan = "NullInt32"
    BY <1>3, <2>1 DEF Variable, ByDatabaseType, ByScanType
  <2>3. cell <= MaxInt32
    <3>1. c.db \notin TimeNames /\ c.db # "UNIQUEIDENTIFIER"
      BY <2>2 DEF Described, TimeNames, TimeTypes, Drivers
    <3>2. CASE c.scan = "NullInt32"
      BY <1>3, <3>1, <3>2 DEF IsCell, Floats
    <3>3. CASE c.db = "YEAR"
      BY <1>3, <3>1, <3>3 DEF IsCell, Described, Floats
    <3>4. QED
      BY <2>2, <3>2, <3>3
  <2>4. QED
    BY <1>3, <2>3 DEF Scans
<1>4. CASE cell # Nil /\ variable = "NullInt64"
  <2>1. ByDatabaseType(driver, c) \in {"UniqueIdentifier", "NullInt32", "NullString", "NullTime", "none"}
    BY DEF ByDatabaseType
  <2>2. ByScanType(c) = "NullInt64"
    BY <1>4, <2>1 DEF Variable
  <2>3. c.scan \in SignedInts \cup UnsignedInts \cup {"NullInt64"}
    BY <2>2 DEF ByScanType, Nullable
  <2>4. c.db \notin TimeNames /\ c.db # "UNIQUEIDENTIFIER" /\ c.scan \notin Floats
    BY <2>3 DEF Described, SignedInts, UnsignedInts, Floats
  <2>5. cell \in Nat /\ (c.scan \notin Wide => cell <= MaxInt)
    BY <1>4, <2>3, <2>4 DEF IsCell, Wide
  <2>6. ~(cell <= MaxInt)
    BY <1>4 DEF Scans
  <2>7. QED
    BY <1>4, <2>5, <2>6, ColumnsAssumption
<1>5. QED
  BY <1>1, <1>2, <1>3, <1>4 DEF Scans

(* A query over tested types fails in the middle of its rows only for a value *)
(* the tests leave out.                                                       *)
THEOREM TestedTypes == DataSpec => []TestedTypesConvert
<1>1. ASSUME DataInv, NEW k \in Reader, read[k].answer = "diag"
      PROVE  \E i \in DOMAIN read[k].query.columns :
               LET c == read[k].query.columns[i]
                   cell == NextCells(k)[i]
               IN  \/ c.db \notin Tested[read[k].driver]
                   \/ cell = Nil /\ c.db = "UNIQUEIDENTIFIER"
                   \/ cell # Nil /\ c.text
                   \/ cell # Nil /\ c.scan \in Wide /\ cell > MaxInt
  <2> DEFINE rd == read[k]
             columns == rd.query.columns
             cells == rd.query.rows[Len(rd.rows) + 1]
  <2>1. Len(rd.rows) < Len(rd.query.rows) /\ ~RowConverts(rd.driver, columns, cells)
    BY <1>1 DEF DataInv, ReadInOrder
  <2>2. Len(rd.rows) + 1 \in DOMAIN rd.query.rows
    <3>1. rd \in ReadType
      BY <1>1 DEF DataInv, DataTypeOK
    <3>2. /\ DOMAIN rd.query.rows = 1..Len(rd.query.rows) /\ Len(rd.query.rows) \in Nat
          /\ Len(rd.rows) \in Nat
      BY <3>1, QueryRows, LenProperties DEF ReadType
    <3>3. QED
      BY <2>1, <3>2
  <2>3. PICK i \in DOMAIN columns :
          \/ Variable(rd.driver, columns[i]) = "none"
          \/ ~Scans(Variable(rd.driver, columns[i]), columns[i], cells[i])
    BY <2>1 DEF RowConverts
  <2>4. /\ rd.driver \in Drivers /\ Described(rd.driver, columns[i])
        /\ IsCell(columns[i], cells[i])
    BY <1>1, <2>2, <2>3, QueryKnown
  <2>5. NextCells(k) = cells
    BY DEF NextCells
  <2> HIDE DEF rd, columns, cells
  <2>6. CASE Variable(rd.driver, columns[i]) = "none"
    <3>1. columns[i].db \notin Tested[rd.driver]
      BY <2>4, <2>6, TestedVariable
    <3>2. QED
      BY <2>5, <3>1 DEF rd, columns
  <2>7. CASE Variable(rd.driver, columns[i]) # "none"
    <3>1. \/ cells[i] = Nil /\ columns[i].db = "UNIQUEIDENTIFIER"
          \/ cells[i] # Nil /\ columns[i].text
          \/ cells[i] # Nil /\ columns[i].scan \in Wide /\ cells[i] > MaxInt
      BY <2>3, <2>4, <2>7, Refused
    <3>2. QED
      BY <2>3, <2>5, <3>1 DEF rd, columns
  <2>8. QED
    BY <2>6, <2>7
<1>2. DataInv => TestedTypesConvert
  BY <1>1 DEF TestedTypesConvert
<1>3. QED
  BY <1>2, DataInvariant, PTL
=============================================================================
