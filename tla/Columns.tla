------------------------------ MODULE Columns ------------------------------
(* What sql_query makes of one row: a Go variable for each column, chosen by *)
(* the driver's name, the database's name of the type and the type the      *)
(* driver says it delivers; the scan into it; and one attribute for each     *)
(* column name.                                                              *)
(*                                                                           *)
(* A column is [name, db, scan, text]; text says that a time arrives as text, *)
(* which MySQL's driver does unless the URL has parseTime=true. A cell of a  *)
(* table is Nil or what the database holds: a natural number for a number or *)
(* a text, <<s, f>> for the second s and its fraction f, the 16 bytes of a   *)
(* uniqueidentifier.                                                         *)
EXTENDS Naturals, Sequences, SequencesExt

CONSTANTS
    Unnamed,    \* "?column?", Postgres' name of a column without a name
    Positional, \* Positional[i], the name made up for an unnamed i-th column
    Nil,        \* NULL in the database, null in Terraform
    NaN,        \* a floating-point cell that is not a number
    MaxInt,     \* the largest number an int64 holds
    MaxInt32,   \* the largest number an int32 holds
    MaxExact    \* a float64 holds every number up to this one, and every
                \* second one up to its double

ASSUME ColumnsAssumption ==
    MaxInt \in Nat /\ MaxInt32 \in 0..MaxInt /\ MaxExact \in Nat

(* parseUrl: the driver registered for the scheme of a URL.                  *)
DriverOf(scheme) ==
    CASE scheme \in {"postgres", "postgresql"} -> "pgx"
      [] scheme \in {"mysql", "sqlserver", "azuresql"} -> scheme
      [] OTHER -> "none"

Drivers == {"pgx", "mysql", "sqlserver", "azuresql"}

---------------------------------------------------------------------------
(* typeAndValueForColType *)
TextTypes ==
    [driver \in Drivers |->
        CASE driver = "sqlserver" -> {"DECIMAL", "MONEY", "SMALLMONEY"}
          [] driver = "mysql" -> {"VARCHAR", "DECIMAL", "TIME", "JSON"}
          [] driver = "pgx" -> {"MONEY", "790"}
          [] OTHER -> {}]

TimeTypes ==
    [driver \in Drivers |->
        CASE driver = "mysql" -> {"DATE", "DATETIME"}
          [] driver = "pgx" -> {"TIMESTAMPTZ", "TIMESTAMP", "DATE"}
          [] OTHER -> {}]

TimeNames == UNION {TimeTypes[driver] : driver \in Drivers}

ByDatabaseType(driver, c) ==
    CASE driver = "sqlserver" /\ c.db = "UNIQUEIDENTIFIER" -> "UniqueIdentifier"
      [] driver = "mysql" /\ c.db = "YEAR" -> "NullInt32"
      [] c.db \in TextTypes[driver] -> "NullString"
      [] c.db \in TimeTypes[driver] -> "NullTime"
      [] OTHER -> "none"

Nullable == {"NullInt64", "NullInt32", "NullFloat64", "NullString", "NullBool", "NullTime"}

SignedInts == {"int64", "int32", "int16", "int8", "int"}
UnsignedInts == {"uint64", "uint32", "uint16", "uint8", "uint"}

(* Broken variant: the unsigned types are forgotten.                          *)
ByScanTypeSigned(c) ==
    CASE c.scan \in Nullable -> c.scan
      [] c.scan = "string" -> "NullString"
      [] c.scan \in SignedInts -> "NullInt64"
      [] c.scan \in {"float32", "float64"} -> "NullFloat64"
      [] c.scan = "bool" -> "NullBool"
      [] OTHER -> "none"

ByScanType(c) ==
    CASE c.scan \in Nullable -> c.scan
      [] c.scan = "string" -> "NullString"
      [] c.scan \in SignedInts \cup UnsignedInts -> "NullInt64"
      [] c.scan \in {"float32", "float64"} -> "NullFloat64"
      [] c.scan = "bool" -> "NullBool"
      [] OTHER -> "none"

(* The Go variable for a column; "none" is the error "unexpected type".      *)
Variable(driver, c) ==
    IF ByDatabaseType(driver, c) # "none" THEN ByDatabaseType(driver, c) ELSE ByScanType(c)

TypeOf(variable) ==
    CASE variable \in {"NullInt64", "NullInt32", "NullFloat64"} -> "Number"
      [] variable = "NullBool" -> "Bool"
      [] OTHER -> "String"

---------------------------------------------------------------------------
(* What the driver hands to Scan for a cell: SQL Server sends the first three *)
(* fields of a uniqueidentifier with the low byte first.                      *)
MixedEndian(guid) ==
    Reverse(SubSeq(guid, 1, 4)) \o Reverse(SubSeq(guid, 5, 6))
        \o Reverse(SubSeq(guid, 7, 8)) \o SubSeq(guid, 9, 16)

Delivered(c, cell) ==
    IF cell # Nil /\ c.db = "UNIQUEIDENTIFIER" THEN MixedEndian(cell) ELSE cell

(* Broken variant: the second and the third field are taken for one.          *)
UnswappedLong(b) ==
    [i \in 1..16 |-> b[IF i <= 4 THEN 5 - i ELSE IF i <= 8 THEN 13 - i ELSE i]]

(* sqlServerUniqueIdentifier.Scan puts the bytes of the three fields back.    *)
Unswapped(b) ==
    [i \in 1..16 |->
        b[CASE i \in 1..4 -> 5 - i [] i \in 5..6 -> 11 - i [] i \in 7..8 -> 15 - i
            [] OTHER -> i]]

(* Scan's own conversions: a number too large for its variable, a time that   *)
(* is still text, and NULL for anything but the nullable types are errors.    *)
Scans(variable, c, cell) ==
    IF cell = Nil THEN variable \in Nullable
    ELSE /\ variable = "NullInt64" => cell <= MaxInt
         /\ variable = "NullInt32" => cell <= MaxInt32
         /\ variable = "NullTime" => ~c.text

(* A float64 has no room for the last digits of a long number, and rounds it  *)
(* to the next it has, of two such to the one with the even significand.      *)
Representable(number) == number <= MaxExact \/ number % 2 = 0

Nearest(number) ==
    CASE Representable(number) -> number
      [] number % 4 = 1 /\ ~Representable(number) -> number - 1
      [] OTHER -> number + 1

(* RFC 3339 in UTC, without the fraction of the second.                       *)
Converted(variable, value) ==
    IF value = Nil THEN Nil
    ELSE CASE variable = "UniqueIdentifier" -> Unswapped(value)
           [] variable = "NullTime" -> value[1]
           [] variable = "NullFloat64" -> Nearest(value)
           [] OTHER -> value

---------------------------------------------------------------------------
(* ValuesForRow: every column is scanned, also one whose name a later column  *)
(* has again; the row keeps one attribute for a name, the last column's.      *)
NameOf(columns, i) ==
    IF columns[i].name = Unnamed THEN Positional[i] ELSE columns[i].name

AttributeNames(columns) == {NameOf(columns, i) : i \in DOMAIN columns}

(* Broken variant: the first column of a name wins.                           *)
ColumnFirst(columns, name) ==
    CHOOSE i \in DOMAIN columns :
        /\ NameOf(columns, i) = name
        /\ \A j \in DOMAIN columns : NameOf(columns, j) = name => i <= j

ColumnFor(columns, name) ==
    CHOOSE i \in DOMAIN columns :
        /\ NameOf(columns, i) = name
        /\ \A j \in DOMAIN columns : NameOf(columns, j) = name => j <= i

RowConverts(driver, columns, cells) ==
    \A i \in DOMAIN columns :
        /\ Variable(driver, columns[i]) # "none"
        /\ Scans(Variable(driver, columns[i]), columns[i], cells[i])

(* NewValue panics on a float that is not a number, of a column that is kept. *)
RowPanics(driver, columns, cells) ==
    /\ RowConverts(driver, columns, cells)
    /\ \E name \in AttributeNames(columns) :
          LET i == ColumnFor(columns, name)
          IN  cells[i] = NaN /\ Variable(driver, columns[i]) = "NullFloat64"

(* Broken variant: a NULL gives its column no type.                           *)
ValuesUntyped(driver, columns, cells) ==
    [name \in AttributeNames(columns) |->
        LET i == ColumnFor(columns, name)
            variable == Variable(driver, columns[i])
        IN  [type |-> IF cells[i] = Nil THEN "Dynamic" ELSE TypeOf(variable),
             value |-> Converted(variable, Delivered(columns[i], cells[i]))]]

ValuesForRow(driver, columns, cells) ==
    [name \in AttributeNames(columns) |->
        LET i == ColumnFor(columns, name)
            variable == Variable(driver, columns[i])
        IN  [type |-> TypeOf(variable),
             value |-> Converted(variable, Delivered(columns[i], cells[i]))]]

---------------------------------------------------------------------------
(* What the drivers say of a column, as far as the rules above go by it: the  *)
(* Go type they deliver for a type of the database.                           *)
Floats == {"float32", "float64", "NullFloat64"}

Described(driver, c) ==
    /\ c.db \in TimeNames => c.scan \in {"time", "NullTime"}
    /\ c.scan = "NullTime" => c.db \in TimeNames
    /\ c.db = "UNIQUEIDENTIFIER" => c.scan = "bytes"
    /\ c.db \in {"NUMERIC", "REAL", "DOUBLE"} => c.scan \in Floats
    /\ c.db \in {"INT8", "INT", "BIGINT"} =>
          c.scan \in {"int32", "int64", "uint32", "uint64", "NullInt64"}
    /\ c.db = "YEAR" => c.scan \in {"int16", "uint16", "NullInt64"}
    /\ c.db = "BOOL" \/ (c.db = "BIT" /\ driver \in {"sqlserver", "azuresql"})
          => c.scan = "bool"
    /\ c.db = "NVARCHAR" \/ (c.db \in {"TEXT", "BIT"} /\ driver = "pgx")
          => c.scan = "string"

Guids == [1..16 -> Nat]

(* The types under which a number beyond int64 can arrive: the unsigned ones  *)
(* of 64 bits, and the one MySQL's driver has for every nullable integer.     *)
Wide == {"uint64", "uint", "NullInt64"}

(* What a table holds under a column: what its type has room for. A float64   *)
(* has room for the numbers of the floating-point types, not for every        *)
(* numeric; numerics are taken as far as it has room for every second one.    *)
IsCell(c, cell) ==
    cell # Nil =>
        CASE c.db \in TimeNames -> cell \in Nat \X Nat
          [] c.db = "UNIQUEIDENTIFIER" -> cell \in Guids
          [] OTHER ->
                \/ c.scan \in Floats /\ cell = NaN
                \/ /\ cell \in Nat
                   /\ c.scan \in (SignedInts \cup UnsignedInts) \ Wide => cell <= MaxInt
                   /\ c.scan = "NullInt32" \/ c.db = "YEAR" => cell <= MaxInt32
                   /\ c.scan \in Floats => cell <= 2 * MaxExact
                   /\ c.scan \in Floats /\ c.db # "NUMERIC" => Representable(cell)
=============================================================================
