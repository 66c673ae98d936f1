# Verification of terraform-provider-sql

TLA+ models of the Terraform provider `ialexj/sql`, model-checked with TLC, with
theorems proved with TLAPS. Paths below are relative to the repository root
(`src/` in `PROJECT.json`).

## 1. The system

The provider is a plugin process that Terraform starts for every command
(`main.go`), configures once (`ConfigureProvider`) and then calls through gRPC.
`internal/server/server.go` turns the protocol's calls into calls of a provider,
of two resources and of two data sources.

| Component | State it keeps | Operations |
|---|---|---|
| migration runner, `internal/migration/migration.go` | none | `Subtract`, `Up`, `Down`, `runMigrations` |
| directory reader, `internal/migration/dir.go` | none | `ReadDir`, `cleanSQL` |
| provider, `internal/provider/provider.go` | `Url`, `MaxOpenConns`, `MaxIdleConns` | `Configure` |
| connections, `internal/provider/db.go` | a `sql.DB` for every call | `GetDataSource`, `GetQueryer`, `GetExecer`, `connect`, `parseUrl` |
| resource life cycle, `resource_migrate_common.go`, `server.go` | Terraform's state: `url`, `complete_migrations` | Plan, Create, Update, Destroy, Read |
| `sql_migrate`, `resource_migrate.go` | the `migration` blocks | `Validate`, `plan` |
| `sql_migrate_directory`, `resource_migrate_directory.go` | a directory of files | `plan` |
| `sql_query`, `data_query.go`, `db.go`, `sqlserver.go` | none | `Read`, `ValuesForRow` |
| `sql_driver`, `data_driver.go` | none | `Read` |
| process, `main.go` | goroutines, channels, `err` | start, stop |

How they interact. Terraform plans (`PlanResourceChange`) from the configuration
and its recorded state; it plans again when it applies, compares, and calls
`ApplyResourceChange`, which opens a database connection and executes migration
statements one after the other. Only when the call returns without an error does
Terraform record the new state. `complete_migrations`, the list of migrations
that have run, is thus a record kept in one place about effects in another, and
nothing makes the two change together. The provider never looks into the
database for what has run (`Read` returns the state unchanged).

What is hard about it:

* *Failure between two statements.* A statement can be refused, its answer can
  be lost, the process can be stopped (and `StopProvider` panics). Some
  statements of the call have then taken effect and nothing of it is recorded.
* *Errors that are not returned.* `Up` returns nil for a failed down statement.
* *Which database.* Four URLs take part: the configured one, the recorded one, the
  provider's and `SQL_URL`. Create and Update use the configured one, Destroy the
  recorded one, each falling back to the provider's.
* *Identity.* Migrations are compared by id alone, never by text.
* *Time between plan and apply.* Blocks may be unknown when planned; a directory is read
  again, and may have changed, also while it is read.
* *Connections.* Every call opens a `sql.DB`; none is ever closed.
* *Partial configuration.* `Configure` assigns fields before it fails on later ones.
* *One process for all calls.* A panic in one of them (`StopProvider`, a float that is no
  number) ends the others too.

What makes each component correct: the record is true of the database
(`RecordedHasRun`) and complete (`NothingUnrecorded`); a run touches exactly the
difference (`OnlyDifference`), in order (`UpsInOrder`, `DownsInReverse`), and no
clean history makes the database refuse a statement (`NoStatementRefused`); all of
this as one abstract promise (`ImplementsLedger`); what `Validate`
rejects never runs (`OnlyValidRuns`); a reading takes every listed file as its name says
(`ReadsListing`, `OneMigrationPerId`); a destroy needs no files (`DestroyedWithoutFiles`);
calls end (`CallsReturn`) and retrying converges (`Settles`, `FollowsDirectory`); no
call blocks on its own pool (`OneConnection`), works with limits of two configurations
(`OneConfiguration`) or leaves a connection open where the configuration allows none
(`NoIdleNoLeak`); a query's rows arrive whole, in one type and as stored
(`WholeUnlessLost`, `OneRowType`, `RowsAsStored`, `TestedTypesConvert`).

## 2. The modules

Lines are EXTENDS, from top to bottom and along the arrows; `Directory` extends `Migration`
too, `DataSources` both `Connections` and `Columns`; `Ledger` is instantiated (`Book`).

```
Migration   Provider -----------> Connections    Columns
      \      /                          \         /
      Database                          DataSources
          |
 ResourceMigrateCommon  . . INSTANCE . .  Ledger
     /              \
ResourceMigrate   ResourceMigrateDirectory <-- Directory --> ReadDir
```

```
ResourceMigrateCommon -> ResourceMigrateTypes -> ResourceMigrateCommonProofs
   -> ResourceMigrateLedgerProofs -> ResourceMigrateProofs (with ResourceMigrate)
                                  -> ResourceMigrateDirectoryProofs (with ResourceMigrateDirectory)
Connections -> ConnectionsProofs -> DataSourcesProofs (with DataSources)
ReadDir -> ReadDirProofs
```

| Module | Models |
|---|---|
| `Migration` | `migration.go`: the difference of two lists by id and the order of a walk through it |
| `Provider` | `provider.go` `Configure`; `db.go` `GetDataSource` and what `parseUrl` accepts |
| `Database` | external: a database executing statements for `execMigration`, objects that refer to each other, and the faults of the environment |
| `ResourceMigrateCommon` | `server.go` Plan/Apply/Stop handlers, `resource_migrate_common.go`, `migration.Up` and `Down` statement by statement, Terraform core around them; the properties both resource types share |
| `Ledger` | the abstract specification of a migration resource: a record, what is in effect, one open change, doubts |
| `ResourceMigrate` | `resource_migrate.go`, the specification of `sql_migrate`, and its properties |
| `Directory` | `dir.go` as operators: the files taken, `cleanSQL`, what one file adds, and `ReadDirectory`, the loop over a directory nobody writes |
| `ReadDir` | the loop of `ReadDir` in a directory that others write, against a definition of its result without a loop |
| `ResourceMigrateDirectory` | `resource_migrate_directory.go`, the specification of `sql_migrate_directory`, and its properties |
| `Connections` | `connect` and the connections of concurrent calls, and its properties |
| `Columns` | `db.go` `typeAndValueForColType` and `ValuesForRow`, `sqlserver.go` `Scan`: from a column and a cell to an attribute |
| `DataSources` | `data_query.go` and `data_driver.go` `Read` as calls of `Connections`, row by row, beside applies |
| `MC...` | instances for TLC |
| `ResourceMigrateTypes`, `...CommonProofs`, `...LedgerProofs` | `CommonSpec`, which both resource types imply, and what is proved of it |
| `ResourceMigrateProofs`, `ResourceMigrateDirectoryProofs` | theorems about the two resource types |
| `ConnectionsProofs`, `DataSourcesProofs` | theorems about connections and data sources |
| `ReadDirProofs` | theorems about the reader of directories |

Definitions named `...Never`, `...All`, `...Silently` and the like, marked
"Broken variant", stand in front of the definition they vary. They are
plausible bugs with which each property is shown to fail; no specification uses them.

### State and code

| Variable | In the program |
|---|---|
| `provider` | the fields of `provider`, and whether `Configure` returned without an error |
| `conf`, `blocks` | the resource block Terraform sends as `Config`; `conf.url` is `NoUrl` when the attribute is null |
| `state` | `PriorState`: Terraform's record, `Absent` when null |
| `plan` | the planned change Terraform holds between plan and apply; `agreed` once the apply command's own `PlanResourceChange` confirmed it, which is when `ApplyResourceChange` is called next |
| `run` | the `ApplyResourceChange` call being served: positions of `removedMigrations` (`downs`) and `newMigrations` (`ups`) not executed yet |
| `schema` | the objects that exist in each database |
| `faults` | number of faults so far, at most `MaxFaults` |
| `home`, `trouble` | history only: where the last run executed, and the departures met |
| `files`, `directory` | what the directory holds, a function from file names to lines; `NoDirectory` when there is none |
| `source` | `single_file_split` set or not, and whether `path` and it are known |
| `call` (`ReadDir`), `edits`, `seen` | the call's files left, as positions in `Sorted`, and migrations so far; the number of edits; history: what the name at each listed position stood for |
| `call`, `pool` (`Connections`) | a call's progress through `connect` and its statements; the `sql.DB` it opened |
| `read` (`DataSources`) | the url, query, driver and rows of a `Read`, and its answer; `lost` is history: the rows ended because the connection did |

### Abstractions

* A migration is an id and a revision of its text. Its up creates the object named
  by the pair, its down drops it. With `Strict` the database refuses an up whose
  object exists and a down whose object does not (plain `CREATE TABLE`); without,
  statements can be repeated (`IF NOT EXISTS`). An empty statement (`NoUp`, `NoDown`)
  is executed and does nothing. `Needs` says which migration refers to which: with `Strict` an up whose need is missing
  and a down that something in place still needs are refused too. Other refusals may
  happen at any statement (a fault).
* A file is a name taken apart into stem, mid and ext, and a sequence of lines, told
  apart only as comment, separator, line too long for the scanner, and others. The
  constant `Sorted` lists the names in the order of `ioutil.ReadDir`. Blank lines at
  the ends, which `TrimSpace` removes, do not occur. In `ResourceMigrateDirectory` a
  reading is one step, `ReadDir` shows what a reading is when it is not. Files are written at any
  other moment, between the two plans and the call that applies them included; `path` and
  `single_file_split` are not part of the compared state, so that a change of either
  that leaves the migrations alone is no plan (in the program it is one that runs nothing).
* A URL is a model value that either parses (`Url`) or not (`BadUrl`).
* Terraform core is modelled from the protocol the server implements: it starts and
  configures a process before it calls it, keeps the prior state when a call answers
  an error, plans again at apply time (`Replan`) and gives up when the plans differ
  (`ReplanRejected`), proposes the recorded `url` for an optional and computed attribute left
  out of the configuration, and calls nothing when plan and state are equal. The second plan
  and the apply are two steps of one command: nothing is configured between them, files may
  change, and a provider that stops ends the command. What is applied is what the second plan
  read; `ApplyResourceChange` does not read the directory.
* A `sql.DB` is a count of busy and of idle connections. `Release` is the ping answered,
  a statement executed or rows closed; `Fails` ends the call with an error, and the
  connection goes back or is dropped. `ProcessDies` stands for every panic: all connections
  are gone, all calls have ended, the next process is not configured.
* A column is its name, the database's name of its type, the type the driver says it
  delivers, and whether a time arrives as text. A cell is `Nil`, a natural number (a text is one
  too), `NaN`, a time as second and fraction, or the 16 bytes of a uniqueidentifier. `MaxInt`
  and `MaxInt32` stand for the limits of an int64 and an int32. A float64 holds every number up
  to `MaxExact` and every second one up to its double, as the real one does around 2^53; numbers
  between are rounded, half to even. Numerics beyond the double, fractions and signs are left
  out. What the drivers deliver for each type is the drivers' (external). The text form of a
  uniqueidentifier and the attribute `datasource` are left out.
* One resource. Reading it back (`Read`, `UpgradeResourceState`) returns what it is
  given and is no step.

## 3. The runs

| Run | Instance | Shows |
|---|---|---|
| `lists` | one URL, 7 lists over 2 ids and 2 texts with a repeated, an edited, a reordered, an empty and a blank one, one migration referring to the other, known or unknown; strict SQL; one fault of four kinds | record and database agree, order and extent of the statements, no refused statement, validity; every step is one of the ledger |
| `urls` | two URLs in resource, provider and `SQL_URL`; two lists; repeatable SQL; two faults; an operator who retries | the record and the ledger with a URL that moves; the configuration is reached |
| `read_dir` | 6 file names (one id's files apart, a direction twice, a name without direction, another ext), 2 texts or a subdirectory under each, in all combinations, both modes, one write or deletion at any moment | the result of `ReadDir` |
| `directory` | 4 directories or none (pairs, a missing down, one file with both directions), both modes, path known or not, one URL, repeatable SQL, one fault, an operator who retries | the shared promises and the ledger with a directory that changes; destroying needs no files; the directory is followed |
| `connections` | an apply of up to two statements beside a data source read; four URLs, one for each driver; 12 queries with NULLs, numbers at and beyond each limit, a NaN that is kept and one that is not, both byte orders, repeated and missing names, types no rule knows; a process that may die at any moment; 7 configurations (one for every way `Configure` can end, and limits 0, 1, 2, 3) | pool limits, whole configurations, termination; rows whole, of one type and as stored |
| `failed_down`, `moved_url`, `single_migration`, `duplicate_id`, `max_open`, `long_line`, `short_result` | smallest instances that show it | the findings below |

Deadlock is not checked: an operator who does nothing more, or a process whose calls
are all served, is no error.

The bounds. Two ids and lists of at most two migrations give every relation between a
recorded and a planned list that `Subtract` distinguishes: kept, removed, added,
reordered, edited, repeated. A second fault adds nothing to the safety runs that the
sticky history of the first does not already excuse, so that one is enough there;
`urls` takes two, so that a retry can fail again. One edit is enough for
`ReadDir`: a file is read once, so that two edits of it show no more than the later one.
In `connections` one reader and one apply interleave in every way; calls share nothing
but the provider, so that a third shows no more (and the theorems hold for every number);
two rows suffice for a row that fails after one that converts. Behaviours are unbounded
otherwise: any number of edits, plans, applies and configurations. What is checked and
proved both ways (section 4) does not depend on the bounds.

Fairness. Both retry specifications have weak fairness of `RunStep`: the handler is
sequential Go code that goes on unless the process is stopped. `RetrySpec` and
`DirectoryRetrySpec` add an operator who starts a
dead provider again, plans and applies: an assumption about its use, not about the
code, and the only one under which convergence can be asked for. `FairData` has
weak fairness of each call's own progress (`Acquire`, `Release`, `ReadProceeds`): a
goroutine that is not waiting goes on. It assumes of no failure that it happens, so that
`CallsReturn` does not hold by a call that is rescued by an error.

### The ledger

`Ledger` knows no lists, texts, URLs or plans. It has a record, what is in
effect, one open change and two doubts (`missing`, `extra`). Where a doubt is not raised,
the record and the effects agree whenever a change is committed or abandoned (`Agreement`),
during it effects change only by entries off the record or on it, and an abandoned change
raises a doubt only where the two really differ. `ResourceMigrateCommon!Book` maps
the state at `home` to the record, all objects of all databases to what is in effect,
a run to a change, and the departures to doubts. `ImplementsLedger` thus says in one
formula that planning, failing and dying never touch the record or the database, that
every statement is one of the difference, and that no departure is noted for nothing.

### What the departures are for

`RecordedHasRun` and `NothingUnrecorded` are stated up to departures, each noted in
`trouble` at the step where it happens:

| Departure | Step |
|---|---|
| `edited` | a planned migration's id is recorded with another text: it is kept, never executed |
| `moved` | an update or destroy executes in another database than the run before |
| `swallowed` | `Up` returned nil for a failed down statement |
| `torn` | a run ended without being recorded after a recorded object was gone |
| `leaked` | a run ended without being recorded after a planned object had appeared |
| `one-sided` | a run removes or adds a migration of which one statement is empty: its object stays, or was never there |

The properties say that these six are the only ways in which record and
database part. `torn` and `leaked` are the known issue of `README.md:68`.

### Findings

1. `failed_down` (`migration.go:41`): a failed down statement ends an update as a success;
   the new migrations are recorded and have not run.
2. `moved_url` (`resource_migrate_common.go:60`): after a change of `url` the kept
   migrations are recorded for a database they never ran against.
3. `single_migration` (`README.md:68`): one migration on each resource does not avoid
   unrecorded success: replacing it undoes the old one before the new one fails.
4. `duplicate_id` (`resource_migrate.go:123`): the duplicate check reads a map that is never
   filled.
5. `long_line` (`dir.go:107`): a line longer than 64 kB silently cuts off the rest of a migration.
6. `max_open` (`db.go:74`): the connection limits apply to each call, not to the process.
7. `short_result` (`data_query.go:118`): `rows.Err` is not asked, so that a connection that
   breaks between two rows makes a shorter `result` instead of an error.

## 4. The proofs

All theorems rest on the named assumptions about the constants, which every run evaluates:
`BlankId`, `NoUp` and `NoDown` are of their kinds, the special URLs are no `Url`s and differ,
limits are numbers, `Lists` are sequences of migrations (`sql_migrate`), the readings of the
directories are lists of migrations and `url` is one of the configurable ones
(`DirectoryAssumption`), every `Url` has a registered driver and a query's columns and
rows are sequences (`DataSourcesAssumption`), the names `ioutil.ReadDir` sorts are a sequence and
`MaxEdits` is a number (`ReadDirAssumption`). `TableAssumption` is about code that is not the
provider's: a driver names the Go type of a column as `Described` says (a time for a type of
dates, bytes for a uniqueidentifier, an integer for `INT`, ...), and a table holds under a column
what its type has room for (`IsCell`: a signed 64-bit column no number beyond `MaxInt`, a year
no more than an int32, a floating-point column other than `NUMERIC` only what a float64 holds).
`typeAndValueForColType` relies on the same: it picks a variable by these names before it sees a
value. Where the drivers differ, so does the assumption: a `BIT` is a bool for SQL Server, a
text for pgx, and anything for MySQL. NULLs, unsigned and nullable 64-bit numbers beyond
`MaxInt`, numerics with too many digits, NaN, times as text, columns of types it has no rule
for, repeated and missing names are all left open.

**Migration resources.** The two resource types differ in the list of migrations they hand
to the shared life cycle and in what they call valid. `CommonSpec` (`ResourceMigrateTypes`)
leaves both open: any list, any verdict at any step. Everything the types share is proved
of `CommonSpec` once; `ResourceMigrateProofs` and `ResourceMigrateDirectoryProofs` show that
their specifications imply it, step by step, and inherit its theorems.

| Theorem | Property | Rests on |
|---|---|---|
| `TypeCorrect` | `TypeOK` | inductive because it also says that what is left to execute are positions of the difference |
| `DifferenceOnly`, `DirectoryDifferenceOnly` | `OnlyDifference` | the types: a removed position's id differs from every planned one's |
| `UpsOrdered`, `DownsOrdered`, `DirectoryUpsOrdered`, `DirectoryDownsOrdered` | `UpsInOrder`, `DownsInReverse` | `ProgressInv` |
| `RecordsAreTrue`, `DirectoryRecordsAreTrue` | `RecordedHasRun` | `ProgressInv`, `RecordInv` |
| `NoLeftovers`, `DirectoryNoLeftovers` | `NothingUnrecorded` | `CleanInv` |
| `NeverRefused`, `DirectoryNeverRefused` | `NoStatementRefused` | all of these and `PendingInv` |
| `LedgerKept`, `DirectoryLedgerKept` | `ImplementsLedger` | all of these and `ObjectInv` |
| `LedgerAgrees`, `AgreesBetweenRuns`, `DirectoryAgreesBetweenRuns` | `BetweenChanges`: record and effects agree between two changes | `ImplementsLedger` alone |
| `OnlyValid` | `OnlyValidRuns` | the list of an agreed plan is valid, and neither it nor a run's list changes |

None of the properties is inductive as it stands, because each is silent during a run:

* `ProgressInv`: how far a run has come. It executes at `home`; ups begin only when no down
  is left; what is no longer to do is done (`Done`) or undone (`Gone`).
* `RecordInv`: while a run is under way, what it leaves alone stays in effect (`KeptInEffect`)
  and is planned as it was recorded (`KeptUnedited`).
* `CleanInv`: without departures every object belongs to the record or to an up of the run.
* `PendingInv`: what a clean run of distinct ids still has to remove is there; with repeated
  ids another statement of the same run could have removed it, and `NoStatementRefused`
  excludes them for that reason.
* `ObjectInv`: an object comes from an up that is not empty, so that it can be on the record
  that `Ledger` sees.

**Connections and data sources.** `ConnectionsInv` adds to the properties that an idle
connection is one the limit has room for, that a call goes on only while it has a statement
left, and that the provider a call meets has the fields of one configuration (`OneProvider`):
`ConnectionTypes`, `OneEach` (`OneConnection`), `NoneLeft` (`NoIdleNoLeak`), `Configured`
(`OneConfiguration`). The death of the process keeps it (`DeathKeepsInv`). `DataIsConnections` shows by simulation that every step of a data
source is a step of `Connections` or none of its business, so that the four hold with data
sources too (`DataConnections`). The data sources' own properties rest on `DataInv`. Its part
`ReadInOrder` says of each read that its rows are the first of the query's, converted by the
driver of the query's database, without one that panics (`RowDone`), that it has all of them once it has answered, and
that one with a diagnostic stands before a row that does not convert; none of it is undone,
because a call that has returned converts no further row.

| Theorem | Property | Rests on |
|---|---|---|
| `NoRowSkipped` | `WholeUnlessLost` | `ReadInOrder` |
| `RowsOfOneType` | `OneRowType` | the type of an attribute depends on columns and driver alone |
| `RowsShowTable` | `RowsAsStored` | `RowDone` and, for one cell, `CellShows` |
| `TestedTypes` | `TestedTypesConvert` | the row before which the diagnostic stands; for one cell, `Refused` |

`CellShows` goes through the Go variables a column can get: a uniqueidentifier comes back in the
order it is written because `Unswapped` undoes `MixedEndian` byte for byte (`ByteOrder`); a time
keeps its second; a number is itself, and a `NUMERIC` read as a float64 the nearest of those
(`NearestIsNear`: no other is as near, but for one whose significand is odd). `Refused` says
that a column of a tested type always has a variable (`TestedVariable`), and lists what that
variable cannot take.

**The reader of directories.** `ReadsListing` says what `ReadDir` returns without a loop, and
`ReadsDirectory` that it is what the operator `ReadDirectory` computes, with which
`sql_migrate_directory` is modelled. Both speak about calls that are done only; `ReadInv`
says what is true between two files:

* `InOrder`: what has been read stands in front of what is left, so that the next file is the
  last of those read and its text the one that counts.
* `ReadSoFar`: the migrations are a reading, in the same sense as the result, of the files read
  so far, each with a text it had since the listing.
* `Watched`: what a listed name stands for now is among what it has stood for; writes keep it,
  and a deleted name makes no promise, because its file is not read.
* `LikeLoop`: while there are no edits, the migrations are those of `Loop` at every position
  between the last name read and the next to read. The names in between are passed over by both.

| Theorem | Property | Rests on |
|---|---|---|
| `ReadTypes` | the type invariant `ReadTypeOK` | |
| `ReadingOfListing` | `ReadsListing` | `ReadInv` with nothing left to read |
| `ReadingOfDirectory` | `ReadsDirectory` | `LikeLoop` at the last position |
| `ReadingIdsDistinct` | `OneMigrationPerId` | `ReadSoFar` of a pair reading |

The step is in `ReadingMore`: one more file, behind those read, makes one more reading
(`PairReadingMore`, `SplitReadingMore`). These lemmas, and those on the operators (`PairFileIs`:
the migration a file goes to, `TextOfMore`, `FirstOfMore`), hold for every sequence of names.
That `Loop`, a recursive function, is defined at every position and that a set of positions has a
least and a greatest element need induction. The library's theorems for it take an operator as
parameter and cannot be used; `SetInduction` (a set of numbers with 0 and the successor of each
member is `Nat`) is derived from the well-foundedness of `<` instead.

**Only model-checked.** Every safety invariant and action property of the passing runs is stated by a
theorem; `OnlyValidRuns` is about `sql_migrate` alone. Liveness under
fairness (`Settles`, `DestroyedWithoutFiles`, `FollowsDirectory`, `CallsReturn`) is
out of the prover's reach and rests on the runs. So does that `sql_migrate_directory` reads its
directory in one step: it does when nobody writes meanwhile (`ReadingOfDirectory`).

## 5. Not modelled

* Schema objects and value conversions (`util.go`, `tftypes.go`): data without state.
* What `sql_driver` answers is modelled (`ReadDriver`), because it is one of the calls, but no
  property is stated of it: it is one expression of the two URLs.
* Factories looked up by type name (`arg.go`, `resource.go`, `datasource.go`): nothing changes
  after registration.
* The process (`main.go`): one goroutine that serves, and channels that outside debug mode
  nothing closes until Terraform kills the process. No document promises more, so that there
  is no property to state; the calls that overlap in it are those of `Connections` and `DataSources`.
* Database drivers, Terraform core beyond section 2, the build tools.

What could follow: two resources in one process with `depends_on`; `sql_migrate_directory` with
the reader's steps in place of one step, so that files can be written within a reading too.
