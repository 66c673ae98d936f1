-------------------- MODULE ResourceMigrateDirectoryProofs --------------------
(* sql_migrate_directory for every set of files and directories, URLs,        *)
(* provider configurations and faults. Whatever others write into the         *)
(* directory between two steps, the specification implies CommonSpec, and     *)
(* with it all that CommonSpec promises.                                      *)
EXTENDS ResourceMigrateDirectory, ResourceMigrateLedgerProofs

(* The directory and the configuration keep their types. *)
DirectoryInv ==
    /\ files \in Directories \cup {NoDirectory}
    /\ source \in [split : BOOLEAN, known : BOOLEAN]

LEMMA ListType == DirectoryInv => List \in Seq(Migration)
<1> SUFFICES ASSUME DirectoryInv, files # NoDirectory
             PROVE  Readings[files][source.split] \in Seq(Migration)
  BY DEF List
<1>1. files \in Directories /\ source.split \in BOOLEAN
  BY DEF DirectoryInv
<1>2. Readings[files][source.split] = ReadDirectory(files, source.split)
  BY <1>1 DEF Readings
<1>3. QED
  BY <1>1, <1>2, DirectoryAssumption

LEMMA DirectoryInvInit == DirectoryInit => DirectoryInv
  BY DEF DirectoryInit, DirectoryInv

LEMMA DirectoryInvNext == DirectoryInv /\ [DirectoryNext]_directoryVars => DirectoryInv'
<1> SUFFICES ASSUME DirectoryInv, [DirectoryNext]_directoryVars PROVE DirectoryInv'
  OBVIOUS
<1>1. ASSUME NEW exists, NEW url, NEW split \in BOOLEAN, NEW known \in BOOLEAN,
             ConfigureResource(exists, url, split, known)
      PROVE  DirectoryInv'
  BY <1>1 DEF ConfigureResource, DirectoryInv
<1>2. ASSUME NEW directory \in Directories \cup {NoDirectory}, WriteFiles(directory)
      PROVE  DirectoryInv'
  BY <1>2 DEF WriteFiles, DirectoryInv
<1>3. CASE UNCHANGED <<files, source>>
  BY <1>3 DEF DirectoryInv
<1>4. ASSUME PlanDirectory \/ PlanUnknownPanics \/ ApplyDirectory
      PROVE  UNCHANGED <<files, source>>
  BY <1>4 DEF PlanDirectory, PlanUnknownPanics, ApplyDirectory
<1>5. ASSUME UNCHANGED directoryVars PROVE UNCHANGED <<files, source>>
  BY <1>5 DEF directoryVars
<1>6. QED
  BY <1>1, <1>2, <1>3, <1>4, <1>5 DEF DirectoryNext

(* Every step of sql_migrate_directory is a step any migration resource may   *)
(* take.                                                                      *)
LEMMA DirectoryStep ==
  DirectoryInv /\ [DirectoryNext]_directoryVars => [CommonNext]_vars
<1> SUFFICES ASSUME DirectoryInv, [DirectoryNext]_directoryVars PROVE [CommonNext]_vars
  OBVIOUS
<1>1. ASSUME NEW exists \in BOOLEAN, NEW url \in ConfigUrl, NEW split, NEW known,
             ConfigureResource(exists, url, split, known)
      PROVE  CommonNext
  BY <1>1 DEF ConfigureResource, CommonNext
<1>2. NoUrl \in ConfigUrl /\ ResourceUrl \subseteq ConfigUrl
  BY DirectoryAssumption DEF ConfigUrl
<1>3. List \in Seq(Migration) /\ Readable \in BOOLEAN
  BY ListType DEF Readable
<1>4. CASE PlanDirectory
  BY <1>3, <1>4 DEF PlanDirectory, AnyPlan, CommonNext
<1>5. CASE ApplyDirectory
  BY <1>3, <1>5 DEF ApplyDirectory, AnyApply, AnyReplan, CommonNext
<1>6. ASSUME NEW directory, WriteFiles(directory) PROVE UNCHANGED vars
  BY <1>6 DEF WriteFiles
<1>7. CASE PlanUnknownPanics
  BY <1>7 DEF PlanUnknownPanics, ProviderLost, CommonNext
<1>8. CASE UNCHANGED directoryVars
  BY <1>8 DEF directoryVars
<1>9. CASE RunStep \/ StopProvider \/ \E c \in ProviderConfig : ConfigureProvider(c)
  BY <1>9 DEF CommonNext
<1>10. QED
  BY <1>1, <1>2, <1>4, <1>5, <1>6, <1>7, <1>8, <1>9 DEF DirectoryNext

LEMMA DirectoryIsCommon == DirectorySpec => CommonSpec /\ []DirectoryInv
<1>1. DirectoryInit => CommonInit
  BY DEF DirectoryInit
<1>2. QED
  BY <1>1, DirectoryInvInit, DirectoryInvNext, DirectoryStep, PTL
     DEF DirectorySpec, CommonSpec

---------------------------------------------------------------------------
(* What complete_migrations lists is in effect in the database of the last    *)
(* run, whatever files are written when, unless a file was edited, the URL    *)
(* moved, a failing down was swallowed or a run was torn.                     *)
THEOREM DirectoryRecordsAreTrue == DirectorySpec => []RecordedHasRun
  BY DirectoryIsCommon, CommonRecords, PTL

(* A history without departures leaves no object behind that is not recorded. *)
THEOREM DirectoryNoLeftovers == DirectorySpec => []NothingUnrecorded
  BY DirectoryIsCommon, CommonLeftovers, PTL

(* In such a history the database refuses no statement of ordered lists.      *)
THEOREM DirectoryNeverRefused == DirectorySpec => []NoStatementRefused
  BY DirectoryIsCommon, CommonRefusals, PTL

(* Only what a plan adds is created and only what it removes is dropped.      *)
THEOREM DirectoryDifferenceOnly == DirectorySpec => OnlyDifference
  BY DirectoryIsCommon, CommonDifference, PTL

(* The statements of a run come in the order of the lists, the ups after the  *)
(* downs, and the downs backwards, as for sql_migrate.                        *)
THEOREM DirectoryUpsOrdered == DirectorySpec => UpsInOrder
  BY DirectoryIsCommon, CommonUpsInOrder, PTL

(* An object disappears only when all removed migrations behind its own have. *)
THEOREM DirectoryDownsOrdered == DirectorySpec => DownsInReverse
  BY DirectoryIsCommon, CommonDownsInReverse, PTL

(* sql_migrate_directory implements the ledger.                               *)
THEOREM DirectoryLedgerKept == DirectorySpec => ImplementsLedger
  BY DirectoryIsCommon, CommonImplementsLedger, PTL

(* So do record and database of sql_migrate_directory between two runs.       *)
THEOREM DirectoryAgreesBetweenRuns == DirectorySpec => []BetweenChanges
  BY DirectoryLedgerKept, LedgerAgrees
=============================================================================
