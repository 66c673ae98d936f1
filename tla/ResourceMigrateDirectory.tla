----------------------- MODULE ResourceMigrateDirectory -----------------------
(* The resource sql_migrate_directory: its migrations are what ReadDir makes  *)
(* of a directory, read again for every plan and validated by nobody. Others  *)
(* write the directory whenever they like, also while an apply is running.    *)
(* Each reading is one step here; ReadDir.tla takes it apart.                 *)
EXTENDS ResourceMigrateCommon, Directory

CONSTANTS
    Directories, \* what the directory can hold
    NoDirectory, \* there is none
    ResourceUrl  \* what the url attribute is set to

(* The names and lines that occur make identifiers and texts of migrations.   *)
ASSUME DirectoryAssumption ==
    /\ ResourceUrl \subseteq ConfigUrl
    /\ \A directory \in Directories, split \in BOOLEAN :
          ReadDirectory(directory, split) \in Seq(Migration)

VARIABLES
    files,  \* what the directory holds now
    source  \* the configured [split, known]; known is FALSE while path or
            \* single_file_split depends on another resource

directoryVars == <<vars, files, source>>

Readings ==
    [directory \in Directories |-> [split \in BOOLEAN |-> ReadDirectory(directory, split)]]

List == IF files = NoDirectory THEN <<>> ELSE Readings[files][source.split]

Readable == files # NoDirectory

DirectoryInit ==
    /\ CommonInit
    /\ files \in Directories \cup {NoDirectory}
    /\ source = [split |-> FALSE, known |-> TRUE]

ConfigureResource(exists, url, split, known) ==
    /\ Edit([exists |-> exists, url |-> url])
    /\ source' = [split |-> split, known |-> known]
    /\ <<conf, source>>' # <<conf, source>>
    /\ UNCHANGED files

WriteFiles(directory) ==
    /\ files' = directory /\ files # directory
    /\ UNCHANGED <<vars, source>>

(* Broken variant: a planned destroy reads the directory like the other plans. *)
PlanReadsAlways ==
    /\ \/ Readable /\ PlanDestroy
       \/ source.known /\ PlanChange(List, TRUE, Readable)
    /\ UNCHANGED <<files, source>>

(* An unreadable directory is an error of the plan.                           *)
PlanDirectory ==
    /\ PlanDestroy \/ (source.known /\ PlanChange(List, TRUE, Readable))
    /\ UNCHANGED <<files, source>>

(* The plan for an unknown path or split lacks the attribute url. The server  *)
(* builds an object of the schema's type from it, which panics: the process   *)
(* is gone.                                                                   *)
PlanUnknownPanics ==
    /\ NoApply /\ provider.configured
    /\ conf.exists /\ ~source.known
    /\ provider' = Fresh
    /\ UNCHANGED <<databaseVars, resourceVars, historyVars, files, source>>

(* The second plan reads the directory once more; the apply does not, and      *)
(* runs what that plan read.                                                   *)
ApplyDirectory ==
    /\ \/ Replan(List, Readable)
       \/ ReplanRejected(List, Readable)
       \/ ApplyUnconnected
       \/ ApplyStarts
    /\ UNCHANGED <<files, source>>

DirectoryNext ==
    \/ \E url \in ResourceUrl, split, known \in BOOLEAN :
          ConfigureResource(TRUE, url, split, known)
    \/ ConfigureResource(FALSE, NoUrl, FALSE, TRUE)
    \/ \E directory \in Directories \cup {NoDirectory} : WriteFiles(directory)
    \/ \E c \in ProviderConfig : ConfigureProvider(c) /\ UNCHANGED <<files, source>>
    \/ PlanDirectory \/ PlanUnknownPanics \/ ApplyDirectory
    \/ RunStep /\ UNCHANGED <<files, source>>
    \/ StopProvider /\ UNCHANGED <<files, source>>

DirectorySpec == DirectoryInit /\ [][DirectoryNext]_directoryVars

(* An operator who starts the provider again when it died, and plans and      *)
(* applies again until there is nothing to change.                            *)
DirectoryRetrySpec ==
    /\ DirectorySpec
    /\ WF_directoryVars(RunStep /\ UNCHANGED <<files, source>>)
    /\ WF_directoryVars(\E c \in ProviderConfig :
          ~provider.configured /\ ConfigureProvider(c) /\ UNCHANGED <<files, source>>)
    /\ WF_directoryVars(PlanDirectory)
    /\ WF_directoryVars(ApplyDirectory)

---------------------------------------------------------------------------
(* complete_migrations is all a destroy needs: a resource taken out of the    *)
(* configuration is migrated down from the record, with the directory edited, *)
(* emptied or gone, and after any failures.                                   *)
DestroyedWithoutFiles ==
    <>[](~conf.exists) => <>[](run = NoRun /\ ~state.exists)

(* Once nobody writes the configuration and the directory any more, the       *)
(* recorded list becomes what the directory holds, whatever it held when      *)
(* earlier plans were made and applied.                                       *)
FollowsDirectory ==
    <>[][FALSE]_<<conf, source, files>> =>
        <>[](conf.exists /\ conf.url # BadUrl /\ source.known /\ Readable =>
                run = NoRun /\ state = Planned(List))
=============================================================================
