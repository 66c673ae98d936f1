--------------------------- MODULE ResourceMigrate ---------------------------
(* The resource sql_migrate: its migrations are the migration blocks of the   *)
(* configuration, validated one by one and planned as they stand.             *)
EXTENDS ResourceMigrateCommon

CONSTANT Lists \* the lists of migration blocks a configuration can have

ASSUME ListsAssumption == Lists \subseteq Seq(Migration)

VARIABLE blocks \* the configured blocks: [list, known]; known is FALSE while
                \* a value in them depends on another resource

allVars == <<vars, blocks>>

(* Validate: at least one block, no blank id. Its duplicate check reads a map *)
(* nothing is ever put into, so that it accepts every repetition.             *)
Valid(list) ==
    /\ list # <<>>
    /\ \A i \in DOMAIN list : list[i].id # BlankId

Init == CommonInit /\ blocks = [list |-> <<>>, known |-> TRUE]

(* The operator edits the configuration, or the blocks of a known one stay as *)
(* they are and only their values become known or unknown.                    *)
EditConfig(exists, url, list, known) ==
    /\ Edit([exists |-> exists, url |-> url])
    /\ blocks' = [list |-> list, known |-> known]
    /\ <<conf, blocks>>' # <<conf, blocks>>

PlanResourceChange ==
    /\ PlanDestroy \/ PlanChange(blocks.list, blocks.known, Valid(blocks.list))
    /\ UNCHANGED blocks

(* What an apply command calls: the second plan, then the change.             *)
ApplyCommand ==
    /\ \/ Replan(blocks.list, Valid(blocks.list))
       \/ ReplanRejected(blocks.list, Valid(blocks.list))
       \/ ApplyUnconnected
       \/ ApplyStarts
    /\ UNCHANGED blocks

Next ==
    \/ \E url \in ConfigUrl, list \in Lists, known \in BOOLEAN :
          EditConfig(TRUE, url, list, known)
    \/ EditConfig(FALSE, NoUrl, <<>>, TRUE)
    \/ \E c \in ProviderConfig : ConfigureProvider(c) /\ UNCHANGED blocks
    \/ PlanResourceChange
    \/ ApplyCommand
    \/ RunStep /\ UNCHANGED blocks
    \/ StopProvider /\ UNCHANGED blocks

Spec == Init /\ [][Next]_allVars

(* The handler of ApplyResourceChange runs to its end unless it is stopped,    *)
(* and the operator starts the provider again when it died, and plans and      *)
(* applies again until there is nothing to change.                            *)
RetrySpec ==
    /\ Spec
    /\ WF_allVars(RunStep /\ UNCHANGED blocks)
    /\ WF_allVars(\E c \in ProviderConfig :
          ~provider.configured /\ ConfigureProvider(c) /\ UNCHANGED blocks)
    /\ WF_allVars(PlanResourceChange)
    /\ WF_allVars(ApplyCommand)

---------------------------------------------------------------------------
(* Every variable keeps its type.                                             *)
TypeOK == CommonTypeOK /\ blocks \in [list : Seq(Migration), known : BOOLEAN]

---------------------------------------------------------------------------
(* What Validate rejects is never executed and never recorded, also when the  *)
(* blocks were unknown at plan time and Validate had nothing to look at.      *)
OnlyValidRuns ==
    /\ run.op \in {"create", "update"} => Valid(run.planned.complete)
    /\ state.exists => Valid(state.complete)

(* With statements that can be repeated no sequence of failures, edits and    *)
(* kills leaves a state that retrying does not bring to the configuration,    *)
(* once the operator stops editing: a resource is never wedged.               *)
Settled ==
    /\ Idle
    /\ ~conf.exists => ~state.exists
    /\ conf.exists /\ conf.url # BadUrl /\ Valid(blocks.list) =>
          state = Planned(blocks.list)

Settles == <>[][FALSE]_<<conf, blocks>> => <>[]Settled

---------------------------------------------------------------------------
(* The documentation's statements that the program does not keep. Each is     *)
(* limited to histories with one kind of departure.                           *)

(* docs/resources/migrate.md:56: complete_migrations are "the completed       *)
(* migrations that have been run against your database"; not so once Up has   *)
(* answered nil for a failed down statement.                                  *)
RunDespiteFailedDown ==
    Idle /\ trouble \subseteq {"swallowed"} => RunAgainstDatabase

(* The same sentence, after an edit of a url with no failure at all: the      *)
(* statements of the new list run at the new URL, those of the kept ones      *)
(* never do.                                                                  *)
RunAtConfiguredUrl ==
    Idle /\ trouble \subseteq {"moved"} => RunAgainstDatabase

(* README.md:68: with one migration on each resource, what has succeeded and  *)
(* what is recorded do not part when a statement fails.                       *)
SingleMigrationRecorded ==
    Idle /\ trouble \subseteq {"torn"} => RunAgainstDatabase

(* resource_migrate.go:127: a configuration with "Duplicate ID value" is an   *)
(* error, so that no run is started for one.                                  *)
DuplicateIdRejected ==
    run.op \in {"create", "update"} => DistinctIds(run.planned.complete)
=============================================================================
