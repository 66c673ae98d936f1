------------------------ MODULE ResourceMigrateProofs ------------------------
(* sql_migrate for every set of migrations, block lists, URLs, provider       *)
(* configurations and faults. Its specification implies CommonSpec, and with  *)
(* it all that CommonSpec promises; what only this type promises rests on its *)
(* Validate.                                                                  *)
EXTENDS ResourceMigrate, ResourceMigrateLedgerProofs

BlocksOK == blocks \in [list : Seq(Migration), known : BOOLEAN]

LEMMA BlocksInit == Init => BlocksOK
  BY DEF Init, BlocksOK

LEMMA BlocksNext == BlocksOK /\ [Next]_allVars => BlocksOK'
<1> SUFFICES ASSUME BlocksOK, [Next]_allVars PROVE BlocksOK'
  OBVIOUS
<1>1. ASSUME NEW url \in ConfigUrl, NEW list \in Lists, NEW known \in BOOLEAN,
             EditConfig(TRUE, url, list, known)
      PROVE  BlocksOK'
  BY <1>1, ListsAssumption DEF EditConfig, BlocksOK
<1>2. CASE EditConfig(FALSE, NoUrl, <<>>, TRUE)
  BY <1>2 DEF EditConfig, BlocksOK
<1>3. CASE UNCHANGED blocks
  BY <1>3 DEF BlocksOK
<1>4. QED
  BY <1>1, <1>2, <1>3 DEF Next, PlanResourceChange, ApplyCommand, allVars

(* Every step of sql_migrate is a step any migration resource may take.       *)
LEMMA CommonStep == BlocksOK /\ [Next]_allVars => [CommonNext]_vars
<1> SUFFICES ASSUME BlocksOK, [Next]_allVars PROVE [CommonNext]_vars
  OBVIOUS
<1>1. ASSUME NEW exists \in BOOLEAN, NEW url \in ConfigUrl, NEW list, NEW known,
             EditConfig(exists, url, list, known)
      PROVE  CommonNext
  BY <1>1 DEF EditConfig, CommonNext
<1>2. NoUrl \in ConfigUrl
  BY DEF ConfigUrl
<1>3. blocks.list \in Seq(Migration) /\ blocks.known \in BOOLEAN
  BY DEF BlocksOK
<1>4. Valid(blocks.list) \in BOOLEAN
  BY DEF Valid
<1>5. CASE PlanResourceChange
  BY <1>3, <1>4, <1>5 DEF PlanResourceChange, AnyPlan, CommonNext
<1>6. CASE ApplyCommand
  BY <1>3, <1>4, <1>6 DEF ApplyCommand, AnyApply, AnyReplan, CommonNext
<1>7. CASE UNCHANGED allVars
  BY <1>7 DEF allVars
<1>8. CASE RunStep \/ StopProvider \/ \E c \in ProviderConfig : ConfigureProvider(c)
  BY <1>8 DEF CommonNext
<1>9. QED
  BY <1>1, <1>2, <1>5, <1>6, <1>7, <1>8 DEF Next

LEMMA IsCommon == Spec => CommonSpec /\ []BlocksOK
<1>1. Init => CommonInit
  BY DEF Init
<1>2. QED
  BY <1>1, BlocksInit, BlocksNext, CommonStep, PTL DEF Spec, CommonSpec

---------------------------------------------------------------------------
(* Every variable keeps its type, for all migrations, URLs, configurations    *)
(* and faults: in particular what is left to execute are positions of the     *)
(* prior and the planned list, and a URL that does not parse is never         *)
(* recorded.                                                                  *)
THEOREM TypeCorrect == Spec => []TypeOK
<1>1. CommonTypeOK /\ BlocksOK => TypeOK
  BY DEF TypeOK, BlocksOK
<1>2. QED
  BY <1>1, IsCommon, CommonTypes, PTL

(* What complete_migrations lists is in effect in the database of the last    *)
(* run, whatever was refused, lost or killed, unless a migration was edited,  *)
(* the URL moved, a failing down was swallowed or a run was torn.             *)
THEOREM RecordsAreTrue == Spec => []RecordedHasRun
  BY IsCommon, CommonRecords, PTL

(* A history without departures leaves no object behind that is not recorded, *)
(* in any database.                                                           *)
THEOREM NoLeftovers == Spec => []NothingUnrecorded
  BY IsCommon, CommonLeftovers, PTL

(* In such a history the database refuses no statement of ordered lists.      *)
THEOREM NeverRefused == Spec => []NoStatementRefused
  BY IsCommon, CommonRefusals, PTL

(* Only what a plan adds is created and only what it removes is dropped.      *)
THEOREM DifferenceOnly == Spec => OnlyDifference
  BY IsCommon, CommonDifference, PTL

(* Ups run in the order of the list, after all downs.                         *)
THEOREM UpsOrdered == Spec => UpsInOrder
  BY IsCommon, CommonUpsInOrder, PTL

(* Downs run against the order of the list.                                   *)
THEOREM DownsOrdered == Spec => DownsInReverse
  BY IsCommon, CommonDownsInReverse, PTL

(* sql_migrate implements the ledger.                                         *)
THEOREM LedgerKept == Spec => ImplementsLedger
  BY IsCommon, CommonImplementsLedger, PTL

(* Between two runs of sql_migrate what nothing casts doubt on is so: no state *)
(* lists what is not in effect, and nothing is in effect that it omits.       *)
THEOREM AgreesBetweenRuns == Spec => []BetweenChanges
  BY LedgerKept, LedgerAgrees

---------------------------------------------------------------------------
(* What Validate rejects never runs. A plan that the second planning agreed to *)
(* is of a valid list, a run starts with such a plan, and what is recorded was *)
(* a run's planned list.                                                       *)
ValidInv ==
    /\ plan.agreed => Valid(plan.list)
    /\ run.planned.exists => Valid(run.planned.complete)
    /\ state.exists => Valid(state.complete)
    /\ run.op \in {"create", "update"} => run.planned.exists

LEMMA ValidStarts ==
  ASSUME CommonTypeOK, ValidInv, ApplyStarts PROVE ValidInv'
<1>1. /\ run' = [op |-> plan.action, url |-> Resolve(ExecerUrl), planned |-> Target,
                 downs |-> Removed(state, Target), ups |-> Added(state, Target)]
      /\ state' = state /\ ~plan'.agreed
  BY DEF ApplyStarts, NoPlan
<1>2. run'.op = plan.action /\ run'.planned = Target
  BY <1>1
<1>3. CASE plan.action = "destroy"
  BY <1>1, <1>2, <1>3 DEF ValidInv, Target, Absent
<1>4. CASE plan.action # "destroy"
  <2>1. Valid(plan.list) /\ Target = Planned(plan.list)
    BY <1>4 DEF ApplyStarts, Applicable, Target, ValidInv
  <2>2. run'.planned.exists /\ run'.planned.complete = plan.list
    BY <1>2, <2>1 DEF Planned
  <2>3. QED
    BY <1>1, <1>2, <2>1, <2>2 DEF ValidInv, Valid
<1>5. QED
  BY <1>3, <1>4

LEMMA ValidReplan ==
  ASSUME CommonTypeOK, ValidInv, NEW list, Replan(list, Valid(list)) PROVE ValidInv'
<1>1. Valid(list) /\ plan'.list = list /\ UNCHANGED <<run, state>>
  BY DEF Replan, Confirms, CommonTypeOK
<1>2. QED
  BY <1>1 DEF ValidInv, Valid

LEMMA ValidStep ==
  ASSUME CommonTypeOK, ValidInv, [Next]_allVars PROVE ValidInv'
<1>1. ASSUME UNCHANGED <<run, state>>, plan' = plan \/ ~plan'.agreed PROVE ValidInv'
  BY <1>1 DEF ValidInv, Valid
<1>2. ASSUME run' = NoRun, state' \in {state, run.planned}, plan' = plan \/ ~plan'.agreed
      PROVE  ValidInv'
  BY <1>2 DEF ValidInv, Valid, NoRun, Absent
<1>3. ASSUME NEW i \in run.downs, RunDownOk(i) PROVE ValidInv'
  <2>1. /\ run' = [run EXCEPT !.downs = @ \ {i}] /\ run \in RunType
        /\ state' = state /\ plan' = plan
    BY <1>3 DEF RunDownOk, CommonTypeOK
  <2>2. run'.planned = run.planned /\ run'.op = run.op
    BY <2>1 DEF RunType
  <2>3. QED
    BY <2>1, <2>2 DEF ValidInv, Valid
<1>4. ASSUME NEW i \in run.ups, RunUpOk(i) PROVE ValidInv'
  <2>1. /\ run' = [run EXCEPT !.ups = @ \ {i}] /\ run \in RunType
        /\ state' = state /\ plan' = plan
    BY <1>4 DEF RunUpOk, CommonTypeOK
  <2>2. run'.planned = run.planned /\ run'.op = run.op
    BY <2>1 DEF RunType
  <2>3. QED
    BY <2>1, <2>2 DEF ValidInv, Valid
<1>5. ASSUME RunStep PROVE ValidInv'
  BY <1>2, <1>3, <1>4, <1>5
     DEF RunStep, RunDownFails, RunUpFails, Finish, Abandon, Record
<1>6. ~NoPlan.agreed
  BY DEF NoPlan
<1>7. ASSUME StopProvider PROVE ValidInv'
  BY <1>1, <1>2, <1>6, <1>7 DEF StopProvider, Abandon
<1>8. ASSUME NEW exists, NEW url, NEW list, NEW known, EditConfig(exists, url, list, known)
      PROVE  ValidInv'
  BY <1>1, <1>6, <1>8 DEF EditConfig, Edit
<1>9. ASSUME NEW c, ConfigureProvider(c) PROVE ValidInv'
  BY <1>1, <1>9 DEF ConfigureProvider, resourceVars
<1>10. CASE PlanResourceChange
  BY <1>1, <1>10 DEF PlanResourceChange, PlanDestroy, PlanChange
<1>11. CASE ApplyCommand
  <2>1. CASE ApplyStarts
    BY <2>1, ValidStarts
  <2>2. CASE Replan(blocks.list, Valid(blocks.list))
    BY <2>2, ValidReplan
  <2>3. ASSUME ReplanRejected(blocks.list, Valid(blocks.list)) \/ ApplyUnconnected
        PROVE  ValidInv'
    BY <1>1, <1>6, <2>3 DEF ReplanRejected, ApplyUnconnected
  <2>4. QED
    BY <1>11, <2>1, <2>2, <2>3 DEF ApplyCommand
<1>12. CASE UNCHANGED allVars
  BY <1>1, <1>12 DEF allVars, vars
<1>13. QED
  BY <1>5, <1>7, <1>8, <1>9, <1>10, <1>11, <1>12 DEF Next

(* A list that Validate rejects is never executed and never recorded, also    *)
(* when the blocks were unknown when the plan was made.                       *)
THEOREM OnlyValid == Spec => []OnlyValidRuns
<1>1. Init => ValidInv
  BY DEF Init, CommonInit, ValidInv, NoRun, Absent, NoPlan
<1>2. ValidInv => OnlyValidRuns
  BY DEF ValidInv, OnlyValidRuns
<1>3. QED
  BY <1>1, <1>2, ValidStep, IsCommon, CommonTypes, PTL DEF Spec
=============================================================================
