------------------------ MODULE ResourceMigrateTypes ------------------------
(* Types. The two resource types differ in the migrations they hand in and in  *)
(* what they call valid. CommonSpec leaves both open: any configuration, any   *)
(* list at any step, any verdict. What holds of it holds of both types, once   *)
(* their specifications are shown to imply it.                                 *)
EXTENDS ResourceMigrateCommon, TLAPS

(* The plan of sql_migrate_directory may take the process down.                *)
ProviderLost ==
    /\ NoApply /\ provider' = Fresh
    /\ UNCHANGED <<databaseVars, resourceVars, historyVars>>

AnyPlan ==
    \/ PlanDestroy
    \/ \E list \in Seq(Migration), known, valid \in BOOLEAN :
          PlanChange(list, known, valid)

AnyReplan ==
    \E list \in Seq(Migration), valid \in BOOLEAN :
        Replan(list, valid) \/ ReplanRejected(list, valid)

AnyApply == AnyReplan \/ ApplyUnconnected \/ ApplyStarts

CommonNext ==
    \/ \E c \in [exists : BOOLEAN, url : ConfigUrl] : Edit(c)
    \/ \E c \in ProviderConfig : ConfigureProvider(c)
    \/ AnyPlan
    \/ AnyApply
    \/ RunStep
    \/ StopProvider
    \/ ProviderLost

CommonSpec == CommonInit /\ [][CommonNext]_vars

---------------------------------------------------------------------------
LEMMA InitTypeOK == CommonInit => CommonTypeOK
  BY DatabaseAssumption DEF CommonInit, CommonTypeOK, Fresh, ProviderType, Absent, NoPlan, NoRun,
         RunType, ConfigUrl, Removed, Added, Subtract, Kinds

(* A position of a difference is a position of the list. *)
LEMMA SubtractDomain ==
  ASSUME NEW x, NEW y PROVE Subtract(x, y) \subseteq DOMAIN x
  BY DEF Subtract

LEMMA EditTypeOK ==
  ASSUME CommonTypeOK, NEW c \in [exists : BOOLEAN, url : ConfigUrl], Edit(c)
  PROVE  CommonTypeOK'
  BY DEF CommonTypeOK, Edit, databaseVars, historyVars, NoPlan, Removed, Added

LEMMA ConfigureTypeOK ==
  ASSUME CommonTypeOK, NEW c \in ProviderConfig, ConfigureProvider(c)
  PROVE  CommonTypeOK'
<1> DEFINE url == ConfiguredUrl(c)
<1>a. provider \in ProviderType /\ Configure(c)
  BY DEF CommonTypeOK, ConfigureProvider
<1>b. /\ c.url \in Url \cup {NoUrl, BadUrl, UnknownUrl}
      /\ c.env \in Url \cup {NoUrl, BadUrl}
      /\ c.maxOpen \in Nat \cup {Null, NotInteger}
      /\ c.maxIdle \in Nat \cup {Null, NotInteger}
  BY ProviderAssumption
<1>c. url # BadUrl => url \in Url \cup {NoUrl, UnknownUrl}
  BY <1>b DEF ConfiguredUrl
<1>d. /\ c.maxOpen # NotInteger => MaxOpen(c) \in Nat
      /\ c.maxIdle # NotInteger => MaxIdle(c) \in Nat
  BY <1>b DEF MaxOpen, MaxIdle
<1> HIDE DEF url
<1>1. provider' \in ProviderType
  <2>1. CASE url = BadUrl
    BY <2>1, <1>a DEF Configure, ProviderType, url
  <2>2. CASE url # BadUrl /\ c.maxOpen = NotInteger
    BY <2>2, <1>a, <1>c DEF Configure, ProviderType, url
  <2>3. CASE url # BadUrl /\ c.maxOpen # NotInteger /\ c.maxIdle = NotInteger
    BY <2>3, <1>a, <1>c, <1>d DEF Configure, ProviderType, url
  <2>4. CASE url # BadUrl /\ c.maxOpen # NotInteger /\ c.maxIdle # NotInteger
    <3>1. provider' = [configured |-> TRUE, url |-> url,
                       maxOpen |-> MaxOpen(c), maxIdle |-> MaxIdle(c)]
      BY <2>4, <1>a DEF Configure, url
    <3>2. url \in Url \cup {NoUrl, UnknownUrl} /\ MaxOpen(c) \in Nat /\ MaxIdle(c) \in Nat
      BY <2>4, <1>c, <1>d
    <3>3. QED
      BY <3>1, <3>2 DEF ProviderType
  <2>5. QED
    BY <2>1, <2>2, <2>3, <2>4
<1>2. UNCHANGED <<schema, faults, conf, state, plan, run, home, trouble>>
  BY DEF ConfigureProvider, databaseVars, resourceVars, historyVars
<1>3. QED
  BY <1>1, <1>2 DEF CommonTypeOK, Removed, Added

LEMMA PlanTypeOK ==
  ASSUME CommonTypeOK, AnyPlan PROVE CommonTypeOK'
<1>1. UNCHANGED <<schema, faults, provider, conf, state, run, home, trouble>>
  BY DEF AnyPlan, PlanDestroy, PlanChange, databaseVars, historyVars
<1>2. /\ plan' \in [action : {"none", "create", "update", "destroy"},
                   known : BOOLEAN, list : Seq(Migration), agreed : BOOLEAN]
      /\ ~plan'.agreed
  <2>1. CASE PlanDestroy
    BY <2>1 DEF PlanDestroy
  <2>2. ASSUME NEW list \in Seq(Migration), NEW known \in BOOLEAN, NEW valid \in BOOLEAN,
               PlanChange(list, known, valid)
        PROVE  /\ plan' \in [action : {"none", "create", "update", "destroy"},
                             known : BOOLEAN, list : Seq(Migration), agreed : BOOLEAN]
               /\ ~plan'.agreed
    BY <2>2 DEF PlanChange
  <2>3. QED
    BY <2>1, <2>2 DEF AnyPlan
<1>3. QED
  BY <1>1, <1>2 DEF CommonTypeOK, Removed, Added

LEMMA ApplyStartsTypeOK ==
  ASSUME CommonTypeOK, ApplyStarts PROVE CommonTypeOK'
<1> DEFINE target == Target
<1> DEFINE url == Resolve(ExecerUrl)
<1>1. UNCHANGED <<schema, faults, provider, conf, state>> /\ plan' = NoPlan
  BY DEF ApplyStarts, databaseVars
<1>2. url \in Url
  BY DEF ApplyStarts, Connectable
<1>3. plan.action # "destroy" => conf.url # BadUrl
  BY <1>2, ProviderAssumption DEF Resolve, ExecerUrl
<1>4. /\ conf.url \in Url \cup {NoUrl, BadUrl}
      /\ state.url \in Url \cup {NoUrl} /\ state.complete \in Seq(Migration)
      /\ plan.action \in {"none", "create", "update", "destroy"}
      /\ plan.list \in Seq(Migration)
  BY DEF CommonTypeOK, ConfigUrl
<1>5. /\ target \in [exists : BOOLEAN, url : Url \cup {NoUrl}, complete : Seq(Migration)]
      /\ target.exists \/ target = Absent
  BY <1>3, <1>4 DEF Target, Planned, Absent
<1>6. /\ Removed(state, target) \subseteq DOMAIN state.complete
      /\ Added(state, target) \subseteq DOMAIN target.complete
  BY SubtractDomain DEF Removed, Added
<1>7. /\ DOMAIN state.complete \subseteq Nat /\ DOMAIN target.complete \subseteq Nat
  BY <1>4, <1>5
<1> HIDE DEF target, url
<1>8. run' = [op |-> plan.action, url |-> url, planned |-> target,
              downs |-> Removed(state, target), ups |-> Added(state, target)]
  BY DEF ApplyStarts, target, url
<1>9. run' \in RunType /\ run'.planned = target /\ run'.url = url /\ run'.op = plan.action
      /\ run'.downs = Removed(state, target) /\ run'.ups = Added(state, target)
  BY <1>2, <1>4, <1>5, <1>6, <1>7, <1>8 DEF RunType
<1>10. plan.action # "none"
  BY DEF ApplyStarts, Applicable, CommonTypeOK
<1>11. home' \in Url \cup {NoUrl} /\ trouble' \subseteq Kinds
  BY <1>2 DEF ApplyStarts, CommonTypeOK, Departures, Kinds, url
<1>12. /\ NoPlan \in [action : {"none", "create", "update", "destroy"},
                      known : BOOLEAN, list : Seq(Migration), agreed : BOOLEAN]
       /\ ~NoPlan.agreed
  BY DEF NoPlan
<1>13. QED
  BY <1>1, <1>2, <1>5, <1>9, <1>10, <1>11, <1>12 DEF CommonTypeOK, Removed, Added

LEMMA ReplanTypeOK ==
  ASSUME CommonTypeOK, NEW list \in Seq(Migration), NEW valid \in BOOLEAN,
         Replan(list, valid) \/ ReplanRejected(list, valid)
  PROVE  CommonTypeOK'
<1>1. UNCHANGED <<schema, faults, provider, conf, state, run, home, trouble>>
  BY DEF Replan, ReplanRejected, databaseVars, historyVars
<1>2. /\ plan' \in [action : {"none", "create", "update", "destroy"},
                   known : BOOLEAN, list : Seq(Migration), agreed : BOOLEAN]
      /\ plan'.agreed => plan'.action \in {"create", "update"}
  <2>1. plan \in [action : {"none", "create", "update", "destroy"},
                 known : BOOLEAN, list : Seq(Migration), agreed : BOOLEAN]
    BY DEF CommonTypeOK
  <2>2. CASE Replan(list, valid)
    BY <2>1, <2>2 DEF Replan
  <2>3. CASE ReplanRejected(list, valid)
    BY <2>3 DEF ReplanRejected, NoPlan
  <2>4. QED
    BY <2>2, <2>3
<1>3. QED
  BY <1>1, <1>2 DEF CommonTypeOK, Removed, Added

LEMMA ApplyTypeOK ==
  ASSUME CommonTypeOK, AnyApply PROVE CommonTypeOK'
<1>1. CASE AnyReplan
  BY <1>1, ReplanTypeOK DEF AnyReplan
<1>2. CASE ApplyUnconnected
  <2>1. /\ UNCHANGED <<schema, provider, conf, state, run, home, trouble>>
        /\ plan' = NoPlan
    BY <1>2 DEF ApplyUnconnected, historyVars
  <2>2. faults' \in 0..MaxFaults
    BY <1>2, DatabaseAssumption DEF ApplyUnconnected, Fault, CommonTypeOK
  <2>3. QED
    BY <2>1, <2>2 DEF CommonTypeOK, NoPlan, Removed, Added
<1>3. CASE ApplyStarts
  BY <1>3, ApplyStartsTypeOK
<1>4. QED
  BY <1>1, <1>2, <1>3 DEF AnyApply

(* A statement keeps the databases databases. *)
LEMMA ExecType ==
  ASSUME CommonTypeOK, NEW u \in Url, NEW m \in Migration, NEW up \in BOOLEAN,
         ExecSucceeds(u, m, up) \/ ExecFails(u, m, up)
  PROVE  schema' \in [Url -> SUBSET Migration] /\ faults' \in 0..MaxFaults
<1>1. schema' = schema \/ Effect(u, m, up)
  BY DEF ExecSucceeds, ExecFails, databaseVars
<1>2. schema' \in [Url -> SUBSET Migration]
  BY <1>1 DEF Effect, CommonTypeOK
<1>3. faults' \in 0..MaxFaults
  BY DatabaseAssumption DEF ExecSucceeds, ExecFails, Fault, databaseVars, CommonTypeOK
<1>4. QED
  BY <1>2, <1>3

(* The answer that ends a run leaves a typed state and no run. *)
LEMMA EndTypes ==
  ASSUME CommonTypeOK, run # NoRun, Abandon \/ Record,
         trouble' \subseteq Kinds
  PROVE  /\ run' = NoRun /\ run' \in RunType
         /\ run'.planned = Absent /\ run'.downs = {} /\ run'.ups = {}
         /\ state' \in [exists : BOOLEAN, url : Url \cup {NoUrl},
                        complete : Seq(Migration)]
         /\ state'.exists \/ state' = Absent
<1>1. run' = NoRun /\ state' \in {state, run.planned}
  BY DEF Abandon, Record
<1>2. NoRun \in RunType /\ NoRun.planned = Absent /\ NoRun.downs = {} /\ NoRun.ups = {}
  BY DEF NoRun, RunType, Absent
<1>3. run.planned \in [exists : BOOLEAN, url : Url \cup {NoUrl},
                       complete : Seq(Migration)]
  BY DEF CommonTypeOK, RunType
<1>4. QED
  BY <1>1, <1>2, <1>3 DEF CommonTypeOK

(* A position still to execute belongs to a migration of its list.            *)
LEMMA StepTypes ==
  ASSUME CommonTypeOK
  PROVE  /\ \A i \in run.downs : state.complete[i] \in Migration /\ run.url \in Url
         /\ \A i \in run.ups : run.planned.complete[i] \in Migration /\ run.url \in Url
<1>1. run.downs \subseteq DOMAIN state.complete /\ run.ups \subseteq DOMAIN run.planned.complete
  BY SubtractDomain DEF CommonTypeOK, Removed, Added
<1>2. state.complete \in Seq(Migration) /\ run.planned.complete \in Seq(Migration)
  BY DEF CommonTypeOK, RunType
<1>3. run = NoRun => run.downs = {} /\ run.ups = {}
  BY DEF NoRun
<1>4. QED
  BY <1>1, <1>2, <1>3 DEF CommonTypeOK

LEMMA AbandonTrouble ==
  ASSUME CommonTypeOK, Abandon PROVE trouble' \subseteq Kinds
  BY DEF CommonTypeOK, Abandon, Remains, Kinds

(* CommonTypeOK once the parts that a run step may change are known to be typed.    *)
LEMMA EndTypeOK ==
  ASSUME CommonTypeOK, run # NoRun, Abandon \/ Record, trouble' \subseteq Kinds,
         schema' \in [Url -> SUBSET Migration], faults' \in 0..MaxFaults,
         provider' \in ProviderType, UNCHANGED <<conf, plan, home>>
  PROVE  CommonTypeOK'
  BY EndTypes DEF CommonTypeOK

LEMMA StatementTypeOK ==
  ASSUME CommonTypeOK, schema' \in [Url -> SUBSET Migration], faults' \in 0..MaxFaults,
         UNCHANGED <<provider, conf, state, plan, home, trouble>>,
         NEW i, run # NoRun,
         \/ run' = [run EXCEPT !.downs = @ \ {i}]
         \/ run' = [run EXCEPT !.ups = @ \ {i}]
  PROVE  CommonTypeOK'
<1>1. run' \in RunType /\ run'.op = run.op /\ run'.url = run.url
      /\ run'.planned = run.planned /\ run'.downs \subseteq run.downs
      /\ run'.ups \subseteq run.ups
  <2>1. run \in RunType /\ run.downs \in SUBSET Nat /\ run.ups \in SUBSET Nat
    BY DEF CommonTypeOK, RunType
  <2>2. CASE run' = [run EXCEPT !.downs = @ \ {i}]
    BY <2>1, <2>2 DEF RunType
  <2>3. CASE run' = [run EXCEPT !.ups = @ \ {i}]
    BY <2>1, <2>3 DEF RunType
  <2>4. QED
    BY <2>2, <2>3
<1>2. run.op # "none" /\ run.url \in Url
  BY DEF CommonTypeOK
<1>3. QED
  BY <1>1, <1>2 DEF CommonTypeOK, Removed, Added

LEMMA RunStepTypeOK ==
  ASSUME CommonTypeOK, RunStep PROVE CommonTypeOK'
<1>0. run # NoRun
  BY DEF RunStep, Finish, NoRun
<1>1. ASSUME NEW i \in run.downs, RunDownOk(i) PROVE CommonTypeOK'
  <2>1. schema' \in [Url -> SUBSET Migration] /\ faults' \in 0..MaxFaults
    BY <1>1, StepTypes, ExecType DEF RunDownOk
  <2>2. QED
    BY <1>0, <1>1, <2>1, StatementTypeOK DEF RunDownOk, historyVars
<1>2. ASSUME NEW i \in run.ups, RunUpOk(i) PROVE CommonTypeOK'
  <2>1. schema' \in [Url -> SUBSET Migration] /\ faults' \in 0..MaxFaults
    BY <1>2, StepTypes, ExecType DEF RunUpOk
  <2>2. QED
    BY <1>0, <1>2, <2>1, StatementTypeOK DEF RunUpOk, historyVars
<1>3. ASSUME NEW i \in run.downs, RunDownFails(i) PROVE CommonTypeOK'
  <2>1. schema' \in [Url -> SUBSET Migration] /\ faults' \in 0..MaxFaults
    BY <1>3, StepTypes, ExecType DEF RunDownFails
  <2>2. Abandon \/ Record
    BY <1>3 DEF RunDownFails
  <2>3. trouble' \subseteq Kinds
    BY <1>3, AbandonTrouble DEF RunDownFails, CommonTypeOK, Kinds
  <2>4. provider' \in ProviderType /\ UNCHANGED <<conf, plan, home>>
    BY <1>3 DEF RunDownFails, CommonTypeOK
  <2>5. QED
    BY <1>0, <2>1, <2>2, <2>3, <2>4, EndTypeOK
<1>4. ASSUME NEW i \in run.ups, RunUpFails(i) PROVE CommonTypeOK'
  <2>1. schema' \in [Url -> SUBSET Migration] /\ faults' \in 0..MaxFaults
    BY <1>4, StepTypes, ExecType DEF RunUpFails
  <2>2. Abandon /\ trouble' \subseteq Kinds
    BY <1>4, AbandonTrouble DEF RunUpFails
  <2>3. provider' \in ProviderType /\ UNCHANGED <<conf, plan, home>>
    BY <1>4 DEF RunUpFails, CommonTypeOK
  <2>4. QED
    BY <1>0, <2>1, <2>2, <2>3, EndTypeOK
<1>5. ASSUME Finish PROVE CommonTypeOK'
  <2>1. /\ UNCHANGED <<schema, faults, provider, conf, plan, home, trouble>>
        /\ Record
    BY <1>5 DEF Finish, databaseVars, historyVars
  <2>2. /\ schema \in [Url -> SUBSET Migration] /\ faults \in 0..MaxFaults
        /\ provider \in ProviderType /\ trouble \subseteq Kinds
    BY DEF CommonTypeOK
  <2>3. QED
    BY <1>0, <2>1, <2>2, EndTypeOK
<1>6. QED
  BY <1>1, <1>2, <1>3, <1>4, <1>5 DEF RunStep

LEMMA StopTypeOK ==
  ASSUME CommonTypeOK, StopProvider PROVE CommonTypeOK'
<1>1. /\ UNCHANGED <<schema, conf, home>>
      /\ schema' \in [Url -> SUBSET Migration]
  BY DEF StopProvider, CommonTypeOK
<1>2. faults' \in 0..MaxFaults /\ provider' \in ProviderType
  BY DatabaseAssumption DEF StopProvider, Fault, CommonTypeOK, Fresh, ProviderType
<1>3. /\ plan' \in [action : {"none", "create", "update", "destroy"},
                   known : BOOLEAN, list : Seq(Migration), agreed : BOOLEAN]
      /\ plan'.agreed => plan'.action \in {"create", "update"}
  BY DEF StopProvider, CommonTypeOK, NoPlan
<1>4. CASE run = NoRun
  BY <1>1, <1>2, <1>3, <1>4 DEF StopProvider, CommonTypeOK, Removed, Added
<1>5. ASSUME run # NoRun, Abandon PROVE CommonTypeOK'
  BY <1>1, <1>2, <1>3, <1>5, AbandonTrouble, EndTypes DEF CommonTypeOK
<1>6. QED
  BY <1>4, <1>5 DEF StopProvider

LEMMA NextTypeOK == CommonTypeOK /\ [CommonNext]_vars => CommonTypeOK'
<1> SUFFICES ASSUME CommonTypeOK, [CommonNext]_vars PROVE CommonTypeOK'
  OBVIOUS
<1>1. CASE AnyApply
  BY <1>1, ApplyTypeOK
<1>2. CASE ProviderLost
  BY <1>2 DEF ProviderLost, CommonTypeOK, Fresh, ProviderType, databaseVars,
              resourceVars, historyVars, Removed, Added
<1>3. CASE UNCHANGED vars
  BY <1>3 DEF vars, CommonTypeOK, Removed, Added
<1>4. QED
  BY <1>1, <1>2, <1>3, EditTypeOK, ConfigureTypeOK, PlanTypeOK, RunStepTypeOK, StopTypeOK
     DEF CommonNext

(* Every variable keeps its type, for all migrations, URLs, configurations    *)
(* and faults and for whatever lists the plans hand in.                       *)
THEOREM CommonTypes == CommonSpec => []CommonTypeOK
<1>1. QED
  BY InitTypeOK, NextTypeOK, PTL DEF CommonSpec
=============================================================================
