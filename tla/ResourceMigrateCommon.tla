------------------------ MODULE ResourceMigrateCommon ------------------------
(* The life of one migration resource: resourceMigrateCommon's Create, Update *)
(* and Destroy behind the server's PlanResourceChange and ApplyResourceChange, *)
(* one SQL statement a step, with Terraform core around them: it keeps the     *)
(* state, plans again before it applies, and calls nothing for a plan without  *)
(* a difference.                                                               *)
(*                                                                             *)
(* What the two resource types do differently comes in as parameters: `list`,  *)
(* the migrations the configuration stands for now; `known`, whether they are  *)
(* known at plan time; `valid`, whether the type's Validate accepts them.      *)
EXTENDS Database

VARIABLES
    conf,  \* the resource block of the configuration: [exists, url]
    state, \* the resource in Terraform's state: [exists, url, complete]
    plan,  \* the pending planned change: [action, known, list, agreed]; agreed
           \* is TRUE when the second plan, made by the apply command, confirmed
           \* it and ApplyResourceChange is the next call
    run,   \* the ApplyResourceChange call being served
    home,    \* history: where the last run that started executed statements
    trouble  \* history: the departures met so far, see Kinds

resourceVars == <<conf, state, plan, run>>
historyVars == <<home, trouble>>
vars == <<schema, faults, provider, conf, state, plan, run, home, trouble>>

(* edited:    a planned migration's id is recorded with another text          *)
(* moved:     an update or destroy executes at another URL than the run before *)
(* swallowed: Up returned nil although a down statement failed                 *)
(* torn:      a run ended unrecorded and had removed a recorded object         *)
(* leaked:    a run ended unrecorded and had created a planned object          *)
(* one-sided: a run started that removes or adds a migration of which one     *)
(*            statement is empty                                               *)
Kinds == {"edited", "moved", "swallowed", "torn", "leaked", "one-sided"}

(* What the url attribute of a resource can be set to. *)
ConfigUrl == Url \cup {NoUrl, BadUrl}

Absent == [exists |-> FALSE, url |-> NoUrl, complete |-> <<>>]
NoPlan == [action |-> "none", known |-> TRUE, list |-> <<>>, agreed |-> FALSE]
NoRun  == [op |-> "none", url |-> NoUrl, planned |-> Absent,
           downs |-> {}, ups |-> {}]

CommonInit ==
    /\ schema = [u \in Url |-> {}] /\ faults = 0
    /\ provider = Fresh
    /\ conf = [exists |-> FALSE, url |-> NoUrl]
    /\ state = Absent /\ plan = NoPlan /\ run = NoRun
    /\ home = NoUrl /\ trouble = {}

(* The new state a plan proposes. url is optional and computed: left out of   *)
(* the configuration, the recorded one is proposed again.                     *)
Planned(list) ==
    [exists |-> TRUE,
     url |-> IF conf.url = NoUrl THEN state.url ELSE conf.url,
     complete |-> list]

(* Broken variants: an update that never migrates down, one that migrates     *)
(* everything down, and one that runs every planned migration again.          *)
RemovedNever(prior, planned) ==
    IF planned.exists THEN {} ELSE DOMAIN prior.complete
RemovedAll(prior, planned) == DOMAIN prior.complete
AddedAll(prior, planned) == DOMAIN planned.complete

(* The positions of the running call's planned and prior lists to execute.    *)
Removed(prior, planned) == Subtract(prior.complete, planned.complete)
Added(prior, planned)   == Subtract(planned.complete, prior.complete)

---------------------------------------------------------------------------
(* No apply command is under way: Terraform core configures the provider and  *)
(* reads the configuration before it starts one, not during it.               *)
NoApply == run = NoRun /\ ~plan.agreed

(* A new configuration; it leaves a saved plan behind. *)
Edit(c) ==
    /\ NoApply
    /\ conf' = c /\ plan' = NoPlan
    /\ UNCHANGED <<databaseVars, provider, state, run, historyVars>>

ConfigureProvider(c) ==
    /\ NoApply
    /\ Configure(c)
    /\ UNCHANGED <<databaseVars, resourceVars, historyVars>>

(* Planning. A destroy is planned without a look at the configuration; a      *)
(* rejected configuration and a plan equal to the state leave nothing behind. *)
PlanDestroy ==
    /\ NoApply /\ provider.configured
    /\ ~conf.exists /\ state.exists
    /\ plan' = [action |-> "destroy", known |-> TRUE, list |-> <<>>, agreed |-> FALSE]
    /\ UNCHANGED <<databaseVars, provider, conf, state, run, historyVars>>

PlanChange(list, known, valid) ==
    /\ NoApply /\ provider.configured
    /\ conf.exists
    /\ known => valid /\ Planned(list) # state
    /\ plan' = [action |-> IF state.exists THEN "update" ELSE "create",
                known |-> known, list |-> IF known THEN list ELSE <<>>,
                agreed |-> FALSE]
    /\ UNCHANGED <<databaseVars, provider, conf, state, run, historyVars>>

---------------------------------------------------------------------------
(* The URL attribute GetExecer is called with. *)
ExecerUrl == IF plan.action = "destroy" THEN state.url ELSE conf.url

Target == IF plan.action = "destroy" THEN Absent ELSE Planned(plan.list)

(* Of a removed or an added migration one statement does nothing.             *)
OneSided(planned) ==
    \/ \E i \in Removed(state, planned) : state.complete[i].rev \in NoUp \cup NoDown
    \/ \E j \in Added(state, planned) : planned.complete[j].rev \in NoUp \cup NoDown

(* What the history says of a run about to start.                             *)
Departures(url, planned) ==
    {k \in {"edited", "moved", "one-sided"} :
        \/ /\ k = "edited"
           /\ \E i \in DOMAIN state.complete, j \in DOMAIN planned.complete :
                 /\ state.complete[i].id = planned.complete[j].id
                 /\ state.complete[i] # planned.complete[j]
        \/ k = "moved" /\ state.exists /\ home # url
        \/ k = "one-sided" /\ OneSided(planned)}

(* Broken variant: the blocks are not validated again when they are known.    *)
ConfirmsUnchecked(list, valid) ==
    (plan.known => plan.list = list) /\ Planned(list) # state

(* Terraform plans a create or an update once more before it applies and       *)
(* gives up when Validate objects, when the new plan contradicts the saved     *)
(* one, and when it has nothing left to change.                                *)
Confirms(list, valid) ==
    valid /\ (plan.known => plan.list = list) /\ Planned(list) # state

Replan(list, valid) ==
    /\ NoApply /\ provider.configured
    /\ plan.action \in {"create", "update"} /\ Confirms(list, valid)
    /\ plan' = [plan EXCEPT !.list = list, !.agreed = TRUE]
    /\ UNCHANGED <<databaseVars, provider, conf, state, run, historyVars>>

ReplanRejected(list, valid) ==
    /\ NoApply /\ provider.configured
    /\ plan.action \in {"create", "update"} /\ ~Confirms(list, valid)
    /\ plan' = NoPlan
    /\ UNCHANGED <<databaseVars, provider, conf, state, run, historyVars>>

(* The call is made: a destroy from the state alone, the others with the      *)
(* second plan. Validate sees the configuration the second plan saw, and       *)
(* answers the same.                                                          *)
Applicable == plan.action = "destroy" \/ plan.agreed

(* The call gets no connection: no usable URL, or nobody answers the ping.    *)
ApplyUnconnected ==
    /\ run = NoRun /\ provider.configured
    /\ Applicable
    /\ \/ ~Connectable(ExecerUrl) /\ UNCHANGED faults
       \/ Connectable(ExecerUrl) /\ Fault("ping")
    /\ plan' = NoPlan
    /\ UNCHANGED <<schema, provider, conf, state, run, historyVars>>

ApplyStarts ==
    /\ run = NoRun /\ provider.configured
    /\ Applicable
    /\ Connectable(ExecerUrl)
    /\ run' = [op |-> plan.action, url |-> Resolve(ExecerUrl), planned |-> Target,
               downs |-> Removed(state, Target), ups |-> Added(state, Target)]
    /\ plan' = NoPlan
    /\ home' = Resolve(ExecerUrl)
    /\ trouble' = trouble \cup Departures(Resolve(ExecerUrl), Target)
    /\ UNCHANGED <<databaseVars, provider, conf, state>>

---------------------------------------------------------------------------
(* The difference the interrupted call leaves in its database.                *)
Torn(db) ==
    \E i \in Removed(state, run.planned) : ~InEffect(state.complete[i], db)
Leaked(db) ==
    \E i \in Added(state, run.planned) : run.planned.complete[i] \in db
Remains(db) ==
    {k \in {"torn", "leaked"} :
        (k = "torn" /\ Torn(db)) \/ (k = "leaked" /\ Leaked(db))}

(* The call returns its error: Terraform keeps the prior state.               *)
Abandon ==
    /\ run' = NoRun /\ UNCHANGED state
    /\ trouble' = trouble \cup Remains(schema'[run.url])

(* Broken variant: the call answers the prior state.                          *)
RecordPrior == run' = NoRun /\ UNCHANGED state

(* The call answers the new state: the planned one, or null for a destroy.    *)
Record == run' = NoRun /\ state' = run.planned

RunDownOk(i) ==
    /\ IsNextDown(i, run.downs)
    /\ ExecSucceeds(run.url, state.complete[i], FALSE)
    /\ run' = [run EXCEPT !.downs = @ \ {i}]
    /\ UNCHANGED <<provider, conf, state, plan, historyVars>>

(* Broken variant: the error of a destroy is lost like that of an update.     *)
RunDownFailsSilently(i) ==
    /\ IsNextDown(i, run.downs)
    /\ ExecFails(run.url, state.complete[i], FALSE)
    /\ Record
    /\ trouble' = IF run.op = "destroy" THEN trouble ELSE trouble \cup {"swallowed"}
    /\ UNCHANGED <<provider, conf, plan, home>>

(* A failing down statement ends a destroy with its error, and ends an update *)
(* as if it had worked: Up returns nil, no up statement runs, and the planned *)
(* list is recorded.                                                          *)
RunDownFails(i) ==
    /\ IsNextDown(i, run.downs)
    /\ ExecFails(run.url, state.complete[i], FALSE)
    /\ \/ run.op = "destroy" /\ Abandon
       \/ /\ run.op # "destroy" /\ Record
          /\ trouble' = trouble \cup {"swallowed"}
    /\ UNCHANGED <<provider, conf, plan, home>>

RunUpOk(i) ==
    /\ run.downs = {} /\ IsNextUp(i, run.ups)
    /\ ExecSucceeds(run.url, run.planned.complete[i], TRUE)
    /\ run' = [run EXCEPT !.ups = @ \ {i}]
    /\ UNCHANGED <<provider, conf, state, plan, historyVars>>

(* Broken variant: Up returns nil for a failed up statement too.              *)
RunUpFailsSilently(i) ==
    /\ run.downs = {} /\ IsNextUp(i, run.ups)
    /\ ExecFails(run.url, run.planned.complete[i], TRUE)
    /\ Record
    /\ UNCHANGED <<provider, conf, plan, historyVars>>

RunUpFails(i) ==
    /\ run.downs = {} /\ IsNextUp(i, run.ups)
    /\ ExecFails(run.url, run.planned.complete[i], TRUE)
    /\ Abandon
    /\ UNCHANGED <<provider, conf, plan, home>>

Finish ==
    /\ run # NoRun /\ run.downs = {} /\ run.ups = {}
    /\ Record
    /\ UNCHANGED <<databaseVars, provider, conf, plan, historyVars>>

(* Broken variant: the planned state is recorded when the call is cut short.  *)
StopProviderRecords ==
    /\ Fault("stop")
    /\ provider' = Fresh
    /\ plan' = IF plan.agreed THEN NoPlan ELSE plan
    /\ UNCHANGED <<schema, conf, historyVars>>
    /\ \/ run = NoRun /\ UNCHANGED <<run, state>>
       \/ run # NoRun /\ Record

(* StopProvider panics: the plugin process is gone, whatever it was doing,    *)
(* and an apply command with it.                                              *)
StopProvider ==
    /\ Fault("stop")
    /\ provider' = Fresh
    /\ plan' = IF plan.agreed THEN NoPlan ELSE plan
    /\ UNCHANGED <<schema, conf, home>>
    /\ \/ run = NoRun /\ UNCHANGED <<run, state, trouble>>
       \/ run # NoRun /\ Abandon

RunStep ==
    \/ \E i \in run.downs : RunDownOk(i) \/ RunDownFails(i)
    \/ \E i \in run.ups : RunUpOk(i) \/ RunUpFails(i)
    \/ Finish

---------------------------------------------------------------------------
RunType ==
    [op : {"none", "create", "update", "destroy"}, url : Url \cup {NoUrl},
     planned : [exists : BOOLEAN, url : Url \cup {NoUrl}, complete : Seq(Migration)],
     downs : SUBSET Nat, ups : SUBSET Nat]

(* Every variable keeps its type. What a run shall still execute are          *)
(* positions of the prior and of the planned list, a run goes on at a URL     *)
(* that parsed, and a URL that did not parse is never recorded.               *)
CommonTypeOK ==
    /\ schema \in [Url -> SUBSET Migration]
    /\ faults \in 0..MaxFaults
    /\ provider \in ProviderType
    /\ conf \in [exists : BOOLEAN, url : ConfigUrl]
    /\ state \in [exists : BOOLEAN, url : Url \cup {NoUrl},
                  complete : Seq(Migration)]
    /\ state.exists \/ state = Absent
    /\ plan \in [action : {"none", "create", "update", "destroy"},
                 known : BOOLEAN, list : Seq(Migration), agreed : BOOLEAN]
    /\ plan.agreed => plan.action \in {"create", "update"}
    /\ run \in RunType
    /\ run = NoRun \/ (run.op # "none" /\ run.url \in Url)
    /\ run.planned.exists \/ run.planned = Absent
    /\ run.downs \subseteq Removed(state, run.planned)
    /\ run.ups \subseteq Added(state, run.planned)
    /\ home \in Url \cup {NoUrl}
    /\ trouble \subseteq Kinds

---------------------------------------------------------------------------
(* What a migration resource of either type promises.                          *)
Idle == run = NoRun

(* What the documentation says of complete_migrations.                        *)
RunAgainstDatabase ==
    \A i \in DOMAIN state.complete : InEffect(state.complete[i], schema[home])

(* Every migration recorded as complete is in effect in the database the last *)
(* run used: the promise of complete_migrations (resource_migrate_common.go:16) *)
(* across failed, refused, half-answered and killed runs. The exceptions are  *)
(* the departures in which the code gives the promise up.                     *)
RecordedHasRun ==
    Idle /\ trouble \cap {"edited", "moved", "swallowed", "torn"} = {} =>
        RunAgainstDatabase

(* Conversely nothing is in effect that is not recorded, in any database: a   *)
(* clean history of creates, updates and destroys leaves no object behind.    *)
NothingUnrecorded ==
    Idle /\ trouble = {} =>
        \A u \in Url : \A m \in schema[u] :
            u = home /\ \E i \in DOMAIN state.complete : state.complete[i] = m

(* What a migration refers to comes before it in its list.                     *)
Ordered(list) ==
    \A i \in DOMAIN list : \A n \in Migration :
        <<list[i], n>> \in Needs => \E k \in DOMAIN list : k < i /\ list[k] = n

(* In a clean history with ordered lists the database never refuses a          *)
(* statement: each up finds its object missing and what it refers to in place, *)
(* each down finds its object and nothing that refers to it, at whatever       *)
(* statement the run is, whatever runs were abandoned before it.               *)
NoStatementRefused ==
    /\ trouble = {}
    /\ \A list \in {state.complete, run.planned.complete} : DistinctIds(list) /\ Ordered(list)
    =>
        /\ \A i \in run.ups : run.downs = {} /\ IsNextUp(i, run.ups) =>
              ~Refuses(run.url, run.planned.complete[i], TRUE)
        /\ \A i \in run.downs : IsNextDown(i, run.downs) =>
              ~Refuses(run.url, state.complete[i], FALSE)

TouchDifference ==
    \A u \in Url :
        /\ \A m \in schema'[u] \ schema[u] :
              /\ m.id \notin IdsOf(state.complete)
              /\ \E j \in DOMAIN run.planned.complete : run.planned.complete[j] = m
        /\ \A m \in schema[u] \ schema'[u] :
              /\ m.id \notin IdsOf(run.planned.complete)
              /\ \E i \in DOMAIN state.complete : state.complete[i] = m

(* Statements touch the difference and nothing else: what appears was planned *)
(* and not recorded under its id, what disappears was recorded and is planned *)
(* no more. An edited, a kept or a foreign migration is never executed.       *)
OnlyDifference == [][TouchDifference]_vars

CreateInOrder ==
    \A u \in Url : \A m \in schema'[u] \ schema[u] :
        /\ \A i \in Removed(state, run.planned) :
              Undone(state.complete[i], schema[u])
        /\ \E j \in DOMAIN run.planned.complete :
              /\ run.planned.complete[j] = m
              /\ \A k \in Added(state, run.planned) :
                    k < j => InEffect(run.planned.complete[k], schema[u])

(* An object appears only after every removed migration is gone and every     *)
(* earlier new migration of the list is in place, even right after runs that  *)
(* were abandoned halfway.                                                    *)
UpsInOrder == [][CreateInOrder]_vars

DropInReverse ==
    \A u \in Url : \A m \in schema[u] \ schema'[u] :
        \E i \in Removed(state, run.planned) :
           /\ state.complete[i] = m
           /\ \A k \in Removed(state, run.planned) :
                 k > i => Undone(state.complete[k], schema'[u])

(* An object disappears only after every removed migration that was listed    *)
(* behind it is gone.                                                         *)
DownsInReverse == [][DropInReverse]_vars

---------------------------------------------------------------------------
(* The ledger the resource keeps: the state is what is on record, in the       *)
(* database of the last run; a departure is the cause of each doubt.           *)
Recorded ==
    {<<home, state.complete[i]>> :
        i \in {k \in DOMAIN state.complete : ~Empty(state.complete[k], TRUE)}}
InPlace == UNION {{<<u, m>> : m \in schema[u]} : u \in Url}
Doubted ==
    {d \in {"missing", "extra"} :
        \/ d = "missing" /\ trouble \cap {"edited", "moved", "swallowed", "torn"} # {}
        \/ d = "extra" /\ trouble # {}}

Book == INSTANCE Ledger WITH
    Entry <- Url \X Migration, ledger <- Recorded, real <- InPlace,
    open <- run # NoRun, doubt <- Doubted

(* The resource implements the ledger: every step of planning, applying,       *)
(* failing and dying is a step of the ledger or none of its business.          *)
ImplementsLedger == Book!LedgerSpec
=============================================================================
