--------------------- MODULE ResourceMigrateCommonProofs ---------------------
(* What CommonSpec promises of records, statements and leftovers, proved from *)
(* three inductive invariants: ProgressInv, how far a run has come in its     *)
(* database; RecordInv, that the rest of the record stays in effect; CleanInv, *)
(* that everything in effect is accounted for.                                *)
EXTENDS ResourceMigrateTypes

---------------------------------------------------------------------------
(* Part 1. Steps.                                                             *)

(* Editing, configuring, planning and a rejected apply touch nothing that the *)
(* invariants speak about.                                                    *)
Quiet == UNCHANGED <<schema, state, run, home, trouble>>

LEMMA Steps ==
  ASSUME [CommonNext]_vars
  PROVE  \/ Quiet
         \/ ApplyStarts
         \/ \E i \in run.downs : RunDownOk(i) \/ RunDownFails(i)
         \/ \E i \in run.ups : RunUpOk(i) \/ RunUpFails(i)
         \/ Finish
         \/ StopProvider
<1>1. ASSUME NEW c, Edit(c) PROVE Quiet
  BY <1>1 DEF Edit, Quiet, databaseVars, historyVars
<1>2. ASSUME NEW c, ConfigureProvider(c) PROVE Quiet
  BY <1>2 DEF ConfigureProvider, Quiet, databaseVars, resourceVars, historyVars
<1>3. ASSUME AnyPlan PROVE Quiet
  BY <1>3 DEF AnyPlan, PlanDestroy, PlanChange, Quiet, databaseVars, historyVars
<1>4. ASSUME AnyApply
      PROVE  Quiet \/ ApplyStarts
  BY <1>4 DEF AnyApply, AnyReplan, Replan, ReplanRejected, ApplyUnconnected, Quiet,
              databaseVars, historyVars
<1>5. ASSUME UNCHANGED vars PROVE Quiet
  BY <1>5 DEF vars, Quiet
<1>6. ASSUME ProviderLost PROVE Quiet
  BY <1>6 DEF ProviderLost, Quiet, databaseVars, resourceVars, historyVars
<1>7. QED
  BY <1>1, <1>2, <1>3, <1>4, <1>5, <1>6 DEF CommonNext, RunStep

(* What the start of a run fixes.                                             *)
LEMMA Starting ==
  ASSUME CommonTypeOK, ApplyStarts
  PROVE  /\ UNCHANGED <<schema, state>> /\ run = NoRun /\ run' # NoRun
         /\ home' = run'.url
         /\ run'.downs = Removed(state, run'.planned)
         /\ run'.ups = Added(state, run'.planned)
         /\ trouble' = trouble \cup Departures(run'.url, run'.planned)
<1> DEFINE target == Target
           url == Resolve(ExecerUrl)
<1>1. /\ UNCHANGED <<schema, state>> /\ home' = url
      /\ run' = [op |-> plan.action, url |-> url, planned |-> target,
                 downs |-> Removed(state, target), ups |-> Added(state, target)]
      /\ run = NoRun /\ run' # NoRun
      /\ trouble' = trouble \cup Departures(url, target)
  BY DEF ApplyStarts, Applicable, CommonTypeOK, databaseVars, NoRun
<1> HIDE DEF target, url
<1>2. QED
  BY <1>1

(* Subtract compares ids: a kept position has its id in the other list.       *)
LEMMA KeptId ==
  ASSUME NEW x, NEW y, NEW i \in DOMAIN x \ Subtract(x, y)
  PROVE  \E j \in DOMAIN y : x[i].id = y[j].id
  BY DEF Subtract, IdsOf

LEMMA RemovedId ==
  ASSUME NEW x, NEW y, NEW i \in Subtract(x, y)
  PROVE  /\ i \in DOMAIN x
         /\ \A j \in DOMAIN y : x[i].id # y[j].id
         /\ \A k \in DOMAIN x \ Subtract(x, y) : x[k] # x[i]
         /\ x[i].id \notin IdsOf(y)
  BY DEF Subtract, IdsOf

(* What a statement may do to the databases.                                  *)
LEMMA DownEffect ==
  ASSUME CommonTypeOK, NEW u \in Url, NEW m,
         ExecSucceeds(u, m, FALSE) \/ ExecFails(u, m, FALSE)
  PROVE  /\ schema[u] \ {m} \subseteq schema'[u] /\ schema'[u] \subseteq schema[u]
         /\ \A v \in Url \ {u} : schema'[v] = schema[v]
         /\ ExecSucceeds(u, m, FALSE) => Undone(m, schema'[u])
<1>1. /\ Effect(u, m, FALSE) =>
            \/ Empty(m, FALSE) /\ schema' = schema
            \/ schema' = [schema EXCEPT ![u] = @ \ {m}]
      /\ schema \in [Url -> SUBSET Migration]
  BY DEF Effect, CommonTypeOK
<1>2. /\ schema' = schema \/ schema' = [schema EXCEPT ![u] = @ \ {m}]
      /\ ExecSucceeds(u, m, FALSE) =>
            Empty(m, FALSE) \/ schema' = [schema EXCEPT ![u] = @ \ {m}]
  BY <1>1 DEF ExecSucceeds, ExecFails, databaseVars
<1>3. QED
  BY <1>1, <1>2 DEF Undone

LEMMA UpEffect ==
  ASSUME CommonTypeOK, NEW u \in Url, NEW m,
         ExecSucceeds(u, m, TRUE) \/ ExecFails(u, m, TRUE)
  PROVE  /\ schema[u] \subseteq schema'[u] /\ schema'[u] \subseteq schema[u] \cup {m}
         /\ Empty(m, TRUE) => schema' = schema
         /\ \A v \in Url \ {u} : schema'[v] = schema[v]
         /\ ExecSucceeds(u, m, TRUE) => InEffect(m, schema'[u])
<1>1. /\ Effect(u, m, TRUE) =>
            \/ Empty(m, TRUE) /\ schema' = schema
            \/ ~Empty(m, TRUE) /\ schema' = [schema EXCEPT ![u] = @ \cup {m}]
      /\ schema \in [Url -> SUBSET Migration]
  BY DEF Effect, CommonTypeOK
<1>2. /\ \/ schema' = schema
         \/ ~Empty(m, TRUE) /\ schema' = [schema EXCEPT ![u] = @ \cup {m}]
      /\ ExecSucceeds(u, m, TRUE) =>
            Empty(m, TRUE) \/ schema' = [schema EXCEPT ![u] = @ \cup {m}]
  BY <1>1 DEF ExecSucceeds, ExecFails, databaseVars
<1>3. QED
  BY <1>1, <1>2 DEF InEffect

(* A down step of the running call: which statement, and what it may change.  *)
LEMMA DownStep ==
  ASSUME CommonTypeOK, NEW i \in run.downs, RunDownOk(i) \/ RunDownFails(i)
  PROVE  /\ run # NoRun /\ run.url \in Url /\ i \in Removed(state, run.planned)
         /\ home' = home /\ \A k \in run.downs : k <= i
         /\ schema[run.url] \ {state.complete[i]} \subseteq schema'[run.url]
         /\ schema'[run.url] \subseteq schema[run.url]
         /\ \A v \in Url \ {run.url} : schema'[v] = schema[v]
         /\ RunDownOk(i) => Undone(state.complete[i], schema'[run.url])
<1> DEFINE m == state.complete[i]
<1>1. run # NoRun
  BY DEF NoRun
<1>2. run.url \in Url /\ i \in Removed(state, run.planned)
  BY <1>1 DEF CommonTypeOK
<1>3. /\ ExecSucceeds(run.url, m, FALSE) \/ ExecFails(run.url, m, FALSE)
      /\ RunDownOk(i) => ExecSucceeds(run.url, m, FALSE)
      /\ home' = home /\ IsNextDown(i, run.downs)
  BY DEF RunDownOk, RunDownFails, historyVars
<1> HIDE DEF m
<1>4. /\ schema[run.url] \ {m} \subseteq schema'[run.url]
      /\ schema'[run.url] \subseteq schema[run.url]
      /\ \A v \in Url \ {run.url} : schema'[v] = schema[v]
      /\ RunDownOk(i) => Undone(m, schema'[run.url])
  BY <1>2, <1>3, DownEffect
<1>5. QED
  BY <1>1, <1>2, <1>3, <1>4 DEF m, IsNextDown

LEMMA UpStep ==
  ASSUME CommonTypeOK, NEW i \in run.ups, RunUpOk(i) \/ RunUpFails(i)
  PROVE  /\ run # NoRun /\ run.url \in Url /\ i \in Added(state, run.planned)
         /\ home' = home /\ run.downs = {} /\ \A k \in run.ups : i <= k
         /\ schema[run.url] \subseteq schema'[run.url]
         /\ schema'[run.url] \subseteq schema[run.url] \cup {run.planned.complete[i]}
         /\ Empty(run.planned.complete[i], TRUE) => schema' = schema
         /\ \A v \in Url \ {run.url} : schema'[v] = schema[v]
         /\ RunUpOk(i) => InEffect(run.planned.complete[i], schema'[run.url])
<1> DEFINE m == run.planned.complete[i]
<1>1. run # NoRun
  BY DEF NoRun
<1>2. run.url \in Url /\ i \in Added(state, run.planned)
  BY <1>1 DEF CommonTypeOK
<1>3. /\ ExecSucceeds(run.url, m, TRUE) \/ ExecFails(run.url, m, TRUE)
      /\ RunUpOk(i) => ExecSucceeds(run.url, m, TRUE)
      /\ home' = home /\ run.downs = {} /\ IsNextUp(i, run.ups)
  BY DEF RunUpOk, RunUpFails, historyVars
<1> HIDE DEF m
<1>4. /\ schema[run.url] \subseteq schema'[run.url]
      /\ schema'[run.url] \subseteq schema[run.url] \cup {m}
      /\ Empty(m, TRUE) => schema' = schema
      /\ \A v \in Url \ {run.url} : schema'[v] = schema[v]
      /\ RunUpOk(i) => InEffect(m, schema'[run.url])
  BY <1>2, <1>3, UpEffect
<1>5. QED
  BY <1>1, <1>2, <1>3, <1>4 DEF m, IsNextUp

(* What a successful statement leaves of the run.                             *)
LEMMA DownOk ==
  ASSUME CommonTypeOK, NEW i \in run.downs, RunDownOk(i)
  PROVE  /\ UNCHANGED <<state, trouble>> /\ run' # NoRun
         /\ run'.url = run.url /\ run'.planned = run.planned
         /\ run'.ups = run.ups /\ run'.downs = run.downs \ {i}
<1>1. /\ UNCHANGED <<state, trouble>> /\ run' = [run EXCEPT !.downs = @ \ {i}]
      /\ run \in RunType
  BY DEF RunDownOk, historyVars, CommonTypeOK
<1>2. /\ run'.url = run.url /\ run'.planned = run.planned /\ run'.ups = run.ups
      /\ run'.downs = run.downs \ {i} /\ run'.op = run.op
  BY <1>1 DEF RunType
<1>3. run.op # "none" /\ NoRun.op = "none"
  BY DownStep DEF CommonTypeOK, NoRun
<1>4. QED
  BY <1>1, <1>2, <1>3

LEMMA UpOk ==
  ASSUME CommonTypeOK, NEW i \in run.ups, RunUpOk(i)
  PROVE  /\ UNCHANGED <<state, trouble>> /\ run' # NoRun
         /\ run'.url = run.url /\ run'.planned = run.planned
         /\ run'.ups = run.ups \ {i} /\ run'.downs = run.downs
<1>1. /\ UNCHANGED <<state, trouble>> /\ run' = [run EXCEPT !.ups = @ \ {i}]
      /\ run \in RunType
  BY DEF RunUpOk, historyVars, CommonTypeOK
<1>2. /\ run'.url = run.url /\ run'.planned = run.planned /\ run'.ups = run.ups \ {i}
      /\ run'.downs = run.downs /\ run'.op = run.op
  BY <1>1 DEF RunType
<1>3. run.op # "none" /\ NoRun.op = "none"
  BY UpStep DEF CommonTypeOK, NoRun
<1>4. QED
  BY <1>1, <1>2, <1>3

(* How a run ends: by its answer, or with the process.                        *)
LEMMA Ends ==
  ASSUME run # NoRun,
         \/ \E i \in run.downs : RunDownFails(i)
         \/ \E i \in run.ups : RunUpFails(i)
         \/ Finish \/ StopProvider
  PROVE  /\ run' = NoRun /\ home' = home
         /\ \/ Abandon
            \/ state' = run.planned /\ trouble' = trouble \cup {"swallowed"}
            \/ Finish
  BY DEF RunDownFails, RunUpFails, Finish, StopProvider, Abandon, Record,
         databaseVars, historyVars

---------------------------------------------------------------------------
(* Part 2. How far a run has come. In the database it works on, the planned   *)
(* migrations it has executed are in effect, the recorded ones it has removed *)
(* are undone, and every down comes before the first up.                      *)
Done ==
    \A j \in Added(state, run.planned) \ run.ups :
        InEffect(run.planned.complete[j], schema[run.url])

Gone ==
    \A i \in Removed(state, run.planned) \ run.downs :
        Undone(state.complete[i], schema[run.url])

DownsFirst == run.downs # {} => run.ups = Added(state, run.planned)

ProgressInv == run # NoRun => home = run.url /\ DownsFirst /\ Done /\ Gone

LEMMA ProgressDown ==
  ASSUME CommonTypeOK, ProgressInv, NEW i \in run.downs, RunDownOk(i)
  PROVE  ProgressInv'
<1>1. /\ run # NoRun /\ home' = home
      /\ schema'[run.url] \subseteq schema[run.url]
      /\ Undone(state.complete[i], schema'[run.url])
  BY DownStep
<1>2. DownsFirst'
  BY <1>1, DownOk DEF ProgressInv, DownsFirst, Added
<1>3. Done'
  BY <1>1, DownOk DEF ProgressInv, DownsFirst, Done, Added
<1>4. Gone'
  <2> SUFFICES ASSUME NEW k \in Removed(state, run.planned) \ run.downs'
               PROVE  Undone(state.complete[k], schema'[run.url])
    BY DownOk DEF Gone, Removed
  <2>1. k = i \/ k \notin run.downs
    BY DownOk
  <2>2. QED
    BY <1>1, <2>1 DEF ProgressInv, Gone, Undone
<1>5. QED
  BY <1>1, <1>2, <1>3, <1>4, DownOk DEF ProgressInv

LEMMA ProgressUp ==
  ASSUME CommonTypeOK, ProgressInv, NEW i \in run.ups, RunUpOk(i)
  PROVE  ProgressInv'
<1> DEFINE m == run.planned.complete[i]
<1>1. /\ run # NoRun /\ home' = home /\ run.downs = {}
      /\ i \in Added(state, run.planned)
      /\ schema[run.url] \subseteq schema'[run.url]
      /\ schema'[run.url] \subseteq schema[run.url] \cup {m}
      /\ InEffect(m, schema'[run.url])
  BY UpStep
<1>2. DownsFirst'
  BY <1>1, UpOk DEF DownsFirst
<1>3. Done'
  <2> SUFFICES ASSUME NEW k \in Added(state, run.planned) \ run.ups'
               PROVE  InEffect(run.planned.complete[k], schema'[run.url])
    BY UpOk DEF Done, Added
  <2>1. k = i \/ k \notin run.ups
    BY UpOk
  <2>2. QED
    BY <1>1, <2>1 DEF ProgressInv, Done, InEffect
<1>4. Gone'
  <2> SUFFICES ASSUME NEW k \in Removed(state, run.planned)
               PROVE  Undone(state.complete[k], schema'[run.url])
    BY UpOk DEF Gone, Removed
  <2>1. Undone(state.complete[k], schema[run.url])
    BY <1>1 DEF ProgressInv, Gone
  <2>2. state.complete[k] # m
    BY <1>1, RemovedId DEF Removed, Added, Subtract
  <2>3. QED
    BY <1>1, <2>1, <2>2 DEF Undone
<1>5. QED
  BY <1>1, <1>2, <1>3, <1>4, UpOk DEF ProgressInv

LEMMA NextProgressInv ==
  CommonTypeOK /\ ProgressInv /\ [CommonNext]_vars => ProgressInv'
<1> SUFFICES ASSUME CommonTypeOK, ProgressInv, [CommonNext]_vars PROVE ProgressInv'
  OBVIOUS
<1>1. CASE Quiet
  BY <1>1 DEF Quiet, ProgressInv, DownsFirst, Done, Gone, Added, Removed
<1>2. ASSUME ApplyStarts PROVE ProgressInv'
  BY <1>2, Starting DEF ProgressInv, DownsFirst, Done, Gone, Added, Removed
<1>3. CASE run' = NoRun
  BY <1>3 DEF ProgressInv
<1>4. CASE StopProvider
  <2>1. run' = NoRun
    BY <1>4, Ends DEF StopProvider
  <2>2. QED
    BY <2>1 DEF ProgressInv
<1>5. ASSUME NEW i \in run.downs, RunDownFails(i) PROVE ProgressInv'
  BY <1>3, <1>5, Ends, DownStep
<1>6. ASSUME NEW i \in run.ups, RunUpFails(i) PROVE ProgressInv'
  BY <1>3, <1>6, Ends, UpStep
<1>7. CASE Finish
  BY <1>3, <1>7, Ends DEF Finish
<1>8. QED
  BY <1>1, <1>2, <1>4, <1>5, <1>6, <1>7, ProgressDown, ProgressUp, Steps

LEMMA Progress == CommonSpec => []ProgressInv
<1>1. CommonInit => ProgressInv
  BY DEF CommonInit, ProgressInv
<1>2. QED
  BY <1>1, NextProgressInv, CommonTypes, PTL DEF CommonSpec

---------------------------------------------------------------------------
(* Part 3. What the steps of a run touch.                                     *)

(* An object appears by the next up statement, with all downs done, and       *)
(* disappears by the next down statement.                                     *)
LEMMA Appears ==
  ASSUME CommonTypeOK, [CommonNext]_vars, NEW u \in Url, NEW m \in schema'[u] \ schema[u]
  PROVE  \E i \in run.ups :
            /\ RunUpOk(i) \/ RunUpFails(i)
            /\ u = run.url /\ m = run.planned.complete[i]
<1>1. schema' # schema
  OBVIOUS
<1>2. ~Quiet /\ ~Finish /\ ~StopProvider
  BY <1>1 DEF Quiet, Finish, StopProvider, databaseVars
<1>3. ASSUME ApplyStarts PROVE FALSE
  BY <1>1, <1>3, Starting
<1>4. ASSUME NEW i \in run.downs, RunDownOk(i) \/ RunDownFails(i) PROVE FALSE
  BY <1>4, DownStep
<1>5. PICK i \in run.ups : RunUpOk(i) \/ RunUpFails(i)
  BY <1>2, <1>3, <1>4, Steps
<1>6. QED
  BY <1>5, UpStep

LEMMA Disappears ==
  ASSUME CommonTypeOK, [CommonNext]_vars, NEW u \in Url, NEW m \in schema[u] \ schema'[u]
  PROVE  \E i \in run.downs :
            /\ RunDownOk(i) \/ RunDownFails(i)
            /\ u = run.url /\ m = state.complete[i]
<1>1. schema' # schema
  OBVIOUS
<1>2. ~Quiet /\ ~Finish /\ ~StopProvider
  BY <1>1 DEF Quiet, Finish, StopProvider, databaseVars
<1>3. ASSUME ApplyStarts PROVE FALSE
  BY <1>1, <1>3, Starting
<1>4. ASSUME NEW i \in run.ups, RunUpOk(i) \/ RunUpFails(i) PROVE FALSE
  BY <1>4, UpStep
<1>5. PICK i \in run.downs : RunDownOk(i) \/ RunDownFails(i)
  BY <1>2, <1>3, <1>4, Steps
<1>6. QED
  BY <1>5, DownStep

(* Only what a plan adds is created and only what it removes is dropped, for  *)
(* all lists, databases and faults: edited, kept and foreign objects are left *)
(* alone.                                                                     *)
THEOREM CommonDifference == CommonSpec => OnlyDifference
<1>1. ASSUME CommonTypeOK, [CommonNext]_vars PROVE TouchDifference
  <2> SUFFICES ASSUME NEW u \in Url
               PROVE  /\ \A m \in schema'[u] \ schema[u] :
                            /\ m.id \notin IdsOf(state.complete)
                            /\ \E j \in DOMAIN run.planned.complete :
                                  run.planned.complete[j] = m
                      /\ \A m \in schema[u] \ schema'[u] :
                            /\ m.id \notin IdsOf(run.planned.complete)
                            /\ \E i \in DOMAIN state.complete : state.complete[i] = m
    BY DEF TouchDifference
  <2>1. ASSUME NEW m \in schema'[u] \ schema[u]
        PROVE  /\ m.id \notin IdsOf(state.complete)
               /\ \E j \in DOMAIN run.planned.complete : run.planned.complete[j] = m
    <3>1. PICK i \in run.ups :
             (RunUpOk(i) \/ RunUpFails(i)) /\ m = run.planned.complete[i]
      BY <1>1, <2>1, Appears
    <3>2. i \in Added(state, run.planned)
      BY <1>1, <3>1, UpStep
    <3>3. QED
      BY <3>1, <3>2, RemovedId DEF Added
  <2>2. ASSUME NEW m \in schema[u] \ schema'[u]
        PROVE  /\ m.id \notin IdsOf(run.planned.complete)
               /\ \E i \in DOMAIN state.complete : state.complete[i] = m
    <3>1. PICK i \in run.downs :
             (RunDownOk(i) \/ RunDownFails(i)) /\ m = state.complete[i]
      BY <1>1, <2>2, Disappears
    <3>2. i \in Removed(state, run.planned)
      BY <1>1, <3>1, DownStep
    <3>3. QED
      BY <3>1, <3>2, RemovedId DEF Removed
  <2>3. QED
    BY <2>1, <2>2
<1>2. QED
  BY <1>1, CommonTypes, PTL DEF CommonSpec, OnlyDifference

(* An object appears only after every removed migration is gone and every     *)
(* earlier new one of the list is in place, however long the lists are.       *)
THEOREM CommonUpsInOrder == CommonSpec => UpsInOrder
<1>1. ASSUME CommonTypeOK, ProgressInv, [CommonNext]_vars PROVE CreateInOrder
  <2> SUFFICES ASSUME NEW u \in Url, NEW m \in schema'[u] \ schema[u]
               PROVE  /\ \A i \in Removed(state, run.planned) :
                            Undone(state.complete[i], schema[u])
                      /\ \E j \in DOMAIN run.planned.complete :
                            /\ run.planned.complete[j] = m
                            /\ \A k \in Added(state, run.planned) :
                                  k < j => InEffect(run.planned.complete[k], schema[u])
    BY DEF CreateInOrder
  <2>1. PICK j \in run.ups : /\ RunUpOk(j) \/ RunUpFails(j)
                             /\ u = run.url /\ m = run.planned.complete[j]
    BY <1>1, Appears
  <2>2. /\ run # NoRun /\ run.downs = {} /\ j \in Added(state, run.planned)
        /\ \A k \in run.ups : j <= k
    BY <1>1, <2>1, UpStep
  <2>3. Done /\ Gone
    BY <1>1, <2>2 DEF ProgressInv
  <2>4. j \in DOMAIN run.planned.complete
    BY <2>2, SubtractDomain DEF Added
  <2>5. \A k \in Added(state, run.planned) : k \in Nat /\ j \in Nat
    BY <1>1, <2>2, SubtractDomain DEF Added, CommonTypeOK, RunType
  <2>6. \A k \in Added(state, run.planned) : k < j => k \notin run.ups
    BY <2>2, <2>5
  <2>7. QED
    BY <2>1, <2>2, <2>3, <2>4, <2>6 DEF Done, Gone
<1>2. QED
  BY <1>1, CommonTypes, Progress, PTL DEF CommonSpec, UpsInOrder

(* An object disappears only after every removed migration listed behind it.  *)
THEOREM CommonDownsInReverse == CommonSpec => DownsInReverse
<1>1. ASSUME CommonTypeOK, ProgressInv, [CommonNext]_vars PROVE DropInReverse
  <2> SUFFICES ASSUME NEW u \in Url, NEW m \in schema[u] \ schema'[u]
               PROVE  \E i \in Removed(state, run.planned) :
                         /\ state.complete[i] = m
                         /\ \A k \in Removed(state, run.planned) :
                               k > i => Undone(state.complete[k], schema'[u])
    BY DEF DropInReverse
  <2>1. PICK i \in run.downs : /\ RunDownOk(i) \/ RunDownFails(i)
                               /\ u = run.url /\ m = state.complete[i]
    BY <1>1, Disappears
  <2>2. /\ run # NoRun /\ i \in Removed(state, run.planned)
        /\ \A k \in run.downs : k <= i
        /\ schema'[u] \subseteq schema[u]
    BY <1>1, <2>1, DownStep
  <2>3. Gone
    BY <1>1, <2>2 DEF ProgressInv
  <2>4. \A k \in Removed(state, run.planned) : k \in Nat /\ i \in Nat
    BY <1>1, <2>2, SubtractDomain DEF Removed, CommonTypeOK
  <2>5. \A k \in Removed(state, run.planned) : k > i => k \notin run.downs
    BY <2>2, <2>4
  <2>6. QED
    BY <2>1, <2>2, <2>3, <2>5 DEF Gone, Undone
<1>2. QED
  BY <1>1, CommonTypes, Progress, PTL DEF CommonSpec, DownsInReverse

---------------------------------------------------------------------------
(* Part 4. What is recorded has run.                                          *)
(*                                                                            *)
(* RecordedHasRun says nothing while a run is under way, so that it is not    *)
(* inductive. RecordInv adds what a run keeps: the migrations it leaves alone *)
(* stay in effect, and each of them is recorded as it is planned.             *)
Departed == trouble \cap {"edited", "moved", "swallowed", "torn"} # {}

KeptInEffect ==
    \A i \in DOMAIN state.complete \ Removed(state, run.planned) :
        InEffect(state.complete[i], schema[home])

KeptUnedited ==
    \A i \in DOMAIN state.complete, j \in DOMAIN run.planned.complete :
        state.complete[i].id = run.planned.complete[j].id =>
            state.complete[i] = run.planned.complete[j]

RecordInv ==
    /\ run = NoRun /\ ~Departed => RunAgainstDatabase
    /\ run # NoRun /\ ~Departed => KeptInEffect /\ KeptUnedited

LEMMA RecordStarts ==
  ASSUME CommonTypeOK, RecordInv, ApplyStarts
  PROVE  RecordInv'
<1>1. ASSUME ~Departed' PROVE KeptInEffect' /\ KeptUnedited'
  <2>1. ~Departed /\ RunAgainstDatabase
    BY <1>1, Starting DEF Departed, RecordInv
  <2>2. Departures(run'.url, run'.planned) \cap {"edited", "moved"} = {}
    BY <1>1, Starting DEF Departed
  <2>3. KeptUnedited'
    BY <2>2, Starting DEF KeptUnedited, Departures
  <2>4. CASE state.exists
    <3>1. home' = home
      BY <2>2, <2>4, Starting DEF Departures
    <3>2. QED
      BY <2>1, <2>3, <3>1, Starting DEF RunAgainstDatabase, KeptInEffect
  <2>5. CASE ~state.exists
    BY <2>3, <2>5, Starting DEF CommonTypeOK, Absent, KeptInEffect
  <2>6. QED
    BY <2>4, <2>5
<1>2. QED
  BY <1>1, Starting DEF RecordInv

(* No statement of a run undoes a migration that the run keeps.               *)
LEMMA StatementKeeps ==
  ASSUME CommonTypeOK, ProgressInv, KeptInEffect,
         \/ \E i \in run.downs : RunDownOk(i) \/ RunDownFails(i)
         \/ \E i \in run.ups : RunUpOk(i) \/ RunUpFails(i)
  PROVE  \A k \in DOMAIN state.complete \ Removed(state, run.planned) :
            InEffect(state.complete[k], schema'[home])
<1> SUFFICES ASSUME NEW k \in DOMAIN state.complete \ Removed(state, run.planned)
             PROVE  InEffect(state.complete[k], schema'[home])
  OBVIOUS
<1>1. InEffect(state.complete[k], schema[home])
  BY DEF KeptInEffect
<1>2. ASSUME NEW i \in run.downs, RunDownOk(i) \/ RunDownFails(i)
      PROVE  InEffect(state.complete[k], schema'[home])
  <2>1. /\ home = run.url /\ i \in Removed(state, run.planned)
        /\ schema[home] \ {state.complete[i]} \subseteq schema'[home]
    BY <1>2, DownStep DEF ProgressInv
  <2>2. state.complete[k] # state.complete[i]
    BY <2>1, RemovedId DEF Removed
  <2>3. QED
    BY <1>1, <2>1, <2>2 DEF InEffect
<1>3. ASSUME NEW i \in run.ups, RunUpOk(i) \/ RunUpFails(i)
      PROVE  InEffect(state.complete[k], schema'[home])
  <2>1. home = run.url /\ schema[home] \subseteq schema'[home]
    BY <1>3, UpStep DEF ProgressInv
  <2>2. QED
    BY <1>1, <2>1 DEF InEffect
<1>4. QED
  BY <1>2, <1>3

(* An abandoned run that is not known to be torn left every removed migration *)
(* in place, and what it keeps is in place anyway.                            *)
LEMMA RecordAbandons ==
  ASSUME CommonTypeOK, ProgressInv, RecordInv, run # NoRun, Abandon, UNCHANGED home,
         ~Departed => \A i \in DOMAIN state.complete \ Removed(state, run.planned) :
                         InEffect(state.complete[i], schema'[home])
  PROVE  RecordInv'
<1>1. run' = NoRun /\ state' = state /\ home = run.url
      /\ trouble' = trouble \cup Remains(schema'[run.url])
  BY DEF Abandon, ProgressInv
<1>2. ASSUME ~Departed' PROVE RunAgainstDatabase'
  <2>1. ~Departed /\ ~Torn(schema'[run.url])
    BY <1>1, <1>2 DEF Departed, Remains
  <2>2. \A i \in Removed(state, run.planned) : InEffect(state.complete[i], schema'[home])
    BY <1>1, <2>1 DEF Torn
  <2>3. QED
    BY <1>1, <2>1, <2>2 DEF RunAgainstDatabase
<1>3. QED
  BY <1>1, <1>2 DEF RecordInv

LEMMA RecordFinishes ==
  ASSUME CommonTypeOK, ProgressInv, RecordInv, Finish PROVE RecordInv'
<1>1. /\ run # NoRun /\ run.downs = {} /\ run.ups = {}
      /\ run' = NoRun /\ state' = run.planned /\ home = run.url
      /\ UNCHANGED <<schema, home, trouble>>
  BY DEF Finish, Record, databaseVars, historyVars, ProgressInv
<1>2. ASSUME ~Departed PROVE RunAgainstDatabase'
  <2> SUFFICES ASSUME NEW j \in DOMAIN run.planned.complete
               PROVE  InEffect(run.planned.complete[j], schema[home])
    BY <1>1 DEF RunAgainstDatabase
  <2>1. KeptInEffect /\ KeptUnedited /\ Done
    BY <1>1, <1>2 DEF RecordInv, ProgressInv
  <2>2. CASE j \in Added(state, run.planned)
    BY <1>1, <2>1, <2>2 DEF Done
  <2>3. CASE j \notin Added(state, run.planned)
    <3>1. PICK i \in DOMAIN state.complete :
             run.planned.complete[j].id = state.complete[i].id
      BY <2>3, KeptId DEF Added
    <3>2. i \notin Removed(state, run.planned)
      BY <3>1, RemovedId DEF Removed
    <3>3. QED
      BY <2>1, <3>1, <3>2 DEF KeptUnedited, KeptInEffect
  <2>4. QED
    BY <2>2, <2>3
<1>3. QED
  BY <1>1, <1>2 DEF RecordInv, Departed

LEMMA NextRecordInv ==
  CommonTypeOK /\ ProgressInv /\ RecordInv /\ [CommonNext]_vars => RecordInv'
<1> SUFFICES ASSUME CommonTypeOK, ProgressInv, RecordInv, [CommonNext]_vars
             PROVE  RecordInv'
  OBVIOUS
<1>1. CASE Quiet
  BY <1>1 DEF Quiet, RecordInv, Departed, KeptInEffect, KeptUnedited,
              RunAgainstDatabase, Removed
<1>2. ASSUME NEW i \in run.downs, RunDownOk(i) PROVE RecordInv'
  <2>1. run # NoRun /\ home' = home
    BY <1>2, DownStep
  <2>2. ASSUME ~Departed PROVE KeptInEffect' /\ KeptUnedited'
    BY <1>2, <2>1, <2>2, StatementKeeps, DownOk
       DEF RecordInv, KeptInEffect, KeptUnedited, Removed
  <2>3. QED
    BY <1>2, <2>1, <2>2, DownOk DEF RecordInv, Departed
<1>3. ASSUME NEW i \in run.ups, RunUpOk(i) PROVE RecordInv'
  <2>1. run # NoRun /\ home' = home
    BY <1>3, UpStep
  <2>2. ASSUME ~Departed PROVE KeptInEffect' /\ KeptUnedited'
    BY <1>3, <2>1, <2>2, StatementKeeps, UpOk
       DEF RecordInv, KeptInEffect, KeptUnedited, Removed
  <2>3. QED
    BY <1>3, <2>1, <2>2, UpOk DEF RecordInv, Departed
<1>4. ASSUME run' = NoRun, trouble' = trouble \cup {"swallowed"} PROVE RecordInv'
  BY <1>4 DEF RecordInv, Departed
<1>5. ASSUME NEW i \in run.downs, RunDownFails(i) PROVE RecordInv'
  <2>1. run # NoRun /\ home' = home
    BY <1>5, DownStep
  <2>2. CASE Abandon
    BY <1>5, <2>1, <2>2, StatementKeeps, RecordAbandons DEF RecordInv
  <2>3. CASE ~Abandon
    BY <1>4, <1>5, <2>3 DEF RunDownFails, Record
  <2>4. QED
    BY <2>2, <2>3
<1>6. ASSUME NEW i \in run.ups, RunUpFails(i) PROVE RecordInv'
  <2>1. run # NoRun /\ home' = home /\ Abandon
    BY <1>6, UpStep DEF RunUpFails
  <2>2. QED
    BY <1>6, <2>1, StatementKeeps, RecordAbandons DEF RecordInv
<1>7. CASE StopProvider
  <2>1. UNCHANGED <<schema, home>>
    BY <1>7 DEF StopProvider
  <2>2. CASE run = NoRun
    BY <1>7, <2>1, <2>2 DEF StopProvider, RecordInv, RunAgainstDatabase, Departed
  <2>3. CASE run # NoRun
    BY <1>7, <2>1, <2>3, RecordAbandons DEF StopProvider, RecordInv, KeptInEffect
  <2>4. QED
    BY <2>2, <2>3
<1>8. QED
  BY <1>1, <1>2, <1>3, <1>5, <1>6, <1>7, RecordStarts, RecordFinishes, Steps

LEMMA Records == CommonSpec => []RecordInv
<1>1. CommonInit => RecordInv
  BY DEF CommonInit, RecordInv, RunAgainstDatabase, Absent
<1>2. QED
  BY <1>1, NextRecordInv, CommonTypes, Progress, PTL DEF CommonSpec

(* What complete_migrations lists is in effect in the database of the last    *)
(* run, for all lists of migrations, URLs, configurations and faults, unless  *)
(* a migration was edited, the URL moved, a failing down was swallowed or a   *)
(* run was torn.                                                              *)
THEOREM CommonRecords == CommonSpec => []RecordedHasRun
<1>1. RecordInv => RecordedHasRun
  BY DEF RecordInv, RecordedHasRun, Departed, Idle
<1>2. QED
  BY <1>1, Records, PTL

---------------------------------------------------------------------------
(* Part 5. What is in effect is recorded.                                     *)
(*                                                                            *)
(* During a run every object is accounted for: it is recorded and not yet     *)
(* removed, or it is one the run has created.                                 *)
AccountedFor(m) ==
    \/ \E i \in DOMAIN state.complete :
          state.complete[i] = m /\ (i \in Removed(state, run.planned) => i \in run.downs)
    \/ \E j \in Added(state, run.planned) \ run.ups : run.planned.complete[j] = m

Accounted == \A u \in Url : \A m \in schema[u] : u = home /\ AccountedFor(m)

NothingElse ==
    \A u \in Url : \A m \in schema[u] :
        u = home /\ \E i \in DOMAIN state.complete : state.complete[i] = m

CleanInv ==
    trouble = {} =>
        /\ run = NoRun => NothingElse
        /\ run # NoRun => Accounted /\ ~OneSided(run.planned)

LEMMA CleanStarts ==
  ASSUME CommonTypeOK, CleanInv, ApplyStarts
  PROVE  CleanInv'
<1> SUFFICES ASSUME trouble' = {} PROVE Accounted' /\ ~OneSided(run.planned)'
  BY Starting DEF CleanInv
<1>1. NothingElse
  BY Starting DEF CleanInv
<1>2. Departures(run'.url, run'.planned) = {}
  BY Starting
<1>3. ~OneSided(run.planned)'
  <2>1. ~OneSided(run'.planned)
    BY <1>2 DEF Departures
  <2>2. QED
    BY <2>1, Starting DEF OneSided, Removed, Added
<1>4. Accounted'
  <2>1. CASE state.exists
    <3>1. home' = home
      BY <1>2, <2>1, Starting DEF Departures
    <3>2. QED
      BY <1>1, <3>1, Starting DEF NothingElse, Accounted, AccountedFor, Removed
  <2>2. CASE ~state.exists
    BY <1>1, <2>2, Starting DEF CommonTypeOK, Absent, NothingElse, Accounted
  <2>3. QED
    BY <2>1, <2>2
<1>5. QED
  BY <1>3, <1>4

LEMMA CleanDown ==
  ASSUME CommonTypeOK, ProgressInv, CleanInv, NEW i \in run.downs, RunDownOk(i)
  PROVE  CleanInv'
<1> SUFFICES ASSUME trouble = {} PROVE Accounted' /\ ~OneSided(run.planned)'
  BY DownOk DEF CleanInv
<1>1. Accounted /\ ~OneSided(run.planned)
  BY DownStep DEF CleanInv
<1>2. ~OneSided(run.planned)'
  BY <1>1, DownOk DEF OneSided, Removed, Added
<1>3. /\ home = run.url /\ home' = home /\ i \in Removed(state, run.planned)
      /\ \A u \in Url : schema'[u] \subseteq schema[u]
      /\ Undone(state.complete[i], schema'[home])
  BY DownStep DEF ProgressInv
<1>4. state.complete[i] \notin schema'[home]
  BY <1>1, <1>3 DEF Undone, Empty, OneSided
<1>5. ASSUME NEW u \in Url, NEW m \in schema'[u] PROVE u = home /\ AccountedFor(m)'
  <2>1. u = home /\ AccountedFor(m) /\ m # state.complete[i]
    BY <1>1, <1>3, <1>4, <1>5 DEF Accounted
  <2>2. QED
    BY <2>1, DownOk DEF AccountedFor, Removed, Added
<1>6. QED
  BY <1>2, <1>3, <1>5 DEF Accounted

LEMMA CleanUp ==
  ASSUME CommonTypeOK, ProgressInv, CleanInv, NEW i \in run.ups, RunUpOk(i)
  PROVE  CleanInv'
<1> SUFFICES ASSUME trouble = {} PROVE Accounted' /\ ~OneSided(run.planned)'
  BY UpOk DEF CleanInv
<1>1. Accounted /\ ~OneSided(run.planned)
  BY UpStep DEF CleanInv
<1>2. ~OneSided(run.planned)'
  BY <1>1, UpOk DEF OneSided, Removed, Added
<1>3. /\ home = run.url /\ home' = home /\ i \in Added(state, run.planned)
      /\ \A u \in Url : schema'[u] \subseteq schema[u]
                           \cup IF u = home THEN {run.planned.complete[i]} ELSE {}
  BY UpStep DEF ProgressInv
<1>4. ASSUME NEW u \in Url, NEW m \in schema'[u] PROVE u = home /\ AccountedFor(m)'
  <2>1. u = home /\ (AccountedFor(m) \/ m = run.planned.complete[i])
    BY <1>1, <1>3, <1>4 DEF Accounted
  <2>2. i \in Added(state, run.planned) \ run.ups'
    BY <1>3, UpOk
  <2>3. QED
    BY <2>1, <2>2, UpOk DEF AccountedFor, Removed, Added
<1>5. QED
  BY <1>2, <1>3, <1>4 DEF Accounted

(* An abandoned run that is not known to have leaked: what it could have      *)
(* created is not there.                                                      *)
LEMMA CleanAbandons ==
  ASSUME CommonTypeOK, ProgressInv, CleanInv, run # NoRun, Abandon, UNCHANGED home,
         \A u \in Url : schema'[u] \subseteq schema[u]
            \cup IF u = home THEN {run.planned.complete[j] : j \in Added(state, run.planned)}
                             ELSE {}
  PROVE  CleanInv'
<1>1. run' = NoRun /\ state' = state /\ home = run.url
      /\ trouble' = trouble \cup Remains(schema'[run.url])
  BY DEF Abandon, ProgressInv
<1> SUFFICES ASSUME trouble' = {} PROVE NothingElse'
  BY <1>1 DEF CleanInv
<1>2. Accounted /\ ~Leaked(schema'[home])
  BY <1>1 DEF CleanInv, Remains
<1>3. ASSUME NEW u \in Url, NEW m \in schema'[u]
      PROVE  u = home /\ \E i \in DOMAIN state.complete : state.complete[i] = m
  <2>1. u = home
    BY <1>2, <1>3 DEF Accounted
  <2>2. \A j \in Added(state, run.planned) : run.planned.complete[j] # m
    BY <1>2, <2>1 DEF Leaked
  <2>3. AccountedFor(m)
    BY <1>2, <1>3, <2>1, <2>2 DEF Accounted
  <2>4. QED
    BY <2>1, <2>2, <2>3 DEF AccountedFor
<1>4. QED
  BY <1>1, <1>3 DEF NothingElse

LEMMA CleanFinishes ==
  ASSUME CommonTypeOK, ProgressInv, RecordInv, CleanInv, Finish PROVE CleanInv'
<1>1. /\ run # NoRun /\ run.downs = {} /\ run.ups = {}
      /\ run' = NoRun /\ state' = run.planned
      /\ UNCHANGED <<schema, home, trouble>>
  BY DEF Finish, Record, databaseVars, historyVars
<1> SUFFICES ASSUME trouble = {} PROVE NothingElse'
  BY <1>1 DEF CleanInv
<1>2. Accounted /\ KeptUnedited
  BY <1>1 DEF CleanInv, RecordInv, Departed
<1>3. ASSUME NEW m, AccountedFor(m)
      PROVE  \E j \in DOMAIN run.planned.complete : run.planned.complete[j] = m
  <2>1. CASE \E j \in Added(state, run.planned) : run.planned.complete[j] = m
    BY <2>1, SubtractDomain DEF Added
  <2>2. ASSUME NEW i \in DOMAIN state.complete, state.complete[i] = m,
               i \notin Removed(state, run.planned)
        PROVE  \E j \in DOMAIN run.planned.complete : run.planned.complete[j] = m
    <3>1. PICK j \in DOMAIN run.planned.complete :
             state.complete[i].id = run.planned.complete[j].id
      BY <2>2, KeptId DEF Removed
    <3>2. QED
      BY <1>2, <2>2, <3>1 DEF KeptUnedited
  <2>3. QED
    BY <1>1, <1>3, <2>1, <2>2 DEF AccountedFor
<1>4. QED
  BY <1>1, <1>2, <1>3 DEF Accounted, NothingElse

LEMMA NextCleanInv ==
  CommonTypeOK /\ ProgressInv /\ RecordInv /\ CleanInv /\ [CommonNext]_vars => CleanInv'
<1> SUFFICES ASSUME CommonTypeOK, ProgressInv, RecordInv, CleanInv, [CommonNext]_vars
             PROVE  CleanInv'
  OBVIOUS
<1>1. CASE Quiet
  BY <1>1 DEF Quiet, CleanInv, NothingElse, Accounted, AccountedFor, OneSided,
              Removed, Added
<1>2. ASSUME run' = NoRun, trouble' = trouble \cup {"swallowed"} PROVE CleanInv'
  BY <1>2 DEF CleanInv
<1>3. ASSUME NEW i \in run.downs, RunDownFails(i) PROVE CleanInv'
  <2>1. run # NoRun /\ home' = home /\ \A u \in Url : schema'[u] \subseteq schema[u]
    BY <1>3, DownStep
  <2>2. CASE Abandon
    BY <2>1, <2>2, CleanAbandons
  <2>3. CASE ~Abandon
    BY <1>2, <1>3, <2>3 DEF RunDownFails, Record
  <2>4. QED
    BY <2>2, <2>3
<1>4. ASSUME NEW i \in run.ups, RunUpFails(i) PROVE CleanInv'
  <2>1. /\ run # NoRun /\ home' = home /\ Abandon /\ home = run.url
        /\ i \in Added(state, run.planned)
    BY <1>4, UpStep DEF RunUpFails, ProgressInv
  <2>2. \A u \in Url : schema'[u] \subseteq schema[u]
          \cup IF u = home THEN {run.planned.complete[i]} ELSE {}
    BY <1>4, <2>1, UpStep
  <2>3. QED
    BY <2>1, <2>2, CleanAbandons
<1>5. CASE StopProvider
  <2>1. UNCHANGED <<schema, home>>
    BY <1>5 DEF StopProvider
  <2>2. CASE run = NoRun
    BY <1>5, <2>1, <2>2 DEF StopProvider, CleanInv, NothingElse
  <2>3. CASE run # NoRun
    BY <1>5, <2>1, <2>3, CleanAbandons DEF StopProvider
  <2>4. QED
    BY <2>2, <2>3
<1>6. QED
  BY <1>1, <1>3, <1>4, <1>5, CleanStarts, CleanDown, CleanUp, CleanFinishes, Steps

LEMMA Clean == CommonSpec => []CleanInv
<1>1. CommonInit => CleanInv
  BY DEF CommonInit, CleanInv, NothingElse
<1>2. QED
  BY <1>1, NextCleanInv, CommonTypes, Progress, Records, PTL DEF CommonSpec

(* A history without departures leaves nothing behind that is not recorded,   *)
(* in any database, for all lists, URLs, configurations and faults.           *)
THEOREM CommonLeftovers == CommonSpec => []NothingUnrecorded
<1>1. CleanInv => NothingUnrecorded
  BY DEF CleanInv, NothingUnrecorded, NothingElse, Idle
<1>2. QED
  BY <1>1, Clean, PTL

---------------------------------------------------------------------------
(* Part 6. No statement is refused.                                           *)

(* What a clean run still has to remove is there: with distinct ids no other  *)
(* statement of the run can have removed it.                                  *)
PendingInv ==
    run # NoRun /\ trouble = {} /\ DistinctIds(state.complete) =>
        \A i \in run.downs : state.complete[i] \in schema[run.url]

LEMMA NextPendingInv ==
  /\ CommonTypeOK /\ ProgressInv /\ RecordInv /\ CleanInv /\ CleanInv' /\ PendingInv
  /\ [CommonNext]_vars
  => PendingInv'
<1> SUFFICES ASSUME CommonTypeOK, ProgressInv, RecordInv, CleanInv, CleanInv',
                    PendingInv, [CommonNext]_vars
             PROVE  PendingInv'
  OBVIOUS
<1>1. CASE Quiet
  BY <1>1 DEF Quiet, PendingInv, DistinctIds
<1>2. ASSUME ApplyStarts, trouble' = {},
             NEW i \in run'.downs
      PROVE  state.complete[i] \in schema'[run'.url]
  <2>1. trouble = {} /\ run = NoRun /\ run'.downs = Removed(state, run'.planned)
    BY <1>2, Starting
  <2>2. i \in DOMAIN state.complete
    BY <1>2, <2>1, SubtractDomain DEF Removed
  <2>3. home = run'.url
    <3>1. Departures(run'.url, run'.planned) = {}
      BY <1>2, Starting
    <3>2. state.exists
      BY <2>2 DEF CommonTypeOK, Absent
    <3>3. QED
      BY <3>1, <3>2 DEF Departures
  <2>4. InEffect(state.complete[i], schema[home])
    BY <2>1, <2>2 DEF RecordInv, Departed, RunAgainstDatabase
  <2>5. ~Empty(state.complete[i], TRUE)
    <3>1. ~OneSided(run'.planned)
      BY <1>2, Starting DEF CleanInv, OneSided, Removed, Added
    <3>2. QED
      BY <1>2, <2>1, <3>1 DEF OneSided, Empty
  <2>6. QED
    BY <1>2, <2>3, <2>4, <2>5, Starting DEF InEffect
<1>3. ASSUME NEW i \in run.downs, RunDownOk(i) PROVE PendingInv'
  <2> SUFFICES ASSUME trouble = {}, DistinctIds(state.complete), NEW k \in run.downs \ {i}
               PROVE  state.complete[k] \in schema'[run.url]
    BY <1>3, DownOk DEF PendingInv, DistinctIds
  <2>1. /\ run # NoRun /\ schema[run.url] \ {state.complete[i]} \subseteq schema'[run.url]
        /\ run.downs \subseteq DOMAIN state.complete
    BY <1>3, DownStep, SubtractDomain DEF CommonTypeOK, Removed
  <2>2. state.complete[k] # state.complete[i]
    BY <2>1 DEF DistinctIds
  <2>3. QED
    BY <2>1, <2>2 DEF PendingInv
<1>4. ASSUME NEW i \in run.ups, RunUpOk(i) PROVE PendingInv'
  BY <1>4, UpStep, UpOk DEF PendingInv
<1>5. CASE run' = NoRun
  BY <1>5 DEF PendingInv
<1>6. ASSUME run # NoRun,
             \/ \E i \in run.downs : RunDownFails(i)
             \/ \E i \in run.ups : RunUpFails(i)
             \/ Finish \/ StopProvider
      PROVE  PendingInv'
  BY <1>5, <1>6, Ends
<1>7. ASSUME StopProvider, run = NoRun PROVE PendingInv'
  BY <1>5, <1>7 DEF StopProvider
<1>8. ASSUME ApplyStarts PROVE PendingInv'
  BY <1>2, <1>8, Starting DEF PendingInv
<1>9. ASSUME \/ \E i \in run.downs : RunDownFails(i)
             \/ \E i \in run.ups : RunUpFails(i)
             \/ Finish
      PROVE  run # NoRun
  BY <1>9, DownStep, UpStep DEF Finish
<1>10. QED
  BY <1>1, <1>3, <1>4, <1>6, <1>7, <1>8, <1>9, Steps

LEMMA Pending == CommonSpec => []PendingInv
<1>1. CommonInit => PendingInv
  BY DEF CommonInit, PendingInv
<1>2. QED
  BY <1>1, NextPendingInv, CommonTypes, Progress, Records, Clean, PTL DEF CommonSpec

(* What a migration of the planned list refers to is in effect when its turn  *)
(* comes, and the migration itself is not there yet.                          *)
LEMMA UpNotRefused ==
  ASSUME CommonTypeOK, ProgressInv, RecordInv, CleanInv, trouble = {},
         DistinctIds(run.planned.complete), Ordered(run.planned.complete),
         NEW i \in run.ups, run.downs = {}, IsNextUp(i, run.ups)
  PROVE  ~Refuses(run.url, run.planned.complete[i], TRUE)
<1> DEFINE m == run.planned.complete[i]
<1>1. run # NoRun
  BY DEF NoRun
<1>2. /\ home = run.url /\ run.url \in Url /\ Done
      /\ Accounted /\ KeptInEffect /\ KeptUnedited
  BY <1>1 DEF ProgressInv, CommonTypeOK, CleanInv, RecordInv, Departed
<1>3. i \in Added(state, run.planned) /\ i \in DOMAIN run.planned.complete
  BY SubtractDomain DEF CommonTypeOK, Added
<1>4. \A k \in DOMAIN run.planned.complete : k \in Nat
  BY DEF CommonTypeOK, RunType
<1>5. m \notin schema[run.url]
  <2>1. \A k \in DOMAIN state.complete : state.complete[k] # m
    BY <1>3 DEF Added, Subtract, IdsOf
  <2>2. \A j \in Added(state, run.planned) \ run.ups : run.planned.complete[j] # m
    <3>1. Added(state, run.planned) \subseteq DOMAIN run.planned.complete
      BY SubtractDomain DEF Added
    <3>2. QED
      BY <1>3, <3>1 DEF DistinctIds
  <2>3. ~AccountedFor(m)
    BY <2>1, <2>2 DEF AccountedFor
  <2>4. QED
    BY <1>2, <2>3 DEF Accounted
<1>6. ASSUME NEW n \in Migration, <<m, n>> \in Needs PROVE InEffect(n, schema[run.url])
  <2>1. PICK k \in DOMAIN run.planned.complete : k < i /\ run.planned.complete[k] = n
    BY <1>3, <1>6 DEF Ordered
  <2>2. CASE k \in Added(state, run.planned)
    <3>1. k \notin run.ups
      BY <1>3, <1>4, <2>1 DEF IsNextUp
    <3>2. QED
      BY <1>2, <2>1, <2>2, <3>1 DEF Done
  <2>3. CASE k \notin Added(state, run.planned)
    <3>1. PICK l \in DOMAIN state.complete :
             run.planned.complete[k].id = state.complete[l].id
      BY <2>1, <2>3, KeptId DEF Added
    <3>2. l \notin Removed(state, run.planned) /\ state.complete[l] = n
      BY <1>2, <2>1, <3>1, RemovedId DEF Removed, KeptUnedited
    <3>3. QED
      BY <1>2, <3>1, <3>2 DEF KeptInEffect
  <2>4. QED
    BY <2>2, <2>3
<1> HIDE DEF m
<1>7. ~Refuses(run.url, m, TRUE)
  BY <1>5, <1>6 DEF Refuses, Prevented
<1>8. QED
  BY <1>7 DEF m

(* A migration to be removed is there, and what refers to it is gone.         *)
LEMMA DownNotRefused ==
  ASSUME CommonTypeOK, ProgressInv, RecordInv, CleanInv, PendingInv, trouble = {},
         DistinctIds(state.complete), Ordered(state.complete),
         Ordered(run.planned.complete),
         NEW i \in run.downs, IsNextDown(i, run.downs)
  PROVE  ~Refuses(run.url, state.complete[i], FALSE)
<1> DEFINE m == state.complete[i]
<1>1. run # NoRun
  BY DEF NoRun
<1>2. /\ home = run.url /\ run.url \in Url /\ DownsFirst
      /\ Accounted /\ KeptUnedited /\ m \in schema[run.url]
  BY <1>1 DEF ProgressInv, CommonTypeOK, CleanInv, RecordInv, Departed, PendingInv
<1>3. i \in Removed(state, run.planned) /\ i \in DOMAIN state.complete
  BY SubtractDomain DEF CommonTypeOK, Removed
<1>4. \A k \in DOMAIN state.complete : k \in Nat
  BY DEF CommonTypeOK
<1>5. m \in Migration
  BY StepTypes
<1>6. ASSUME NEW n \in schema[run.url], <<n, m>> \in Needs PROVE FALSE
  <2>1. PICK k \in DOMAIN state.complete :
           /\ state.complete[k] = n
           /\ k \in Removed(state, run.planned) => k \in run.downs
    BY <1>2, <1>6 DEF Accounted, AccountedFor, DownsFirst
  <2>2. PICK l \in DOMAIN state.complete : l < k /\ state.complete[l] = m
    BY <1>5, <1>6, <2>1 DEF Ordered
  <2>3. l = i
    BY <1>3, <2>2 DEF DistinctIds
  <2>4. k \notin Removed(state, run.planned)
    BY <1>3, <1>4, <2>1, <2>2, <2>3 DEF IsNextDown
  <2>5. PICK j \in DOMAIN run.planned.complete :
           state.complete[k].id = run.planned.complete[j].id
    BY <2>1, <2>4, KeptId DEF Removed
  <2>6. run.planned.complete[j] = n
    BY <1>2, <2>1, <2>5 DEF KeptUnedited
  <2>7. PICK p \in DOMAIN run.planned.complete : run.planned.complete[p] = m
    BY <1>5, <1>6, <2>5, <2>6 DEF Ordered
  <2>8. QED
    BY <1>3, <2>7, RemovedId DEF Removed
<1> HIDE DEF m
<1>7. ~Refuses(run.url, m, FALSE)
  BY <1>2, <1>6 DEF Refuses, Prevented
<1>8. QED
  BY <1>7 DEF m

(* In a history without departures the database never refuses a statement,    *)
(* whatever refers to whatever, for all lists with distinct ids in which      *)
(* every migration comes after those it refers to.                            *)
THEOREM CommonRefusals == CommonSpec => []NoStatementRefused
<1>1. /\ CommonTypeOK /\ ProgressInv /\ RecordInv /\ CleanInv /\ PendingInv
      => NoStatementRefused
  BY UpNotRefused, DownNotRefused DEF NoStatementRefused
<1>2. QED
  BY <1>1, CommonTypes, Progress, Records, Clean, Pending, PTL
=============================================================================
