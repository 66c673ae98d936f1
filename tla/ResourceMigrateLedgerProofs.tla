--------------------- MODULE ResourceMigrateLedgerProofs ---------------------
(* The life of a migration resource implements the ledger: the record is the  *)
(* ledger, the objects in the databases are what is in effect, a run is a     *)
(* change, and the departures are its doubts.                                 *)
EXTENDS ResourceMigrateCommonProofs

(* An object in a database was created by an up statement that is not empty.  *)
ObjectInv == \A u \in Url : \A m \in schema[u] : ~Empty(m, TRUE)

LEMMA Objects == CommonSpec => []ObjectInv
<1>1. CommonInit => ObjectInv
  BY DEF CommonInit, ObjectInv
<1>2. ASSUME CommonTypeOK, ObjectInv, [CommonNext]_vars PROVE ObjectInv'
  <2> SUFFICES ASSUME NEW u \in Url, NEW m \in schema'[u] \ schema[u]
               PROVE  ~Empty(m, TRUE)
    BY <1>2 DEF ObjectInv
  <2>1. PICK i \in run.ups :
           (RunUpOk(i) \/ RunUpFails(i)) /\ m = run.planned.complete[i]
    BY <1>2, Appears
  <2>2. QED
    BY <1>2, <2>1, UpStep
<1>3. QED
  BY <1>1, <1>2, CommonTypes, PTL DEF CommonSpec

LedgerInv == ProgressInv /\ RecordInv /\ CleanInv /\ ObjectInv

---------------------------------------------------------------------------
(* Part 1. What the mapped variables say.                                     *)

LEMMA InInPlace ==
  \A u, m : /\ <<u, m>> \in InPlace <=> u \in Url /\ m \in schema[u]
            /\ <<u, m>> \in InPlace' <=> u \in Url /\ m \in schema'[u]
  BY DEF InPlace

LEMMA InRecorded ==
  \A u, m : <<u, m>> \in Recorded <=>
      /\ u = home /\ ~Empty(m, TRUE)
      /\ \E i \in DOMAIN state.complete : m = state.complete[i]
  BY DEF Recorded

LEMMA InDoubted ==
  /\ Doubted \subseteq {"missing", "extra"}
  /\ "missing" \in Doubted <=> Departed
  /\ "extra" \in Doubted <=> trouble # {}
  BY DEF Doubted, Departed

(* A ledger with what it records in effect, or doubted, agrees.               *)
LEMMA Agrees ==
  ASSUME CommonTypeOK', LedgerInv', run' = NoRun, home' \in Url
  PROVE  Book!Agreement'
<1>1. ASSUME "missing" \notin Doubted' PROVE Recorded' \subseteq InPlace'
  <2>1. RunAgainstDatabase'
    BY <1>1, InDoubted DEF LedgerInv, RecordInv, Departed, Doubted
  <2>2. ASSUME NEW e \in Recorded' PROVE e \in InPlace'
    <3>1. PICK i \in DOMAIN state'.complete :
             ~Empty(state'.complete[i], TRUE) /\ e = <<home', state'.complete[i]>>
      BY <2>2 DEF Recorded
    <3>2. state'.complete[i] \in schema'[home']
      BY <2>1, <3>1 DEF RunAgainstDatabase, InEffect
    <3>3. QED
      BY <3>1, <3>2, InInPlace
  <2>3. QED
    BY <2>2
<1>2. ASSUME "extra" \notin Doubted' PROVE InPlace' \subseteq Recorded'
  <2>1. trouble' = {}
    BY <1>2 DEF Doubted
  <2>2. NothingElse' /\ ObjectInv'
    BY <2>1 DEF LedgerInv, CleanInv
  <2>3. \A u \in Url : \A m \in schema'[u] :
           /\ u = home' /\ ~Empty(m, TRUE)
           /\ \E i \in DOMAIN state'.complete : state'.complete[i] = m
    BY <2>2 DEF NothingElse, ObjectInv
  <2>4. ASSUME NEW e \in InPlace' PROVE e \in Recorded'
    <3>1. PICK u \in Url : \E m \in schema'[u] : e = <<u, m>>
      BY <2>4 DEF InPlace
    <3>2. QED
      BY <2>3, <3>1 DEF Recorded
  <2>5. QED
    BY <2>4
<1>3. QED
  BY <1>1, <1>2 DEF Book!Agreement

---------------------------------------------------------------------------
(* Part 2. Statements touch one entry, and only one the change is about.      *)

LEMMA UnchangedPlace ==
  ASSUME \A u \in Url : schema'[u] = schema[u] PROVE InPlace' = InPlace
  BY DEF InPlace

LEMMA DownTouches ==
  ASSUME CommonTypeOK, LedgerInv, NEW i \in run.downs, RunDownOk(i) \/ RunDownFails(i)
  PROVE  Book!Touch
<1> DEFINE m == state.complete[i]
           e == <<run.url, m>>
<1>1. /\ run.url \in Url /\ run.url = home /\ i \in Removed(state, run.planned)
      /\ schema[run.url] \ {m} \subseteq schema'[run.url]
      /\ schema'[run.url] \subseteq schema[run.url]
      /\ \A v \in Url \ {run.url} : schema'[v] = schema[v]
  BY DownStep DEF LedgerInv, ProgressInv
<1>2. i \in DOMAIN state.complete /\ m \in Migration
  BY <1>1, StepTypes, SubtractDomain DEF Removed
<1> HIDE DEF m
<1>3. CASE m \in schema[run.url] \ schema'[run.url]
  <2>1. InPlace' = InPlace \ {e}
    <3>1. \A u \in Url : schema'[u] = schema[u] \ (IF u = run.url THEN {m} ELSE {})
      BY <1>1, <1>3
    <3>2. QED
      BY <3>1 DEF InPlace
  <2>2. ~Empty(m, TRUE)
    BY <1>1, <1>3 DEF LedgerInv, ObjectInv
  <2>3. e \in Recorded /\ e \in Url \X Migration
    BY <1>1, <1>2, <2>2, InRecorded DEF m
  <2>4. QED
    BY <2>1, <2>3 DEF Book!Touch
<1>4. CASE m \notin schema[run.url] \ schema'[run.url]
  <2>1. \A u \in Url : schema'[u] = schema[u]
    BY <1>1, <1>4
  <2>2. QED
    BY <2>1, UnchangedPlace DEF Book!Touch
<1>5. QED
  BY <1>3, <1>4

LEMMA UpTouches ==
  ASSUME CommonTypeOK, LedgerInv, NEW i \in run.ups, RunUpOk(i) \/ RunUpFails(i)
  PROVE  Book!Touch
<1> DEFINE m == run.planned.complete[i]
           e == <<run.url, m>>
<1>1. /\ run.url \in Url /\ i \in Added(state, run.planned)
      /\ schema[run.url] \subseteq schema'[run.url]
      /\ schema'[run.url] \subseteq schema[run.url] \cup {m}
      /\ \A v \in Url \ {run.url} : schema'[v] = schema[v]
  BY UpStep
<1>2. m \in Migration
  BY StepTypes
<1>3. \A k \in DOMAIN state.complete : state.complete[k] # m
  BY <1>1 DEF Added, Subtract, IdsOf
<1>4. e \in (Url \X Migration) \ Recorded
  BY <1>1, <1>2, <1>3, InRecorded
<1> HIDE DEF m
<1>5. CASE m \in schema'[run.url]
  <2>1. \A u \in Url : schema'[u] = schema[u] \cup (IF u = run.url THEN {m} ELSE {})
    BY <1>1, <1>5
  <2>2. InPlace' = InPlace \cup {e}
    BY <1>1, <2>1 DEF InPlace
  <2>3. QED
    BY <1>4, <2>2 DEF Book!Touch
<1>6. CASE m \notin schema'[run.url]
  <2>1. \A u \in Url : schema'[u] = schema[u]
    BY <1>1, <1>6
  <2>2. QED
    BY <2>1, UnchangedPlace DEF Book!Touch
<1>7. QED
  BY <1>5, <1>6

---------------------------------------------------------------------------
(* Part 3. Every step is a step of the ledger or none of its business.        *)

LEMMA BookBegins ==
  ASSUME CommonTypeOK, LedgerInv, ApplyStarts
  PROVE  Book!Begin
<1>1. InPlace' = InPlace
  BY Starting, UnchangedPlace
<1>2. Doubted \subseteq Doubted'
  BY Starting DEF Doubted
<1>3. ASSUME Recorded' # Recorded PROVE Doubted' = {"missing", "extra"}
  <2>1. home' # home
    BY <1>3, Starting DEF Recorded
  <2>2. DOMAIN state.complete # {}
    BY <1>3, Starting DEF Recorded
  <2>3. state.exists
    BY <2>2 DEF CommonTypeOK, Absent
  <2>4. "moved" \in trouble'
    BY <2>1, <2>3, Starting DEF Departures
  <2>5. QED
    BY <2>4 DEF Doubted
<1>4. QED
  BY <1>1, <1>2, <1>3, Starting DEF Book!Begin, Book!Doubts

LEMMA BookProceeds ==
  ASSUME CommonTypeOK, LedgerInv,
         \/ \E i \in run.downs : RunDownOk(i)
         \/ \E i \in run.ups : RunUpOk(i)
  PROVE  Book!Proceed
<1>1. Book!Touch
  BY DownTouches, UpTouches
<1>2. /\ UNCHANGED <<state, trouble, home>> /\ run # NoRun /\ run' # NoRun
  BY DownOk, UpOk, DownStep, UpStep
<1>3. QED
  BY <1>1, <1>2 DEF Book!Proceed, Recorded, Doubted

LEMMA BookCommits ==
  ASSUME CommonTypeOK, CommonTypeOK', LedgerInv, LedgerInv', Finish
  PROVE  Book!Commit
<1>1. /\ run # NoRun /\ run' = NoRun /\ UNCHANGED <<schema, home, trouble>>
  BY DEF Finish, Record, databaseVars, historyVars
<1>2. home' \in Url
  BY <1>1 DEF CommonTypeOK, LedgerInv, ProgressInv
<1>3. QED
  BY <1>1, <1>2, Agrees, UnchangedPlace DEF Book!Commit, Doubted

LEMMA BookAbandons ==
  ASSUME CommonTypeOK, CommonTypeOK', LedgerInv, LedgerInv', run # NoRun, Abandon,
         UNCHANGED home, Book!Touch
  PROVE  Book!Abandon
<1>1. /\ run' = NoRun /\ state' = state /\ home = run.url /\ home \in Url
      /\ trouble' = trouble \cup Remains(schema'[home])
  BY DEF Abandon, LedgerInv, ProgressInv, CommonTypeOK
<1>2. Recorded' = Recorded /\ Doubted \subseteq Doubted'
  BY <1>1 DEF Recorded, Doubted
<1>3. ASSUME "torn" \in Remains(schema'[home]) PROVE ~(Recorded \subseteq InPlace')
  <2>1. PICK i \in Removed(state, run.planned) :
           ~InEffect(state.complete[i], schema'[home])
    BY <1>3 DEF Remains, Torn
  <2>2. i \in DOMAIN state.complete
    BY SubtractDomain DEF Removed
  <2>3. <<home, state.complete[i]>> \in Recorded
    BY <2>1, <2>2, InRecorded DEF InEffect
  <2>4. <<home, state.complete[i]>> \notin InPlace'
    BY <2>1, InInPlace DEF InEffect
  <2>5. QED
    BY <2>3, <2>4
<1>4. ASSUME "leaked" \in Remains(schema'[home]) PROVE Recorded # InPlace'
  <2>1. PICK i \in Added(state, run.planned) : run.planned.complete[i] \in schema'[home]
    BY <1>3, <1>4 DEF Remains, Leaked
  <2>2. \A k \in DOMAIN state.complete : state.complete[k] # run.planned.complete[i]
    BY DEF Added, Subtract, IdsOf
  <2>3. <<home, run.planned.complete[i]>> \notin Recorded
    BY <2>2, InRecorded
  <2>4. <<home, run.planned.complete[i]>> \in InPlace'
    BY <1>1, <2>1 DEF InPlace
  <2>5. QED
    BY <2>3, <2>4
<1>5. Remains(schema'[home]) \subseteq {"torn", "leaked"}
  BY DEF Remains
<1>6. ASSUME "missing" \in Doubted' \ Doubted PROVE ~(Recorded \subseteq InPlace')
  BY <1>1, <1>3, <1>5, <1>6 DEF Doubted
<1>7. ASSUME "extra" \in Doubted' \ Doubted PROVE Recorded # InPlace'
  <2>1. "torn" \in Remains(schema'[home]) \/ "leaked" \in Remains(schema'[home])
    BY <1>1, <1>5, <1>7 DEF Doubted
  <2>2. QED
    BY <1>3, <1>4, <2>1
<1>8. Book!Agreement'
  BY <1>1, Agrees
<1>9. QED
  BY <1>1, <1>2, <1>6, <1>7, <1>8 DEF Book!Abandon

LEMMA BookForsakes ==
  ASSUME run # NoRun, run' = NoRun, trouble' = trouble \cup {"swallowed"}, Book!Touch
  PROVE  Book!Forsake
<1>1. Doubted' = {"missing", "extra"}
  BY DEF Doubted
<1>2. QED
  BY <1>1 DEF Book!Forsake, Book!Doubts

LEMMA BookNext ==
  /\ CommonTypeOK /\ CommonTypeOK' /\ LedgerInv /\ LedgerInv' /\ [CommonNext]_vars
  => [Book!LedgerNext]_Book!ledgerVars
<1> SUFFICES ASSUME CommonTypeOK, CommonTypeOK', LedgerInv, LedgerInv', [CommonNext]_vars
             PROVE  [Book!LedgerNext]_Book!ledgerVars
  OBVIOUS
<1>1. ASSUME UNCHANGED <<schema, state, home, trouble>>, (run' = NoRun) <=> (run = NoRun)
      PROVE  UNCHANGED Book!ledgerVars
  BY <1>1 DEF Book!ledgerVars, Recorded, InPlace, Doubted
<1>2. CASE Quiet
  BY <1>1, <1>2 DEF Quiet
<1>3. ASSUME NEW i \in run.downs, RunDownFails(i) PROVE Book!LedgerNext
  <2>1. run # NoRun /\ home' = home /\ Book!Touch
    BY <1>3, DownStep, DownTouches
  <2>2. \/ Abandon
        \/ run' = NoRun /\ trouble' = trouble \cup {"swallowed"}
    BY <1>3 DEF RunDownFails, Record
  <2>3. QED
    BY <2>1, <2>2, BookAbandons, BookForsakes DEF Book!LedgerNext
<1>4. ASSUME NEW i \in run.ups, RunUpFails(i) PROVE Book!LedgerNext
  <2>1. run # NoRun /\ home' = home /\ Abandon /\ Book!Touch
    BY <1>4, UpStep, UpTouches DEF RunUpFails
  <2>2. QED
    BY <2>1, BookAbandons DEF Book!LedgerNext
<1>5. CASE StopProvider
  <2>1. UNCHANGED <<schema, home>>
    BY <1>5 DEF StopProvider
  <2>2. CASE run = NoRun
    BY <1>1, <1>5, <2>1, <2>2 DEF StopProvider
  <2>3. CASE run # NoRun
    <3>1. Abandon /\ Book!Touch
      BY <1>5, <2>1, <2>3, UnchangedPlace DEF StopProvider, Book!Touch
    <3>2. QED
      BY <2>1, <2>3, <3>1, BookAbandons DEF Book!LedgerNext
  <2>4. QED
    BY <2>2, <2>3
<1>6. QED
  BY <1>2, <1>3, <1>4, <1>5, BookBegins, BookProceeds, BookCommits, Steps
     DEF Book!LedgerNext

(* The resource implements the ledger, for all migrations, lists, URLs,       *)
(* configurations and faults: planning, failing and dying never change the    *)
(* record without the cause showing among its departures.                     *)
THEOREM CommonImplementsLedger == CommonSpec => ImplementsLedger
<1>1. CommonInit => Book!LedgerInit
  BY DEF CommonInit, Book!LedgerInit, Recorded, InPlace, Doubted, Absent
<1>2. CommonSpec => []LedgerInv
  BY Progress, Records, Clean, Objects, PTL DEF LedgerInv
<1>3. QED
  BY <1>1, <1>2, BookNext, CommonTypes, PTL
     DEF CommonSpec, ImplementsLedger, Book!LedgerSpec

(* What a ledger is good for: between two changes whatever is not doubted is  *)
(* so. What is on record is in effect unless something may be missing, and    *)
(* what is in effect is on record unless something may be extra.              *)
BetweenChanges == run = NoRun => Book!Agreement

THEOREM LedgerAgrees == ImplementsLedger => []BetweenChanges
<1>1. Book!LedgerInit => BetweenChanges
  BY DEF Book!LedgerInit, Book!Agreement, BetweenChanges
<1>2. ASSUME BetweenChanges, [Book!LedgerNext]_(Book!ledgerVars) PROVE BetweenChanges'
  <2>1. CASE Book!Begin
    BY <2>1 DEF Book!Begin, BetweenChanges
  <2>2. CASE Book!Proceed
    BY <2>2 DEF Book!Proceed, BetweenChanges
  <2>3. CASE Book!Commit \/ Book!Abandon
    BY <2>3 DEF Book!Commit, Book!Abandon, BetweenChanges
  <2>4. CASE Book!Forsake
    BY <2>4 DEF Book!Forsake, Book!Doubts, Book!Agreement, BetweenChanges
  <2>5. CASE UNCHANGED Book!ledgerVars
    BY <1>2, <2>5 DEF Book!ledgerVars, Book!Agreement, BetweenChanges
  <2>6. QED
    BY <1>2, <2>1, <2>2, <2>3, <2>4, <2>5 DEF Book!LedgerNext
<1>3. QED
  BY <1>1, <1>2, PTL DEF ImplementsLedger, Book!LedgerSpec
=============================================================================
