------------------------------ MODULE Database ------------------------------
(* The databases the provider's URLs lead to, as execMigration's ExecContext *)
(* meets them: a statement answers nil or an error, and after an error the   *)
(* caller does not know whether the statement took effect. No code of the    *)
(* repository stands behind this module; the drivers and servers do.         *)
EXTENDS Migration, Provider

CONSTANTS
    Needs,      \* pairs of migrations: the object of the first refers to that of
                \* the second (a foreign key, a view)
    Strict,     \* TRUE: plain SQL, an up is refused when its object exists and
                \* a down when it does not; FALSE: "IF [NOT] EXISTS" SQL
    FaultKinds, \* the faults of the environment: see Fault
    MaxFaults   \* how many faults may happen in one behaviour

ASSUME DatabaseAssumption ==
    /\ Needs \subseteq Migration \X Migration
    /\ Strict \in BOOLEAN
    /\ FaultKinds \subseteq {"refuse", "lost", "ping", "stop"}
    /\ MaxFaults \in Nat

VARIABLES
    schema, \* schema[u]: the objects that exist in the database at u
    faults  \* faults so far

databaseVars == <<schema, faults>>

(* refuse: a statement fails and changes nothing (some databases refuse an    *)
(*         empty one).                                                        *)
(* lost:   a statement takes effect and its answer is lost.                  *)
(* ping:   a database does not answer a new connection.                      *)
(* stop:   Terraform is interrupted and calls StopProvider.                  *)
Fault(kind) == kind \in FaultKinds /\ faults < MaxFaults /\ faults' = faults + 1

(* Nothing is created before what it refers to, and nothing is dropped while    *)
(* something refers to it.                                                    *)
Prevented(u, m, up) ==
    \/ /\ up /\ m \notin schema[u]
       /\ \E n \in Migration : <<m, n>> \in Needs /\ ~InEffect(n, schema[u])
    \/ /\ ~up /\ m \in schema[u]
       /\ \E n \in schema[u] : <<n, m>> \in Needs

Refuses(u, m, up) ==
    /\ ~Empty(m, up)
    /\ \/ Strict /\ (m \in schema[u] <=> up)
       \/ Prevented(u, m, up)

Effect(u, m, up) ==
    \/ Empty(m, up) /\ UNCHANGED schema
    \/ /\ ~Empty(m, up)
       /\ schema' = [schema EXCEPT ![u] = IF up THEN @ \cup {m} ELSE @ \ {m}]

ExecSucceeds(u, m, up) ==
    ~Refuses(u, m, up) /\ Effect(u, m, up) /\ UNCHANGED faults

ExecFails(u, m, up) ==
    \/ Refuses(u, m, up) /\ UNCHANGED databaseVars
    \/ Fault("refuse") /\ UNCHANGED schema
    \/ Fault("lost") /\ ~Refuses(u, m, up) /\ Effect(u, m, up)
=============================================================================
