---------------------------- MODULE Connections ----------------------------
(* The connections a plugin process holds. Every call that needs a database  *)
(* (an apply of a migration resource, a read of sql_query) opens a sql.DB of *)
(* its own, pings it, executes its statements one after the other and leaves *)
(* the sql.DB behind: nothing ever closes it. What a sql.DB does with its    *)
(* connections is Go's database/sql, here as connect uses it.                *)
EXTENDS Provider, FiniteSetsExt

CONSTANTS
    Call,          \* calls the process serves, concurrently
    MaxStatements  \* most statements one call executes

ASSUME CallAssumption == MaxStatements \in Nat \ {0}

VARIABLES
    call, \* call[k]: [phase, left], the call's progress
    pool  \* pool[k]: the sql.DB call k has opened

connectionVars == <<provider, call, pool>>

Phases == {"waiting", "opened", "pinging", "ready", "executing", "done"}

(* before sql.Open *)
NoPool == [url |-> NoUrl, maxOpen |-> 0, maxIdle |-> 0, busy |-> 0, idle |-> 0]

ConnectionsInit ==
    /\ provider = Fresh
    /\ call = [k \in Call |-> [phase |-> "waiting", left |-> 0]]
    /\ pool = [k \in Call |-> NoPool]

Serving(k) == call[k].phase \notin {"waiting", "done"}

(* database/sql: 0 connections are no limit, and the idle limit never exceeds *)
(* the limit of open ones.                                                    *)
HasRoom(p) == p.maxOpen = 0 \/ p.busy + p.idle < p.maxOpen
IdleLimit(p) ==
    IF p.maxOpen > 0 /\ p.maxOpen < p.maxIdle THEN p.maxOpen ELSE p.maxIdle

Advance(k, phase) == call' = [call EXCEPT ![k].phase = phase]

(* Terraform configures a process before it calls it; a process kept alive by *)
(* a debugger is configured again for the next command.                       *)
ConfigureAgain(c) ==
    /\ \A k \in Call : ~Serving(k)
    /\ Configure(c)
    /\ UNCHANGED <<call, pool>>

(* connect up to its ping: the limits are those of the provider at this time. *)
Connect(k, u, statements) ==
    /\ provider.configured /\ call[k].phase = "waiting"
    /\ Connectable(u)
    /\ call' = [call EXCEPT ![k] = [phase |-> "opened", left |-> statements]]
    /\ pool' = [pool EXCEPT ![k] =
                  [url |-> Resolve(u), maxOpen |-> provider.maxOpen,
                   maxIdle |-> provider.maxIdle, busy |-> 0, idle |-> 0]]
    /\ UNCHANGED provider

ConnectRejected(k, u) ==
    /\ provider.configured /\ call[k].phase = "waiting"
    /\ ~Connectable(u)
    /\ Advance(k, "done")
    /\ UNCHANGED <<provider, pool>>

(* Broken variant: a statement always opens a connection of its own.          *)
AcquireNew(k) ==
    /\ call[k].phase \in {"opened", "ready"} /\ HasRoom(pool[k])
    /\ Advance(k, IF call[k].phase = "opened" THEN "pinging" ELSE "executing")
    /\ pool' = [pool EXCEPT ![k].busy = @ + 1]
    /\ UNCHANGED provider

(* PingContext, ExecContext and QueryContext take an idle connection or open  *)
(* one, and wait where the limit leaves neither.                              *)
Acquire(k) ==
    /\ call[k].phase \in {"opened", "ready"}
    /\ pool[k].idle > 0 \/ HasRoom(pool[k])
    /\ Advance(k, IF call[k].phase = "opened" THEN "pinging" ELSE "executing")
    /\ pool' = [pool EXCEPT ![k].busy = @ + 1,
                            ![k].idle = IF @ > 0 THEN @ - 1 ELSE 0]
    /\ UNCHANGED provider

(* The database does not answer, or the connection breaks: the call returns   *)
(* the error.                                                                 *)
AcquireFails(k) ==
    /\ call[k].phase \in {"opened", "ready"} /\ HasRoom(pool[k])
    /\ Advance(k, "done")
    /\ UNCHANGED <<provider, pool>>

(* The connection goes back to its sql.DB, which keeps it idle if there is    *)
(* room; a broken connection is dropped.                                      *)
Returned(k) ==
    pool' = [pool EXCEPT ![k].busy = @ - 1,
                         ![k].idle = IF @ < IdleLimit(pool[k]) THEN @ + 1 ELSE @]
Dropped(k) == pool' = [pool EXCEPT ![k].busy = @ - 1]

(* The ping answered, the statement executed or its rows were closed, and the *)
(* call goes on or returns.                                                   *)
Release(k) ==
    /\ call[k].phase \in {"pinging", "executing"}
    /\ Returned(k)
    /\ IF call[k].phase = "pinging"
       THEN Advance(k, "ready")
       ELSE call' = [call EXCEPT ![k] =
                       [phase |-> IF @.left > 1 THEN "ready" ELSE "done",
                        left |-> @.left - 1]]
    /\ UNCHANGED provider

(* The ping or the statement ends in an error, or the connection breaks under *)
(* it: the call returns the error.                                            *)
Fails(k) ==
    /\ call[k].phase \in {"pinging", "executing"}
    /\ Returned(k) \/ Dropped(k)
    /\ Advance(k, "done")
    /\ UNCHANGED provider

ServeStep(k) == Acquire(k) \/ AcquireFails(k) \/ Release(k) \/ Fails(k)

(* A panic in any call ends the process: no call goes on, no connection stays  *)
(* open, and the next process has to be configured. StopProvider panics.       *)
ProcessDies ==
    /\ provider' = Fresh
    /\ call' = [k \in Call |-> IF Serving(k) THEN [call[k] EXCEPT !.phase = "done"]
                              ELSE call[k]]
    /\ pool' = [k \in Call |-> NoPool]

ConnectionsNext ==
    \/ \E c \in ProviderConfig : ConfigureAgain(c)
    \/ \E k \in Call, u \in Url \cup {NoUrl, BadUrl} :
          \/ \E statements \in 1..MaxStatements : Connect(k, u, statements)
          \/ ConnectRejected(k, u)
    \/ \E k \in Call : ServeStep(k)
    \/ ProcessDies

ConnectionsSpec == ConnectionsInit /\ [][ConnectionsNext]_connectionVars

---------------------------------------------------------------------------
ConnectionsTypeOK ==
    /\ provider \in ProviderType
    /\ call \in [Call -> [phase : Phases, left : 0..MaxStatements]]
    /\ pool \in [Call -> [url : Url \cup {NoUrl}, maxOpen : Nat, maxIdle : Nat,
                          busy : 0..1, idle : 0..1]]

(* A sql.DB never has more than one connection: it is busy exactly while its  *)
(* call pings or executes, and its call never waits for the limit. So no      *)
(* positive max_open_conns can block a call, and none can restrain anything.  *)
OneConnection ==
    \A k \in Call :
        /\ pool[k].busy + pool[k].idle <= 1
        /\ pool[k].busy = 1 <=> call[k].phase \in {"pinging", "executing"}
        /\ call[k].phase \in {"opened", "ready"} =>
              pool[k].idle > 0 \/ HasRoom(pool[k])

(* With max_idle_conns = 0, as all tests of the repository run, a returned    *)
(* call has left no connection open, whether it failed or not.                *)
NoIdleNoLeak ==
    \A k \in Call : call[k].phase = "done" /\ pool[k].maxIdle = 0 =>
        pool[k].busy + pool[k].idle = 0

(* The limits and the provider URL a call works with belong to one and the    *)
(* same configuration, also when Configure failed halfway in between.         *)
OneConfiguration ==
    \A k \in Call : Serving(k) =>
        \E c \in ProviderConfig :
            /\ provider.url = ConfiguredUrl(c)
            /\ pool[k].maxOpen = MaxOpen(c) /\ pool[k].maxIdle = MaxIdle(c)

(* Every call that got as far as a sql.DB returns, though nothing goes wrong: *)
(* it never waits for a connection that nobody gives back.                    *)
CallsReturn == \A k \in Call : Serving(k) ~> call[k].phase = "done"

(* docs/index.md:52: max_open_conns is "the maximum number of open            *)
(* connections to the database"; it is one limit for each call.               *)
MaxOpenRespected ==
    \A u \in Url : provider.configured /\ provider.maxOpen > 0 =>
        MapThenSumSet(LAMBDA k : pool[k].busy + pool[k].idle,
                      {k \in Call : pool[k].url = u}) <= provider.maxOpen
=============================================================================
