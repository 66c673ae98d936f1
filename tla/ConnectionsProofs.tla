-------------------------- MODULE ConnectionsProofs --------------------------
(* The connections of a plugin process, for every number of calls, statements *)
(* and configurations: what each step does to its own call and leaves of the  *)
(* others, and the invariants that follow.                                    *)
EXTENDS Connections, TLAPS

Pool == [url : Url \cup {NoUrl}, maxOpen : Nat, maxIdle : Nat, busy : 0..1, idle : 0..1]

(* A step of one call leaves the others alone.                                *)
Only(k) ==
    /\ \A j \in Call \ {k} : call'[j] = call[j] /\ pool'[j] = pool[j]
    /\ provider' = provider
    /\ DOMAIN call' = Call

(* What a call that has a sql.DB keeps of it.                                 *)
SameLimits(k) ==
    /\ pool'[k].url = pool[k].url
    /\ pool'[k].maxOpen = pool[k].maxOpen /\ pool'[k].maxIdle = pool[k].maxIdle

(* busy says what the call is doing, an idle connection is one the limit has  *)
(* room for, and a call goes on only while it has a statement left.           *)
PoolInv ==
    \A k \in Call :
        /\ pool[k].busy + pool[k].idle <= 1
        /\ pool[k].busy = 1 <=> call[k].phase \in {"pinging", "executing"}
        /\ pool[k].idle <= pool[k].maxIdle
        /\ Serving(k) => call[k].left > 0

LEMMA PoolFields ==
  ASSUME ConnectionsTypeOK, NEW k \in Call
  PROVE  /\ pool[k].busy \in 0..1 /\ pool[k].idle \in 0..1
         /\ pool[k].maxOpen \in Nat /\ pool[k].maxIdle \in Nat
         /\ pool[k].url \in Url \cup {NoUrl}
         /\ call[k].phase \in Phases /\ call[k].left \in 0..MaxStatements
  BY DEF ConnectionsTypeOK

LEMMA AdvanceCall ==
  ASSUME ConnectionsTypeOK, NEW k \in Call, NEW phase, Advance(k, phase)
  PROVE  /\ \A j \in Call \ {k} : call'[j] = call[j]
         /\ call'[k].phase = phase /\ call'[k].left = call[k].left
         /\ DOMAIN call' = Call
         /\ phase \in Phases => call' \in [Call -> [phase : Phases, left : 0..MaxStatements]]
<1>1. call \in [Call -> [phase : Phases, left : 0..MaxStatements]]
  BY DEF ConnectionsTypeOK
<1>2. call' = [call EXCEPT ![k] = [call[k] EXCEPT !.phase = phase]]
  BY DEF Advance
<1>3. call[k] \in [phase : Phases, left : 0..MaxStatements]
  BY <1>1
<1> DEFINE next == [call[k] EXCEPT !.phase = phase]
<1>4. /\ next.phase = phase /\ next.left = call[k].left
      /\ phase \in Phases => next \in [phase : Phases, left : 0..MaxStatements]
  BY <1>3
<1> HIDE DEF next
<1>5. call' = [call EXCEPT ![k] = next]
  BY <1>2 DEF next
<1>6. QED
  BY <1>1, <1>4, <1>5

(* A sql.DB whose counts change is still one, with the same limits.           *)
LEMMA Recounted ==
  ASSUME ConnectionsTypeOK, NEW k \in Call, NEW busy \in 0..1, NEW idle \in 0..1,
         pool' = [pool EXCEPT ![k] = [pool[k] EXCEPT !.busy = busy, !.idle = idle]]
  PROVE  /\ SameLimits(k) /\ pool' \in [Call -> Pool]
         /\ \A j \in Call \ {k} : pool'[j] = pool[j]
         /\ pool'[k].busy = busy /\ pool'[k].idle = idle
<1> DEFINE next == [pool[k] EXCEPT !.busy = busy, !.idle = idle]
<1>1. pool \in [Call -> Pool] /\ pool[k] \in Pool
  BY DEF ConnectionsTypeOK, Pool
<1>2. next \in Pool
  BY <1>1 DEF Pool
<1>3. /\ next.busy = busy /\ next.idle = idle
      /\ next.url = pool[k].url /\ next.maxOpen = pool[k].maxOpen
      /\ next.maxIdle = pool[k].maxIdle
  BY <1>1 DEF Pool
<1> HIDE DEF next
<1>4. pool' = [pool EXCEPT ![k] = next]
  BY DEF next
<1>5. QED
  BY <1>1, <1>2, <1>3, <1>4 DEF SameLimits

LEMMA AcquireStep ==
  ASSUME ConnectionsTypeOK, PoolInv, NEW k \in Call, Acquire(k)
  PROVE  /\ Only(k) /\ SameLimits(k) /\ pool' \in [Call -> Pool]
         /\ call'[k].phase \in {"pinging", "executing"}
         /\ call'[k].left = call[k].left
         /\ pool'[k].busy = 1 /\ pool'[k].idle = 0
<1> DEFINE busy == pool[k].busy + 1
           idle == IF pool[k].idle > 0 THEN pool[k].idle - 1 ELSE 0
<1>1. busy = 1 /\ idle = 0 /\ busy \in 0..1 /\ idle \in 0..1
  BY PoolFields DEF Acquire, PoolInv
<1>2. pool \in [Call -> Pool]
  BY DEF ConnectionsTypeOK, Pool
<1>3. pool' = [pool EXCEPT ![k] = [pool[k] EXCEPT !.busy = busy, !.idle = idle]]
  BY <1>2 DEF Acquire
<1> HIDE DEF busy, idle
<1>4. /\ SameLimits(k) /\ pool' \in [Call -> Pool]
      /\ \A j \in Call \ {k} : pool'[j] = pool[j]
      /\ pool'[k].busy = 1 /\ pool'[k].idle = 0
  BY <1>1, <1>3, Recounted
<1>5. \E phase \in {"pinging", "executing"} : Advance(k, phase)
  BY DEF Acquire
<1>6. QED
  BY <1>4, <1>5, AdvanceCall DEF Only, Acquire

(* A connection that is given back is kept idle or dropped.                   *)
LEMMA GivenBack ==
  ASSUME ConnectionsTypeOK, PoolInv, NEW k \in Call,
         call[k].phase \in {"pinging", "executing"}, Returned(k) \/ Dropped(k)
  PROVE  /\ SameLimits(k) /\ pool' \in [Call -> Pool]
         /\ \A j \in Call \ {k} : pool'[j] = pool[j]
         /\ pool'[k].busy = 0 /\ pool'[k].idle <= pool'[k].maxIdle
<1> DEFINE busy == pool[k].busy - 1
           kept == IF pool[k].idle < IdleLimit(pool[k]) THEN pool[k].idle + 1
                   ELSE pool[k].idle
<1>1. pool \in [Call -> Pool] /\ pool[k] \in Pool
  BY DEF ConnectionsTypeOK, Pool
<1>2. busy = 0 /\ busy \in 0..1 /\ pool[k].idle = 0
  BY PoolFields DEF PoolInv
<1>3. kept \in 0..1 /\ kept <= pool[k].maxIdle /\ pool[k].idle <= pool[k].maxIdle
  BY <1>2, PoolFields DEF IdleLimit
<1>4. PICK idle \in 0..1 :
         /\ idle <= pool[k].maxIdle
         /\ pool' = [pool EXCEPT ![k] = [pool[k] EXCEPT !.busy = busy, !.idle = idle]]
  <2>1. CASE Returned(k)
    <3>1. pool' = [pool EXCEPT ![k] = [pool[k] EXCEPT !.busy = busy, !.idle = kept]]
      BY <1>1, <2>1 DEF Returned
    <3> HIDE DEF busy, kept
    <3>2. QED
      BY <1>3, <3>1
  <2>2. CASE Dropped(k)
    <3>1. pool' = [pool EXCEPT ![k] = [pool[k] EXCEPT !.busy = busy]]
      BY <1>1, <2>2 DEF Dropped
    <3> HIDE DEF busy
    <3>2. [pool[k] EXCEPT !.busy = busy]
          = [pool[k] EXCEPT !.busy = busy, !.idle = pool[k].idle]
      BY <1>1 DEF Pool
    <3>3. QED
      BY <1>3, <3>1, <3>2, PoolFields
  <2>3. QED
    BY <2>1, <2>2
<1> HIDE DEF busy, kept
<1>5. /\ busy \in 0..1
      /\ pool' = [pool EXCEPT ![k] = [pool[k] EXCEPT !.busy = busy, !.idle = idle]]
  BY <1>2, <1>4
<1>6. /\ SameLimits(k) /\ pool' \in [Call -> Pool]
      /\ \A j \in Call \ {k} : pool'[j] = pool[j]
      /\ pool'[k].busy = busy /\ pool'[k].idle = idle
  BY <1>5, Recounted
<1>7. QED
  BY <1>2, <1>4, <1>6 DEF SameLimits

(* How each step that serves a call moves it on.                              *)
Moved(k) ==
    /\ call' \in [Call -> [phase : Phases, left : 0..MaxStatements]]
    /\ \A j \in Call \ {k} : call'[j] = call[j]
    /\ call'[k].phase \in {"pinging", "ready", "executing", "done"}
    /\ call'[k].phase # "done" => call'[k].left > 0

LEMMA AdvanceMoves ==
  ASSUME ConnectionsTypeOK, PoolInv, NEW k \in Call, Serving(k),
         NEW phase \in {"pinging", "ready", "executing", "done"}, Advance(k, phase)
  PROVE  Moved(k) /\ call'[k].phase = phase
<1>1. phase \in Phases /\ call[k].left > 0
  BY DEF Phases, PoolInv
<1>2. QED
  BY <1>1, AdvanceCall DEF Moved

LEMMA ServeEffect ==
  ASSUME ConnectionsTypeOK, PoolInv, NEW k \in Call, ServeStep(k)
  PROVE  /\ Only(k) /\ SameLimits(k) /\ Serving(k) /\ Moved(k)
         /\ pool' \in [Call -> Pool]
         /\ pool'[k].busy + pool'[k].idle <= 1 /\ pool'[k].idle <= pool'[k].maxIdle
         /\ pool'[k].busy = 1 <=> call'[k].phase \in {"pinging", "executing"}
<1>0. Serving(k)
  BY DEF ServeStep, Acquire, AcquireFails, Release, Fails, Serving
<1>1. CASE Acquire(k)
  <2>1. \E phase \in {"pinging", "executing"} : Advance(k, phase)
    BY <1>1 DEF Acquire
  <2>2. Moved(k) /\ call'[k].phase \in {"pinging", "executing"}
    BY <1>0, <2>1, AdvanceMoves
  <2>3. Only(k) /\ SameLimits(k) /\ pool' \in [Call -> Pool] /\ pool'[k].busy = 1 /\ pool'[k].idle = 0
    BY <1>1, AcquireStep
  <2>4. 0 <= pool'[k].maxIdle
    BY <2>3 DEF Pool
  <2>5. QED
    BY <1>0, <2>2, <2>3, <2>4
<1>2. CASE AcquireFails(k)
  <2>1. /\ UNCHANGED <<provider, pool>> /\ Advance(k, "done")
        /\ call[k].phase \in {"opened", "ready"}
    BY <1>2 DEF AcquireFails
  <2>2. Moved(k) /\ call'[k].phase = "done"
    BY <1>0, <2>1, AdvanceMoves
  <2>3. pool \in [Call -> Pool] /\ DOMAIN call' = Call
    BY <2>2 DEF ConnectionsTypeOK, Pool, Moved
  <2>4. QED
    BY <1>0, <2>1, <2>2, <2>3 DEF Only, SameLimits, PoolInv, Moved
<1>3. CASE Release(k) \/ Fails(k)
  <2>1. /\ call[k].phase \in {"pinging", "executing"} /\ provider' = provider
        /\ Returned(k) \/ Dropped(k)
    BY <1>3 DEF Release, Fails
  <2>2. Moved(k) /\ call'[k].phase \in {"ready", "done"}
    <3>1. CASE \E phase \in {"ready", "done"} : Advance(k, phase)
      BY <1>0, <3>1, AdvanceMoves
    <3>2. CASE call' = [call EXCEPT ![k] =
                          [phase |-> IF call[k].left > 1 THEN "ready" ELSE "done",
                           left |-> call[k].left - 1]]
      <4>1. call[k].left \in 1..MaxStatements
        BY <1>0, PoolFields, CallAssumption DEF PoolInv
      <4>2. /\ call[k].left - 1 \in 0..MaxStatements
            /\ call[k].left > 1 => call[k].left - 1 > 0
        BY <4>1, CallAssumption
      <4>3. call \in [Call -> [phase : Phases, left : 0..MaxStatements]]
        BY DEF ConnectionsTypeOK
      <4> DEFINE phase == IF call[k].left > 1 THEN "ready" ELSE "done"
                 left == call[k].left - 1
      <4>4. /\ phase \in {"ready", "done"} /\ left \in 0..MaxStatements
            /\ phase # "done" => left > 0
        BY <4>2
      <4>5. call' = [call EXCEPT ![k] = [phase |-> phase, left |-> left]]
        BY <3>2
      <4> HIDE DEF phase, left
      <4>6. [phase |-> phase, left |-> left] \in [phase : Phases, left : 0..MaxStatements]
        BY <4>4 DEF Phases
      <4>7. /\ call' \in [Call -> [phase : Phases, left : 0..MaxStatements]]
            /\ \A j \in Call \ {k} : call'[j] = call[j]
            /\ call'[k] = [phase |-> phase, left |-> left]
        BY <4>3, <4>5, <4>6
      <4>8. call'[k].phase = phase /\ call'[k].left = left
        BY <4>7
      <4>9. QED
        BY <4>4, <4>7, <4>8 DEF Moved
    <3>3. QED
      BY <1>3, <3>1, <3>2 DEF Release, Fails
  <2>3. DOMAIN call' = Call
    BY <2>2 DEF Moved
  <2>4. /\ SameLimits(k) /\ pool' \in [Call -> Pool]
        /\ \A j \in Call \ {k} : pool'[j] = pool[j]
        /\ pool'[k].busy = 0 /\ pool'[k].idle <= pool'[k].maxIdle
    BY <2>1, GivenBack
  <2>5. pool'[k].busy + pool'[k].idle <= 1
    BY <2>4 DEF Pool
  <2>6. QED
    BY <1>0, <2>1, <2>2, <2>3, <2>4, <2>5 DEF Only, Moved
<1>4. QED
  BY <1>1, <1>2, <1>3 DEF ServeStep

LEMMA ConnectEffect ==
  ASSUME ConnectionsTypeOK, NEW k \in Call, NEW u, NEW statements \in 1..MaxStatements,
         Connect(k, u, statements)
  PROVE  /\ Only(k) /\ pool' \in [Call -> Pool]
         /\ call' \in [Call -> [phase : Phases, left : 0..MaxStatements]]
         /\ call'[k].phase = "opened" /\ call'[k].left > 0
         /\ pool'[k].busy = 0 /\ pool'[k].idle = 0
         /\ pool'[k].maxOpen = provider.maxOpen /\ pool'[k].maxIdle = provider.maxIdle
<1> DEFINE fresh == [url |-> Resolve(u), maxOpen |-> provider.maxOpen,
                     maxIdle |-> provider.maxIdle, busy |-> 0, idle |-> 0]
           begun == [phase |-> "opened", left |-> statements]
<1>1. /\ call \in [Call -> [phase : Phases, left : 0..MaxStatements]]
      /\ pool \in [Call -> Pool] /\ provider.maxOpen \in Nat /\ provider.maxIdle \in Nat
  BY DEF ConnectionsTypeOK, Pool, ProviderType
<1>2. statements \in 0..MaxStatements /\ statements > 0
  BY CallAssumption
<1>3. begun \in [phase : Phases, left : 0..MaxStatements]
  BY <1>2 DEF Phases
<1>4. fresh \in Pool
  <2>1. Resolve(u) \in Url \cup {NoUrl}
    BY DEF Connect, Connectable
  <2>2. QED
    BY <1>1, <2>1 DEF Pool
<1>5. /\ call' = [call EXCEPT ![k] = begun] /\ pool' = [pool EXCEPT ![k] = fresh]
      /\ provider' = provider
  BY DEF Connect
<1>6. /\ fresh.busy = 0 /\ fresh.idle = 0 /\ fresh.maxOpen = provider.maxOpen
      /\ fresh.maxIdle = provider.maxIdle
      /\ begun.phase = "opened" /\ begun.left = statements
  OBVIOUS
<1> HIDE DEF fresh, begun
<1>7. QED
  BY <1>1, <1>2, <1>3, <1>4, <1>5, <1>6 DEF Only

---------------------------------------------------------------------------
(* The provider a call meets has the fields of one configuration.             *)
OneProvider ==
    provider.configured =>
        \E c \in ProviderConfig :
            /\ provider.url = ConfiguredUrl(c)
            /\ provider.maxOpen = MaxOpen(c) /\ provider.maxIdle = MaxIdle(c)

ConnectionsInv == ConnectionsTypeOK /\ PoolInv /\ OneProvider /\ OneConfiguration

LEMMA ConfigureEffect ==
  ASSUME provider \in ProviderType, NEW c \in ProviderConfig, Configure(c)
  PROVE  provider' \in ProviderType /\ OneProvider'
<1> DEFINE url == ConfiguredUrl(c)
<1>1. /\ c.url \in Url \cup {NoUrl, BadUrl, UnknownUrl}
      /\ c.env \in Url \cup {NoUrl, BadUrl}
      /\ c.maxOpen \in Nat \cup {Null, NotInteger}
      /\ c.maxIdle \in Nat \cup {Null, NotInteger}
  BY ProviderAssumption
<1>2. url # BadUrl => url \in Url \cup {NoUrl, UnknownUrl}
  BY <1>1 DEF ConfiguredUrl
<1>3. /\ c.maxOpen # NotInteger => MaxOpen(c) \in Nat
      /\ c.maxIdle # NotInteger => MaxIdle(c) \in Nat
  BY <1>1 DEF MaxOpen, MaxIdle
<1> HIDE DEF url
<1>4. CASE url = BadUrl
  <2>1. provider' = [provider EXCEPT !.configured = FALSE]
    BY <1>4 DEF Configure, url
  <2>2. QED
    BY <2>1 DEF ProviderType, OneProvider
<1>5. CASE url # BadUrl /\ c.maxOpen = NotInteger
  <2>1. provider' = [provider EXCEPT !.configured = FALSE, !.url = url]
    BY <1>5 DEF Configure, url
  <2>2. QED
    BY <1>2, <1>5, <2>1 DEF ProviderType, OneProvider
<1>6. CASE url # BadUrl /\ c.maxOpen # NotInteger /\ c.maxIdle = NotInteger
  <2>1. provider' = [provider EXCEPT !.configured = FALSE, !.url = url,
                                     !.maxOpen = MaxOpen(c)]
    BY <1>6 DEF Configure, url
  <2>2. QED
    BY <1>2, <1>3, <1>6, <2>1 DEF ProviderType, OneProvider
<1>7. CASE url # BadUrl /\ c.maxOpen # NotInteger /\ c.maxIdle # NotInteger
  <2>1. provider' = [configured |-> TRUE, url |-> url,
                     maxOpen |-> MaxOpen(c), maxIdle |-> MaxIdle(c)]
    BY <1>7 DEF Configure, url
  <2>2. url \in Url \cup {NoUrl, UnknownUrl} /\ MaxOpen(c) \in Nat /\ MaxIdle(c) \in Nat
    BY <1>2, <1>3, <1>7
  <2>3. provider' \in ProviderType
    BY <2>1, <2>2 DEF ProviderType
  <2>4. /\ provider'.url = ConfiguredUrl(c)
        /\ provider'.maxOpen = MaxOpen(c) /\ provider'.maxIdle = MaxIdle(c)
    BY <2>1 DEF url
  <2>5. QED
    BY <2>3, <2>4 DEF OneProvider
<1>8. QED
  BY <1>4, <1>5, <1>6, <1>7

LEMMA ConnectionsInvInit == ConnectionsInit => ConnectionsInv
<1> SUFFICES ASSUME ConnectionsInit PROVE ConnectionsInv
  OBVIOUS
<1>1. NoPool \in [url : Url \cup {NoUrl}, maxOpen : Nat, maxIdle : Nat, busy : 0..1, idle : 0..1]
  BY DEF NoPool
<1>2. [phase |-> "waiting", left |-> 0] \in [phase : Phases, left : 0..MaxStatements]
  BY CallAssumption DEF Phases
<1>3. ConnectionsTypeOK
  BY <1>1, <1>2 DEF ConnectionsInit, ConnectionsTypeOK, Fresh, ProviderType
<1>4. PoolInv /\ OneProvider /\ OneConfiguration
  BY DEF ConnectionsInit, PoolInv, NoPool, Serving, OneProvider, OneConfiguration, Fresh
<1>5. QED
  BY <1>3, <1>4 DEF ConnectionsInv

(* A step of call k keeps the invariant if it leaves k's own part in order.   *)
LEMMA OneCallMoves ==
  ASSUME ConnectionsInv, NEW k \in Call, Only(k), pool' \in [Call -> Pool],
         call' \in [Call -> [phase : Phases, left : 0..MaxStatements]],
         /\ pool'[k].busy + pool'[k].idle <= 1
         /\ pool'[k].busy = 1 <=> call'[k].phase \in {"pinging", "executing"}
         /\ pool'[k].idle <= pool'[k].maxIdle,
         Serving(k)' => /\ call'[k].left > 0
                        /\ \E c \in ProviderConfig :
                              /\ provider.url = ConfiguredUrl(c)
                              /\ pool'[k].maxOpen = MaxOpen(c)
                              /\ pool'[k].maxIdle = MaxIdle(c)
  PROVE  ConnectionsInv'
<1>1. ConnectionsTypeOK'
  BY DEF ConnectionsInv, ConnectionsTypeOK, Only, Pool
<1>2. PoolInv'
  BY DEF ConnectionsInv, PoolInv, Only, Serving
<1>3. OneProvider'
  BY DEF ConnectionsInv, OneProvider, Only
<1>4. OneConfiguration'
  BY DEF ConnectionsInv, OneConfiguration, Only, Serving
<1>5. QED
  BY <1>1, <1>2, <1>3, <1>4 DEF ConnectionsInv

(* A process that has died holds nothing, and its calls are over.             *)
LEMMA DeathKeepsInv ==
  ASSUME ConnectionsInv, ProcessDies
  PROVE  ConnectionsInv' /\ \A k \in Call : call'[k].left = call[k].left
<1> DEFINE ended(k) == IF Serving(k) THEN [call[k] EXCEPT !.phase = "done"] ELSE call[k]
<1>1. ASSUME NEW k \in Call
      PROVE  /\ ended(k) \in [phase : Phases, left : 0..MaxStatements]
             /\ ended(k).phase \in {"waiting", "done"} /\ ended(k).left = call[k].left
  <2>1. call[k] \in [phase : Phases, left : 0..MaxStatements]
    BY DEF ConnectionsInv, ConnectionsTypeOK
  <2>2. CASE Serving(k)
    BY <2>1, <2>2 DEF Phases
  <2>3. CASE ~Serving(k)
    BY <2>1, <2>3 DEF Serving
  <2>4. QED
    BY <2>2, <2>3
<1>2. call' = [k \in Call |-> ended(k)]
  BY DEF ProcessDies
<1>3. pool' = [k \in Call |-> NoPool] /\ provider' = Fresh
  BY DEF ProcessDies
<1> HIDE DEF ended
<1>4. NoPool \in Pool /\ NoPool.busy = 0 /\ NoPool.idle = 0 /\ NoPool.maxIdle = 0
  BY DEF NoPool, Pool
<1>5. Fresh \in ProviderType /\ ~Fresh.configured
  BY DEF Fresh, ProviderType
<1>6. \A k \in Call : /\ pool'[k] = NoPool /\ call'[k].phase \in {"waiting", "done"}
                      /\ call'[k].left = call[k].left
  BY <1>1, <1>2, <1>3
<1>7. ConnectionsTypeOK'
  <2>1. call' \in [Call -> [phase : Phases, left : 0..MaxStatements]]
    BY <1>1, <1>2
  <2>2. pool' \in [Call -> Pool]
    BY <1>3, <1>4
  <2>3. QED
    BY <1>3, <1>5, <2>1, <2>2 DEF ConnectionsTypeOK, Pool
<1>8. PoolInv'
  BY <1>4, <1>6 DEF PoolInv, Serving
<1>9. OneProvider' /\ OneConfiguration'
  BY <1>3, <1>5, <1>6 DEF OneProvider, OneConfiguration, Serving
<1>10. QED
  BY <1>6, <1>7, <1>8, <1>9 DEF ConnectionsInv

LEMMA ConnectionsInvNext ==
  ConnectionsInv /\ [ConnectionsNext]_connectionVars => ConnectionsInv'
<1> SUFFICES ASSUME ConnectionsInv, [ConnectionsNext]_connectionVars
             PROVE  ConnectionsInv'
  OBVIOUS
<1>0. ConnectionsTypeOK /\ PoolInv
  BY DEF ConnectionsInv
<1>1. ASSUME NEW c \in ProviderConfig, ConfigureAgain(c) PROVE ConnectionsInv'
  <2>1. provider' \in ProviderType /\ OneProvider' /\ UNCHANGED <<call, pool>>
    BY <1>0, <1>1, ConfigureEffect DEF ConfigureAgain, ConnectionsTypeOK
  <2>2. \A k \in Call : ~Serving(k)'
    BY <1>1, <2>1 DEF ConfigureAgain, Serving
  <2>3. QED
    BY <1>0, <2>1, <2>2 DEF ConnectionsInv, ConnectionsTypeOK, PoolInv, OneConfiguration,
                            Serving
<1>2. ASSUME NEW k \in Call, NEW u, NEW statements \in 1..MaxStatements,
             Connect(k, u, statements)
      PROVE  ConnectionsInv'
  <2>1. \E c \in ProviderConfig :
            /\ provider.url = ConfiguredUrl(c)
            /\ provider.maxOpen = MaxOpen(c) /\ provider.maxIdle = MaxIdle(c)
    BY <1>2 DEF Connect, ConnectionsInv, OneProvider
  <2>2. provider.maxIdle \in Nat
    BY <1>0 DEF ConnectionsTypeOK, ProviderType
  <2>3. QED
    BY <1>0, <1>2, <2>1, <2>2, ConnectEffect, OneCallMoves
<1>3. ASSUME NEW k \in Call, NEW u, ConnectRejected(k, u) PROVE ConnectionsInv'
  <2>1. /\ UNCHANGED <<provider, pool>> /\ Advance(k, "done")
        /\ call[k].phase = "waiting"
    BY <1>3 DEF ConnectRejected
  <2>2. /\ \A j \in Call \ {k} : call'[j] = call[j]
        /\ call'[k].phase = "done" /\ DOMAIN call' = Call
        /\ call' \in [Call -> [phase : Phases, left : 0..MaxStatements]]
    BY <1>0, <2>1, AdvanceCall DEF Phases
  <2>3. pool \in [Call -> Pool]
    BY <1>0 DEF ConnectionsTypeOK, Pool
  <2>4. Only(k) /\ ~Serving(k)'
    BY <2>1, <2>2, <2>3 DEF Only, Serving
  <2>5. pool[k].busy # 1
    BY <1>0, <2>1 DEF PoolInv
  <2>6. QED
    BY <1>0, <2>1, <2>2, <2>3, <2>4, <2>5, OneCallMoves DEF PoolInv
<1>4. ASSUME NEW k \in Call, ServeStep(k) PROVE ConnectionsInv'
  <2>1. /\ Only(k) /\ SameLimits(k) /\ Serving(k) /\ Moved(k) /\ pool' \in [Call -> Pool]
        /\ pool'[k].busy + pool'[k].idle <= 1 /\ pool'[k].idle <= pool'[k].maxIdle
        /\ pool'[k].busy = 1 <=> call'[k].phase \in {"pinging", "executing"}
    BY <1>0, <1>4, ServeEffect
  <2>2. \E c \in ProviderConfig :
            /\ provider.url = ConfiguredUrl(c)
            /\ pool'[k].maxOpen = MaxOpen(c) /\ pool'[k].maxIdle = MaxIdle(c)
    BY <2>1 DEF ConnectionsInv, OneConfiguration, SameLimits
  <2>3. Serving(k)' => call'[k].left > 0
    BY <2>1 DEF Serving, Moved
  <2>4. QED
    BY <2>1, <2>2, <2>3, OneCallMoves DEF Moved
<1>5. CASE UNCHANGED connectionVars
  BY <1>0, <1>5 DEF connectionVars, ConnectionsInv, ConnectionsTypeOK, PoolInv, OneProvider,
                    OneConfiguration, Serving
<1>6. QED
  BY <1>1, <1>2, <1>3, <1>4, <1>5, DeathKeepsInv DEF ConnectionsNext

LEMMA ConnectionsCorrect == ConnectionsSpec => []ConnectionsInv
<1>1. QED
  BY ConnectionsInvInit, ConnectionsInvNext, PTL DEF ConnectionsSpec

---------------------------------------------------------------------------
(* Every variable keeps its type, for any number of concurrent calls.         *)
THEOREM ConnectionTypes == ConnectionsSpec => []ConnectionsTypeOK
<1>1. ConnectionsInv => ConnectionsTypeOK
  BY DEF ConnectionsInv
<1>2. QED
  BY <1>1, ConnectionsCorrect, PTL

(* A sql.DB never has more than one connection and no call ever waits for the *)
(* limit of its own, however many calls run and whatever limit is set.        *)
THEOREM OneEach == ConnectionsSpec => []OneConnection
<1>1. ASSUME ConnectionsInv, NEW k \in Call, call[k].phase \in {"opened", "ready"}
      PROVE  pool[k].idle > 0 \/ HasRoom(pool[k])
  <2>1. /\ pool[k].busy \in 0..1 /\ pool[k].idle \in 0..1 /\ pool[k].maxOpen \in Nat
        /\ pool[k].busy # 1
    BY <1>1, PoolFields DEF ConnectionsInv, PoolInv
  <2>2. QED
    BY <2>1 DEF HasRoom
<1>2. ConnectionsInv => OneConnection
  BY <1>1 DEF ConnectionsInv, OneConnection, PoolInv
<1>3. QED
  BY <1>2, ConnectionsCorrect, PTL

(* Without idle connections a returned call has left none open.               *)
THEOREM NoneLeft == ConnectionsSpec => []NoIdleNoLeak
<1>1. ASSUME ConnectionsInv, NEW k \in Call, call[k].phase = "done", pool[k].maxIdle = 0
      PROVE  pool[k].busy + pool[k].idle = 0
  <2>1. /\ pool[k].busy \in 0..1 /\ pool[k].idle \in 0..1
        /\ pool[k].busy # 1 /\ pool[k].idle <= pool[k].maxIdle
    BY <1>1, PoolFields DEF ConnectionsInv, PoolInv
  <2>2. QED
    BY <1>1, <2>1
<1>2. ConnectionsInv => NoIdleNoLeak
  BY <1>1 DEF NoIdleNoLeak
<1>3. QED
  BY <1>2, ConnectionsCorrect, PTL

(* A call works with the limits and the URL of one configuration, whatever    *)
(* configurations failed halfway before it.                                   *)
THEOREM Configured == ConnectionsSpec => []OneConfiguration
<1>1. ConnectionsInv => OneConfiguration
  BY DEF ConnectionsInv
<1>2. QED
  BY <1>1, ConnectionsCorrect, PTL
=============================================================================
