------------------------------ MODULE Provider ------------------------------
(* The provider object of one plugin process: ConfigureProvider, and the     *)
(* resolution of the URL a resource or data source connects to.              *)
EXTENDS Naturals

CONSTANTS
    Url,            \* URLs that parse and lead to a database
    NoUrl,          \* a null url attribute, an unset SQL_URL
    BadUrl,         \* a url parseUrl rejects: empty, no scheme, other driver
    UnknownUrl,     \* a url Terraform does not know yet
    Null,           \* a connection limit left out of the configuration
    NotInteger,     \* a connection limit that is unknown or no 64-bit integer
    ProviderConfig  \* the configurations, with the SQL_URL of the process

ASSUME ProviderAssumption ==
    /\ {NoUrl, BadUrl, UnknownUrl} \cap Url = {}
    /\ NoUrl # BadUrl /\ NoUrl # UnknownUrl /\ BadUrl # UnknownUrl
    /\ Null \notin Nat /\ NotInteger \notin Nat
    /\ ProviderConfig \subseteq
         [url : Url \cup {NoUrl, BadUrl, UnknownUrl},
          env : Url \cup {NoUrl, BadUrl},
          maxOpen : Nat \cup {Null, NotInteger},
          maxIdle : Nat \cup {Null, NotInteger}]

VARIABLE provider \* the fields Configure sets, and whether it succeeded

ProviderType == [configured : BOOLEAN, url : Url \cup {NoUrl, UnknownUrl},
                 maxOpen : Nat, maxIdle : Nat]

(* A process that has just started. *)
Fresh == [configured |-> FALSE, url |-> NoUrl, maxOpen |-> 0, maxIdle |-> 0]

ConfiguredUrl(c) == IF c.url = NoUrl THEN c.env ELSE c.url
MaxOpen(c) == IF c.maxOpen = Null THEN 0 ELSE c.maxOpen
MaxIdle(c) == IF c.maxIdle = Null THEN 2 ELSE c.maxIdle

(* Broken variant: a limit left out keeps the value of the configuration     *)
(* before.                                                                   *)
ConfigureKeepsLimits(c) ==
    /\ ConfiguredUrl(c) # BadUrl
    /\ c.maxOpen # NotInteger /\ c.maxIdle # NotInteger
    /\ provider' =
         [configured |-> TRUE, url |-> ConfiguredUrl(c),
          maxOpen |-> IF c.maxOpen = Null THEN provider.maxOpen ELSE c.maxOpen,
          maxIdle |-> IF c.maxIdle = Null THEN provider.maxIdle ELSE c.maxIdle]

(* Configure assigns field after field and returns at the first value it     *)
(* cannot read: the fields before it keep the new value.                     *)
Configure(c) ==
    \/ /\ ConfiguredUrl(c) = BadUrl
       /\ provider' = [provider EXCEPT !.configured = FALSE]
    \/ /\ ConfiguredUrl(c) # BadUrl /\ c.maxOpen = NotInteger
       /\ provider' = [provider EXCEPT !.configured = FALSE,
                                       !.url = ConfiguredUrl(c)]
    \/ /\ ConfiguredUrl(c) # BadUrl /\ c.maxOpen # NotInteger
       /\ c.maxIdle = NotInteger
       /\ provider' = [provider EXCEPT !.configured = FALSE,
                                       !.url = ConfiguredUrl(c),
                                       !.maxOpen = MaxOpen(c)]
    \/ /\ ConfiguredUrl(c) # BadUrl
       /\ c.maxOpen # NotInteger /\ c.maxIdle # NotInteger
       /\ provider' = [configured |-> TRUE, url |-> ConfiguredUrl(c),
                       maxOpen |-> MaxOpen(c), maxIdle |-> MaxIdle(c)]

(* GetDataSource: a null url stands for the provider's.                      *)
Resolve(u) == IF u = NoUrl THEN provider.url ELSE u

(* Broken variant: only a null url is refused.                               *)
ConnectableUnparsed(u) == Resolve(u) # NoUrl

(* parseUrlValue and parseUrl accept the resolved url, so that connect gets  *)
(* as far as the ping.                                                       *)
Connectable(u) == Resolve(u) \in Url
=============================================================================
