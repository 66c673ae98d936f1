--------------------------- MODULE MCConnections ---------------------------
(* Small instances of Connections for TLC. *)
EXTENDS Connections

CONSTANTS u1, u2, k1, k2, k3

MCUrl == {u1, u2}
MCCall == {k1, k2}
MCThreeCalls == {k1, k2, k3}

Conf(url, env, maxOpen, maxIdle) ==
    [url |-> url, env |-> env, maxOpen |-> maxOpen, maxIdle |-> maxIdle]

(* Every way Configure can end, with limits at and around one.                *)
MCProviderConfig ==
    {Conf(u1, NoUrl, Null, Null), Conf(NoUrl, u2, 1, 0), Conf(u1, u2, 2, 1),
     Conf(NoUrl, BadUrl, 1, 1), Conf(u2, NoUrl, NotInteger, Null),
     Conf(NoUrl, NoUrl, 1, NotInteger), Conf(UnknownUrl, NoUrl, 1, 3)}

(* A limit of two connections and Go's default for the idle ones.             *)
MCLimited == {Conf(u1, NoUrl, 2, Null)}
=============================================================================
