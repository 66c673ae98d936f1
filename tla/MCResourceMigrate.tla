-------------------------- MODULE MCResourceMigrate --------------------------
(* Small instances of ResourceMigrate for TLC. *)
EXTENDS ResourceMigrate

CONSTANTS a, b, blank, r1, r2, u1, u2

A1 == [id |-> a, rev |-> r1]
A2 == [id |-> a, rev |-> r2]
B1 == [id |-> b, rev |-> r1]

MCId == {a, b, blank}
MCRev == {r1, r2}

(* The edited text has no down any more. *)
MCNoUp == {}
MCNoDown == {r2}

(* b refers to what a creates. *)
MCNeeds == {<<B1, A1>>}
MCUrl == {u1, u2}
MCOneUrl == {u1}

(* Two migrations in both orders, one alone, an edited one, a repeated id,    *)
(* and the two lists Validate rejects.                                        *)
MCLists ==
    {<<>>, <<[id |-> blank, rev |-> r1]>>, <<A1>>, <<A2>>,
     <<A1, B1>>, <<B1, A1>>, <<A1, A2>>}

(* Two lists suffice where the question is not the lists. *)
MCFewLists == {<<A1>>, <<B1>>, <<A1, B1>>}

(* A list and a longer one: enough to create, extend, shorten and destroy.    *)
MCGrowing == {<<A1>>, <<A1, B1>>}

(* One migration on each resource, as the README advises. *)
MCSingles == {<<A1>>, <<B1>>}

Limits(url, env) == [url |-> url, env |-> env, maxOpen |-> Null, maxIdle |-> Null]

(* One provider configuration with a URL, one that leaves it to SQL_URL. *)
MCOneProvider == {Limits(u1, NoUrl)}
MCSqlUrlProvider == {Limits(NoUrl, u2)}
MCTwoProviders == {Limits(u1, NoUrl), Limits(NoUrl, u2)}
=============================================================================
