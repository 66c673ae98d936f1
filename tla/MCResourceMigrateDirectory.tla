---------------------- MODULE MCResourceMigrateDirectory ----------------------
(* Small instances of ResourceMigrateDirectory for TLC. *)
EXTENDS ResourceMigrateDirectory

CONSTANTS s1, s2, up, down, sql, create, drop, u1

File(stem, mid) == [stem |-> stem, mid |-> mid, ext |-> sql]

Bare == File(s1, NoMid)
Up1 == File(s1, up)
Down1 == File(s1, down)
Up2 == File(s2, up)
Down2 == File(s2, down)

(* 1.down.sql, 1.sql, 1.up.sql, 2.down.sql, 2.up.sql                          *)
MCSorted == <<Down1, Bare, Up1, Down2, Up2>>

MCUpMid == {up}
MCDownMid == {down}
MCSqlExt == {sql}

(* A whole pair, two of them, an up whose down is missing, and one file with  *)
(* both directions, which read as a pair is a migration without texts.        *)
Pair1 == Down1 :> <<drop>> @@ Up1 :> <<create>>
Pair2 == Down2 :> <<drop>> @@ Up2 :> <<create>>
MCDirectories ==
    {Pair1, Pair1 @@ Pair2, Up1 :> <<create>>, Bare :> <<create, Separator, drop>>}

Text == {<<>>, <<create>>, <<drop>>}
MCId == {s1, s2} \X {NoMid, up, down}
MCBlankId == <<s1, NoMid>>
MCRev == [up : Text, down : Text]
MCNoUp == {r \in MCRev : r.up = <<>>}
MCNoDown == {r \in MCRev : r.down = <<>>}

MCUrl == {u1}
MCResourceUrl == {NoUrl}
MCProvider == {[url |-> u1, env |-> NoUrl, maxOpen |-> Null, maxIdle |-> Null]}
=============================================================================
