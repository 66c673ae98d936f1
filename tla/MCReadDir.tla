------------------------------ MODULE MCReadDir ------------------------------
(* Small instances of ReadDir for TLC. *)
EXTENDS ReadDir

CONSTANTS
    s1, s2,            \* stems; s2 is s1 with something behind a dot
    up, UP, down,      \* mids
    sql, txt,          \* exts
    create, drop, comment, long

File(stem, mid, ext) == [stem |-> stem, mid |-> mid, ext |-> ext]

(* 1.UP.sql, 1.down.sql, 1.foo.up.sql, 1.sql, 1.up.sql, 1.up.txt: the files   *)
(* of one id are apart, one direction has two, one names none.                *)
MCSorted ==
    <<File(s1, UP, sql), File(s1, down, sql), File(s2, up, sql),
      File(s1, NoMid, sql), File(s1, up, sql), File(s1, up, txt)>>

MCUpMid == {up, UP}
MCDownMid == {down}
MCSqlExt == {sql}
MCComment == {comment, Separator}
MCLongLine == {long}

(* A text with both directions, and one of which a part is lost.              *)
MCLines == {<<create, Separator, drop>>, <<comment, drop, long, create>>}

(* Ids and revisions are whatever the reader makes. *)
MCId == {s1, s2} \X {NoMid, up, UP, down}
MCBlankId == <<s1, NoMid>>
MCRev == {}

(* One migration, one direction a file. *)
MCPair == <<File(s1, down, sql), File(s1, up, sql)>>
=============================================================================
