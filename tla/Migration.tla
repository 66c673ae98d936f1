----------------------------- MODULE Migration -----------------------------
(* The package internal/migration: what a migration is, which migrations an *)
(* update adds and removes, and the order in which their statements run.    *)
(*                                                                          *)
(* A list of migrations is a sequence. Subtract answers with POSITIONS of   *)
(* its first argument, not with a second sequence: the order in which the   *)
(* program keeps the remaining migrations is then the order of numbers, and *)
(* "the migrations still to run" is a set that only shrinks.                *)
EXTENDS Naturals, Sequences

CONSTANTS
    Id,      \* identifiers a migration block or a migration file can have
    BlankId, \* an identifier that is empty once trimmed
    Rev,     \* texts of an up / down pair: same id, other Rev = edited SQL
    NoUp,    \* those whose up statement is empty
    NoDown   \* those whose down statement is empty

ASSUME IdAssumption == BlankId \in Id
ASSUME RevAssumption == NoUp \subseteq Rev /\ NoDown \subseteq Rev

(* A migration. Its up statement creates the database object named by the   *)
(* whole record, its down statement drops that object: two texts of one id  *)
(* are two objects. An empty statement is executed and does nothing.        *)
Migration == [id : Id, rev : Rev]

Empty(m, up) == m.rev \in IF up THEN NoUp ELSE NoDown

(* What is left to see of a migration once its statement has run.           *)
InEffect(m, objects) == m \in objects \/ Empty(m, TRUE)
Undone(m, objects)   == m \notin objects \/ Empty(m, FALSE)

IdsOf(list) == {list[i].id : i \in DOMAIN list}

DistinctIds(list) ==
    \A i, j \in DOMAIN list : list[i].id = list[j].id => i = j

(* Broken variant: the whole record is compared, so that an edited migration  *)
(* is both removed and new.                                                   *)
SubtractByText(x, y) == {i \in DOMAIN x : \A j \in DOMAIN y : x[i] # y[j]}

(* Positions of x whose id appears nowhere in y: the comparison looks at    *)
(* the id alone, never at the text.                                         *)
Subtract(x, y) == {i \in DOMAIN x : x[i].id \notin IdsOf(y)}

(* Broken variants: the walk in the wrong direction.                          *)
IsNextUpBackwards(i, rest)  == i \in rest /\ \A j \in rest : j <= i
IsNextDownForwards(i, rest) == i \in rest /\ \A j \in rest : i <= j

(* runMigrations walks a list forwards for ups and backwards for downs.     *)
IsNextUp(i, rest)   == i \in rest /\ \A j \in rest : i <= j
IsNextDown(i, rest) == i \in rest /\ \A j \in rest : j <= i
=============================================================================
