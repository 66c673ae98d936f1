------------------------------ MODULE Directory ------------------------------
(* The reader of dir.go as operators: which files of a directory it takes,    *)
(* and what one file adds to the migrations read so far.                      *)
(*                                                                            *)
(* A file name is taken apart as the reader does it, "stem.mid.ext", with     *)
(* NoMid for "stem.ext"; a text is a sequence of lines.                       *)
EXTENDS Migration, SequencesExt

CONSTANTS
    Sorted,        \* the file names that can occur, [stem, mid, ext], in the
                   \* order in which ioutil.ReadDir lists them
    NoMid,         \* the mid of a name without one
    UpMid,         \* the mids that are "up" in any case
    DownMid,       \* the mids that are "down" in any case
    SqlExt,        \* the exts that are "sql" in any case
    Subdirectory,  \* what stands under a name that is no file
    Separator,     \* the line single_file_split is set to
    Comment,       \* the lines that begin with "--"
    LongLine       \* the lines that bufio.Scanner has no room for

(* A directory is a function from the names in it to lines or Subdirectory.   *)
Taken(directory, name) ==
    name.ext \in SqlExt /\ directory[name] # Subdirectory

(* The positions in Sorted of the files the loop of ReadDir goes on with.     *)
Listing(directory) ==
    {i \in DOMAIN Sorted : Sorted[i] \in DOMAIN directory /\ Taken(directory, Sorted[i])}

(* The scanner stops at a line it has no room for, and nobody asks it why.    *)
Scanned(lines) ==
    LET stop == SelectInSeq(lines, LAMBDA l : l \in LongLine)
    IN  IF stop = 0 THEN lines ELSE SubSeq(lines, 1, stop - 1)

CleanSQL(lines) == SelectSeq(Scanned(lines), LAMBDA l : l \notin Comment)

(* strings.SplitN(raw, split, 2): what is before and behind the first         *)
(* separator.                                                                 *)
BeforeSplit(lines) ==
    LET at == SelectInSeq(lines, LAMBDA l : l = Separator)
    IN  IF at = 0 THEN lines ELSE SubSeq(lines, 1, at - 1)
AfterSplit(lines) ==
    LET at == SelectInSeq(lines, LAMBDA l : l = Separator)
    IN  IF at = 0 THEN <<>> ELSE SubSeq(lines, at + 1, Len(lines))

(* One file for both directions: the id is the name without its ext.          *)
SplitFile(name, lines) ==
    [id |-> <<name.stem, name.mid>>,
     rev |-> [up |-> CleanSQL(BeforeSplit(lines)), down |-> CleanSQL(AfterSplit(lines))]]

(* One file for each direction: the id is the name without mid and ext,       *)
(* whatever the mid is.                                                       *)
PairId(name) == <<name.stem, NoMid>>

(* The migration that a file of a pair belongs to, appended when it is new.   *)
WithMigration(migrations, id) ==
    IF id \in IdsOf(migrations) THEN migrations
    ELSE Append(migrations, [id |-> id, rev |-> [up |-> <<>>, down |-> <<>>]])

(* Broken variant: the migration is taken for the last one, as if the files   *)
(* of one id always followed each other.                                      *)
PairFileToLast(migrations, name, lines) ==
    LET all == IF migrations # <<>> /\ Last(migrations).id = PairId(name) THEN migrations
               ELSE Append(migrations,
                           [id |-> PairId(name), rev |-> [up |-> <<>>, down |-> <<>>]])
    IN  [all EXCEPT ![Len(all)].rev =
            [up |-> IF name.mid \in UpMid THEN CleanSQL(lines) ELSE @.up,
             down |-> IF name.mid \in DownMid THEN CleanSQL(lines) ELSE @.down]]

(* A file of a pair sets the text of its direction. One that names no         *)
(* direction sets none: its migration is there and its text is lost.          *)
PairFile(migrations, name, lines) ==
    LET all == WithMigration(migrations, PairId(name))
        at  == SelectLastInSeq(all, LAMBDA m : m.id = PairId(name))
    IN  [all EXCEPT ![at].rev =
            [up |-> IF name.mid \in UpMid THEN CleanSQL(lines) ELSE @.up,
             down |-> IF name.mid \in DownMid THEN CleanSQL(lines) ELSE @.down]]

(* The body of the loop for one file.                                         *)
AddFile(migrations, name, lines, split) ==
    IF split THEN Append(migrations, SplitFile(name, lines))
    ELSE PairFile(migrations, name, lines)

(* What the loop of ReadDir does at the i-th name.                            *)
Visit(directory, split, migrations, i) ==
    IF i \in Listing(directory)
    THEN AddFile(migrations, Sorted[i], directory[Sorted[i]], split)
    ELSE migrations

(* Its migrations after the first i names, in a directory that nobody changes *)
(* meanwhile.                                                                 *)
Loop(directory, split) ==
    LET after[i \in 0..Len(Sorted)] ==
            IF i = 0 THEN <<>> ELSE Visit(directory, split, after[i - 1], i)
    IN  after

ReadDirectory(directory, split) == Loop(directory, split)[Len(Sorted)]
=============================================================================
