------------------------------- MODULE ReadDir -------------------------------
(* ReadDir as it runs: it lists the directory once and then reads the files   *)
(* one by one, while editors, checkouts and other programs write there.       *)
EXTENDS Directory, FiniteSets

CONSTANTS
    Lines,        \* the texts a file can have
    MaxEdits,     \* edits of the directory in one behaviour
    NoDirectory   \* the directory does not exist

ASSUME ReadDirAssumption ==
    /\ Sorted \in Seq(ToSet(Sorted))
    /\ MaxEdits \in Nat

VARIABLES
    directory, \* what is there now
    call,      \* the call of ReadDir: [phase, split, todo, migrations], where
               \* todo holds the positions in Sorted of the files still to read
    edits,     \* edits so far
    seen       \* history: what the name at each listed position has stood for
               \* since the listing

readVars == <<directory, call, edits, seen>>

Name == ToSet(Sorted)
Entry == Lines \cup {Subdirectory}

Idle == [phase |-> "idle", split |-> FALSE, todo |-> {}, migrations |-> <<>>]

(* Any names can be there when the process starts.                            *)
ReadInit ==
    /\ directory \in {NoDirectory} \cup UNION {[S -> Entry] : S \in SUBSET Name}
    /\ call = Idle /\ edits = 0 /\ seen = <<>>

---------------------------------------------------------------------------
(* Everybody else. *)
Write(n, entry) ==
    /\ directory # NoDirectory /\ edits < MaxEdits
    /\ edits' = edits + 1
    /\ directory' = [m \in DOMAIN directory \cup {n} |->
                        IF m = n THEN entry ELSE directory[m]]
    /\ seen' = [i \in DOMAIN seen |->
                   IF Sorted[i] = n THEN seen[i] \cup {entry} ELSE seen[i]]
    /\ UNCHANGED call

Delete(n) ==
    /\ directory # NoDirectory /\ n \in DOMAIN directory /\ edits < MaxEdits
    /\ edits' = edits + 1
    /\ directory' = [m \in DOMAIN directory \ {n} |-> directory[m]]
    /\ UNCHANGED <<call, seen>>

---------------------------------------------------------------------------
(* The listing, and what the loop will take of it. *)
Begin(split, listing) ==
    /\ call' = [phase |-> "reading", split |-> split, todo |-> listing, migrations |-> <<>>]
    /\ seen' = [i \in listing |-> {directory[Sorted[i]]}]
    /\ UNCHANGED <<directory, edits>>

(* Broken variant: directories and other extensions are read like the rest.   *)
ListEverything(split) ==
    /\ call.phase = "idle" /\ directory # NoDirectory
    /\ Begin(split, {i \in DOMAIN Sorted : Sorted[i] \in DOMAIN directory})

List(split) ==
    /\ call.phase = "idle" /\ directory # NoDirectory
    /\ Begin(split, Listing(directory))

(* The directory is missing or unreadable, or an entry of it vanishes while   *)
(* ioutil.ReadDir asks for its details.                                       *)
ListFails ==
    /\ call.phase = "idle"
    /\ call' = [call EXCEPT !.phase = "failed"]
    /\ UNCHANGED <<directory, edits, seen>>

(* The file whose turn it is. *)
Turn(i) ==
    /\ call.phase = "reading"
    /\ i \in call.todo /\ \A j \in call.todo : i <= j

Readable(n) == n \in DOMAIN directory /\ directory[n] # Subdirectory

ReadFile(i) ==
    /\ Turn(i) /\ Readable(Sorted[i])
    /\ call' = [call EXCEPT
                  !.todo = @ \ {i},
                  !.migrations = AddFile(@, Sorted[i], directory[Sorted[i]], call.split)]
    /\ UNCHANGED <<directory, edits, seen>>

(* Broken variant: a file that cannot be read is skipped. *)
ReadFileSkips(i) ==
    /\ Turn(i) /\ ~Readable(Sorted[i])
    /\ call' = [call EXCEPT !.todo = @ \ {i}]
    /\ UNCHANGED <<directory, edits, seen>>

(* A file that is gone, or whose reading fails, fails the call, and what it   *)
(* has read is dropped.                                                       *)
ReadFileFails(i) ==
    /\ Turn(i)
    /\ call' = [call EXCEPT !.phase = "failed", !.todo = {}, !.migrations = <<>>]
    /\ UNCHANGED <<directory, edits, seen>>

Return ==
    /\ call.phase = "reading" /\ call.todo = {}
    /\ call' = [call EXCEPT !.phase = "done"]
    /\ UNCHANGED <<directory, edits, seen>>

ReadNext ==
    \/ \E n \in Name : (\E entry \in Entry : Write(n, entry)) \/ Delete(n)
    \/ \E split \in BOOLEAN : List(split)
    \/ \E i \in DOMAIN Sorted : ReadFile(i) \/ ReadFileFails(i)
    \/ ListFails \/ Return

ReadSpec == ReadInit /\ [][ReadNext]_readVars

---------------------------------------------------------------------------
(* What a reading of `files`, a function from positions of .sql names to      *)
(* lines, is to be, said without a loop.                                      *)
OfId(files, id) == {i \in DOMAIN files : PairId(Sorted[i]) = id}

(* The text of a direction: that of the last file of the id that names it.    *)
TextOf(files, id, mids) ==
    LET mine == {i \in OfId(files, id) : Sorted[i].mid \in mids}
    IN  IF mine = {} THEN <<>> ELSE CleanSQL(files[Max(mine)])

FirstOf(files, id) == Min(OfId(files, id))

IsPairReading(migrations, files) ==
    /\ DistinctIds(migrations)
    /\ IdsOf(migrations) = {PairId(Sorted[i]) : i \in DOMAIN files}
    /\ \A k, l \in DOMAIN migrations :
          k < l => FirstOf(files, migrations[k].id) < FirstOf(files, migrations[l].id)
    /\ \A k \in DOMAIN migrations :
          migrations[k].rev = [up |-> TextOf(files, migrations[k].id, UpMid),
                               down |-> TextOf(files, migrations[k].id, DownMid)]

(* The n-th file makes the n-th migration. *)
IsSplitReading(migrations, files) ==
    /\ Len(migrations) = Cardinality(DOMAIN files)
    /\ \A i \in DOMAIN files :
          migrations[Cardinality({j \in DOMAIN files : j <= i})] = SplitFile(Sorted[i], files[i])

IsReading(migrations, files, split) ==
    IF split THEN IsSplitReading(migrations, files) ELSE IsPairReading(migrations, files)

(* The listed files in all combinations, each with one of the texts it had during the call.       *)
Versions ==
    {f \in [DOMAIN seen -> Lines] : \A i \in DOMAIN seen : f[i] \in seen[i]}

(* A call that returns migrations has read every listed .sql file exactly     *)
(* once, grouped, ordered and directed as its name says, whoever writes the   *)
(* directory meanwhile: files come and go between the listing and their turn. *)
ReadsListing ==
    call.phase = "done" =>
        \E files \in Versions : IsReading(call.migrations, files, call.split)

(* The operator the resource is modelled with is what the loop computes when  *)
(* nobody else writes.                                                        *)
ReadsDirectory ==
    call.phase = "done" /\ edits = 0 =>
        call.migrations = ReadDirectory(directory, call.split)

(* A name never stands for two migrations of one reading, also with files     *)
(* that appear, vanish and change: Subtract compares ids alone.               *)
OneMigrationPerId ==
    ~call.split => DistinctIds(call.migrations)

---------------------------------------------------------------------------
(* dir.go:13: the option is StripLineComments. Every other line of a file     *)
(* that names its direction is in a migration, as dir_test.go:33-40 expects.  *)
Read == {call.migrations[i].rev.up : i \in DOMAIN call.migrations}
        \cup {call.migrations[i].rev.down : i \in DOMAIN call.migrations}

OnlyCommentsStripped ==
    call.phase = "done" /\ edits = 0 =>
        \A i \in DOMAIN seen : Sorted[i].mid \in UpMid \cup DownMid =>
            \A l \in ToSet(directory[Sorted[i]]) \ (Comment \cup {Separator}) :
                \E text \in Read : l \in ToSet(text)
=============================================================================
