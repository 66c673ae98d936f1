---------------------------- MODULE ReadDirProofs ----------------------------
(* The loop of ReadDir, for every list of names, every directory and every    *)
(* sequence of edits: what it returns is a reading of what it listed, one     *)
(* migration for an id, and with no edits what ReadDirectory computes.        *)
EXTENDS ReadDir, SequenceTheorems, FiniteSetTheorems, WellFoundedInduction, TLAPS

Contents == UNION {[names -> Entry] : names \in SUBSET Name}

(* The ids and the texts that files can give.                                 *)
FileId == {PairId(n) : n \in Name} \cup {<<n.stem, n.mid>> : n \in Name}
Text == {<<>>} \cup UNION {{CleanSQL(lines), CleanSQL(BeforeSplit(lines)),
                            CleanSQL(AfterSplit(lines))} : lines \in Lines}
FileMigration == [id : FileId, rev : [up : Text, down : Text]]

CallType ==
    [phase : {"idle", "reading", "failed", "done"}, split : BOOLEAN,
     todo : SUBSET DOMAIN Sorted, migrations : Seq(FileMigration)]

ReadTypeOK ==
    /\ directory \in Contents \cup {NoDirectory}
    /\ call \in CallType
    /\ edits \in 0..MaxEdits
    /\ seen \in UNION {[listing -> SUBSET Entry] : listing \in SUBSET DOMAIN Sorted}

(* What has had its turn. *)
ReadOff == DOMAIN seen \ call.todo

Listed == call.phase \in {"reading", "done"}

(* The loop works off the listing from the front.                             *)
InOrder ==
    /\ call.todo \subseteq DOMAIN seen
    /\ \A i \in ReadOff, j \in call.todo : i < j

(* So far it has made a reading of the files that have had their turn, with   *)
(* texts that they had.                                                       *)
VersionsRead == {f \in [ReadOff -> Lines] : \A i \in ReadOff : f[i] \in seen[i]}
ReadSoFar == \E files \in VersionsRead : IsReading(call.migrations, files, call.split)

(* seen has kept up with the directory. *)
Watched ==
    /\ directory \in Contents
    /\ \A i \in DOMAIN seen :
          Sorted[i] \in DOMAIN directory => directory[Sorted[i]] \in seen[i]

(* With no edits the migrations are those of Loop at every position that      *)
(* parts what has been read from what has not.                                *)
LikeLoop ==
    edits = 0 =>
        /\ DOMAIN seen = Listing(directory)
        /\ \A n \in 0..Len(Sorted) :
              (\A i \in DOMAIN seen : i <= n <=> i \notin call.todo)
              => call.migrations = Loop(directory, call.split)[n]

ReadInv ==
    /\ ReadTypeOK
    /\ Listed => InOrder /\ ReadSoFar /\ Watched /\ LikeLoop
    /\ call.phase = "done" => call.todo = {}
    /\ ~Listed => call.migrations = <<>>

---------------------------------------------------------------------------
(* Numbers. *)
LEMMA LeastOfOrder ==
  ASSUME NEW less, IsWellFoundedOn(less, Nat), NEW S \in SUBSET Nat, S # {}
  PROVE  \E least \in S : \A i \in S : ~(<<i, least>> \in less)
<1>1. S \subseteq Nat
  OBVIOUS
<1>2. QED
  BY <1>1, WFMin, Zenon

LEMMA LeastOfSet ==
  ASSUME NEW S \in SUBSET Nat, S # {}
  PROVE  \E least \in S : \A i \in S : least <= i
<1> DEFINE less == {pair \in Nat \X Nat : pair[1] < pair[2]}
<1>1. IsWellFoundedOn(less, Nat)
  BY NatLessThanWellFounded DEF OpToRel
<1>2. PICK least \in S : \A i \in S : ~(<<i, least>> \in less)
  <2> HIDE DEF less
  <2>1. QED
    BY <1>1, LeastOfOrder
<1>3. ASSUME NEW i \in S PROVE least <= i
  <2>1. i \in Nat /\ least \in Nat /\ <<i, least>> \notin less
    BY <1>2
  <2>2. QED
    BY <2>1
<1>4. QED
  BY <1>3

(* Induction, as a statement about a set. *)
LEMMA SetInduction ==
  ASSUME NEW S \in SUBSET Nat, 0 \in S, \A n \in S : n + 1 \in S
  PROVE  S = Nat
<1>1. SUFFICES ASSUME Nat \ S # {} PROVE FALSE
  OBVIOUS
<1>2. PICK least \in Nat \ S : \A i \in Nat \ S : least <= i
  BY <1>1, LeastOfSet
<1>3. least - 1 \in S
  BY <1>2
<1>4. (least - 1) + 1 \in S
  BY <1>3
<1>5. QED
  BY <1>2, <1>4

LEMMA MinOfSet ==
  ASSUME NEW S \in SUBSET Nat, S # {}
  PROVE  Min(S) \in S /\ \A i \in S : Min(S) <= i
<1>1. \E least \in S : \A i \in S : least <= i
  BY LeastOfSet
<1>2. QED
  BY <1>1 DEF Min

LEMMA MinIs ==
  ASSUME NEW S \in SUBSET Nat, NEW least \in S, \A i \in S : least <= i
  PROVE  Min(S) = least
<1>1. Min(S) \in S /\ Min(S) <= least /\ least <= Min(S)
  BY MinOfSet
<1>2. Min(S) \in Nat /\ least \in Nat
  BY <1>1
<1>3. QED
  BY <1>1, <1>2

LEMMA MaxIs ==
  ASSUME NEW S \in SUBSET Nat, NEW most \in S, \A i \in S : i <= most
  PROVE  Max(S) = most
<1>1. \E i \in S : \A j \in S : i >= j
  OBVIOUS
<1>2. Max(S) \in S /\ Max(S) >= most
  BY <1>1 DEF Max
<1>3. Max(S) <= most /\ Max(S) \in Nat /\ most \in Nat
  BY <1>2
<1>4. QED
  BY <1>2, <1>3

LEMMA MaxOfSet ==
  ASSUME NEW n \in Nat, NEW S \in SUBSET (1..n), S # {}
  PROVE  Max(S) \in S /\ \A i \in S : i <= Max(S)
<1> DEFINE down == {n - i : i \in S}
<1>1. down \in SUBSET Nat /\ down # {}
  <2>1. PICK i \in S : TRUE
    OBVIOUS
  <2>2. n - i \in down
    OBVIOUS
  <2>3. \A j \in S : n - j \in Nat
    OBVIOUS
  <2>4. QED
    BY <2>2, <2>3
<1>2. PICK least \in down : \A j \in down : least <= j
  BY <1>1, LeastOfSet
<1>3. PICK most \in S : least = n - most
  OBVIOUS
<1>4. \A i \in S : i <= most
  <2> SUFFICES ASSUME NEW i \in S PROVE i <= most
    OBVIOUS
  <2>1. n - i \in down
    OBVIOUS
  <2>2. n - most <= n - i
    BY <1>2, <1>3, <2>1
  <2>3. QED
    BY <2>2
<1>5. Max(S) = most
  <2>1. S \in SUBSET Nat
    OBVIOUS
  <2> HIDE DEF down
  <2>2. QED
    BY <1>4, <2>1, MaxIs
<1>6. QED
  BY <1>4, <1>5

---------------------------------------------------------------------------
(* One file of a pair. *)
LEMMA IdsAndTexts ==
  /\ \A name \in Name : PairId(name) \in FileId /\ <<name.stem, name.mid>> \in FileId
  /\ <<>> \in Text
  /\ \A lines \in Lines : /\ CleanSQL(lines) \in Text
                          /\ CleanSQL(BeforeSplit(lines)) \in Text
                          /\ CleanSQL(AfterSplit(lines)) \in Text
<1>1. \A name \in Name : PairId(name) \in FileId /\ <<name.stem, name.mid>> \in FileId
  BY DEF FileId
<1>2. QED
  BY <1>1 DEF Text

(* The migration that a pair's file belongs to is there, once, at one place.  *)
LEMMA WithMigrationIs ==
  ASSUME NEW before \in Seq(FileMigration), DistinctIds(before), NEW id \in FileId
  PROVE  \E at \in DOMAIN WithMigration(before, id) :
           LET all == WithMigration(before, id) IN
           /\ all \in Seq(FileMigration) /\ DistinctIds(all)
           /\ all[at].id = id
           /\ DOMAIN all = DOMAIN before \cup {at}
           /\ \A k \in DOMAIN before : all[k] = before[k]
           /\ at \notin DOMAIN before =>
                 /\ at = Len(before) + 1 /\ id \notin IdsOf(before)
                 /\ all[at].rev = [up |-> <<>>, down |-> <<>>]
<1> DEFINE all == WithMigration(before, id)
<1>0. Len(before) \in Nat /\ DOMAIN before = 1..Len(before)
  BY LenProperties
<1>1. CASE id \in IdsOf(before)
  <2>1. all = before
    BY <1>1 DEF WithMigration
  <2>2. PICK at \in DOMAIN before : before[at].id = id
    BY <1>1 DEF IdsOf
  <2> HIDE DEF all
  <2>3. DOMAIN all = DOMAIN before \cup {at}
    BY <2>1
  <2>4. QED
    BY <2>1, <2>2, <2>3 DEF all
<1>2. CASE id \notin IdsOf(before)
  <2> DEFINE new == [id |-> id, rev |-> [up |-> <<>>, down |-> <<>>]]
  <2>1. all = Append(before, new)
    BY <1>2 DEF WithMigration
  <2>2. new \in FileMigration /\ new.id = id /\ new.rev = [up |-> <<>>, down |-> <<>>]
    BY IdsAndTexts DEF FileMigration
  <2> HIDE DEF new, all
  <2>3. /\ all \in Seq(FileMigration) /\ Len(all) = Len(before) + 1
        /\ \A k \in 1..Len(before) : all[k] = before[k]
        /\ all[Len(before) + 1] = new
    BY <2>1, <2>2, AppendProperties
  <2>4. DOMAIN all = 1..Len(before) + 1 /\ DOMAIN all = DOMAIN before \cup {Len(before) + 1}
    BY <1>0, <2>3, LenProperties
  <2>5. \A k \in DOMAIN before : before[k].id # id
    BY <1>2 DEF IdsOf
  <2>6. DistinctIds(all)
    <3> SUFFICES ASSUME NEW k \in DOMAIN all, NEW l \in DOMAIN all, all[k].id = all[l].id
                 PROVE  k = l
      BY DEF DistinctIds
    <3>1. CASE k \in DOMAIN before /\ l \in DOMAIN before
      BY <1>0, <2>3, <3>1 DEF DistinctIds
    <3>2. CASE k \in DOMAIN before /\ l = Len(before) + 1
      BY <1>0, <2>2, <2>3, <2>5, <3>2
    <3>3. CASE k = Len(before) + 1 /\ l \in DOMAIN before
      BY <1>0, <2>2, <2>3, <2>5, <3>3
    <3>4. QED
      BY <2>4, <3>1, <3>2, <3>3
  <2>7. QED
    BY <1>0, <1>2, <2>2, <2>3, <2>4, <2>6 DEF all
<1>3. QED
  BY <1>1, <1>2

(* The file sets its directions in the migration at one place, the last one   *)
(* when it is new, and leaves the others alone.                               *)
SetsAt(before, after, at, name, lines) ==
    LET id == PairId(name) IN
    /\ after \in Seq(FileMigration)
    /\ DOMAIN after = DOMAIN before \cup {at}
    /\ \A k \in DOMAIN before \ {at} : after[k] = before[k]
    /\ after[at].id = id
    /\ at \in DOMAIN before =>
          /\ before[at].id = id
          /\ after[at].rev =
               [up |-> IF name.mid \in UpMid THEN CleanSQL(lines) ELSE before[at].rev.up,
                down |-> IF name.mid \in DownMid THEN CleanSQL(lines)
                         ELSE before[at].rev.down]
    /\ at \notin DOMAIN before =>
          /\ at = Len(before) + 1 /\ id \notin IdsOf(before)
          /\ after[at].rev =
               [up |-> IF name.mid \in UpMid THEN CleanSQL(lines) ELSE <<>>,
                down |-> IF name.mid \in DownMid THEN CleanSQL(lines) ELSE <<>>]

LEMMA PairFileIs ==
  ASSUME NEW before \in Seq(FileMigration), DistinctIds(before),
         NEW name \in Name, NEW lines \in Lines,
         NEW after, after = PairFile(before, name, lines)
  PROVE  \E at \in DOMAIN after : SetsAt(before, after, at, name, lines)
<1> DEFINE id == PairId(name)
           all == WithMigration(before, id)
<1>0. id \in FileId
  BY IdsAndTexts
<1> HIDE DEF id
<1>1. PICK at \in DOMAIN all :
        /\ all \in Seq(FileMigration) /\ DistinctIds(all)
        /\ all[at].id = id
        /\ DOMAIN all = DOMAIN before \cup {at}
        /\ \A k \in DOMAIN before : all[k] = before[k]
        /\ at \notin DOMAIN before =>
              /\ at = Len(before) + 1 /\ id \notin IdsOf(before)
              /\ all[at].rev = [up |-> <<>>, down |-> <<>>]
  BY <1>0, WithMigrationIs
<1> HIDE DEF all
<1>2. Len(all) \in Nat /\ DOMAIN all = 1..Len(all)
  BY <1>1, LenProperties
<1> DEFINE rev == [up |-> IF name.mid \in UpMid THEN CleanSQL(lines) ELSE all[at].rev.up,
                   down |-> IF name.mid \in DownMid THEN CleanSQL(lines) ELSE all[at].rev.down]
           next == [all EXCEPT ![at].rev = rev]
<1>3. after = next
  <2> DEFINE mine == {k \in 1..Len(all) : all[k].id = id}
  <2>1. mine = {at}
    BY <1>1, <1>2 DEF DistinctIds
  <2>2. SelectLastInSeq(all, LAMBDA m : m.id = id) = IF mine # {} THEN Max(mine) ELSE 0
    BY DEF SelectLastInSeq
  <2>3. Max(mine) = at
    <3>1. mine \in SUBSET Nat /\ at \in mine /\ \A k \in mine : k <= at
      BY <1>2, <2>1
    <3> HIDE DEF mine
    <3>2. QED
      BY <3>1, MaxIs
  <2>4. SelectLastInSeq(all, LAMBDA m : m.id = id) = at
    BY <2>1, <2>2, <2>3
  <2>5. QED
    BY <2>4 DEF PairFile, all, id
<1>4. all[at] \in FileMigration
  BY <1>1, <1>2
<1>5. rev \in [up : Text, down : Text]
  BY <1>4, IdsAndTexts DEF FileMigration
<1> HIDE DEF rev
<1> DEFINE new == [all[at] EXCEPT !.rev = rev]
<1>6. new \in FileMigration /\ new.id = id /\ new.rev = rev
  BY <1>1, <1>4, <1>5 DEF FileMigration
<1>7. next = [all EXCEPT ![at] = new]
  OBVIOUS
<1> HIDE DEF next, new
<1>8. /\ next \in Seq(FileMigration) /\ DOMAIN next = DOMAIN all
      /\ next[at] = new /\ \A k \in DOMAIN all \ {at} : next[k] = all[k]
  <2>1. next \in Seq(FileMigration) /\ Len(next) = Len(all)
    BY <1>1, <1>2, <1>6, <1>7, ExceptSeq
  <2>2. QED
    BY <1>1, <1>2, <1>7, <2>1, LenProperties
<1>9. QED
  BY <1>1, <1>3, <1>6, <1>8 DEF SetsAt, id, rev

(* more is files and one more, behind them.                                   *)
OneMore(files, more, p) ==
    /\ DOMAIN files \in SUBSET DOMAIN Sorted /\ p \in DOMAIN Sorted
    /\ \A i \in DOMAIN files : i < p
    /\ DOMAIN more = DOMAIN files \cup {p}
    /\ \A i \in DOMAIN files : more[i] = files[i]

LEMMA Positions ==
  /\ Len(Sorted) \in Nat /\ DOMAIN Sorted = 1..Len(Sorted)
  /\ \A i \in DOMAIN Sorted : i \in Nat /\ Sorted[i] \in Name
<1>1. Sorted \in Seq(Name)
  BY ReadDirAssumption DEF Name
<1>2. QED
  BY <1>1, LenProperties, ElementOfSeq

LEMMA OfIdMore ==
  ASSUME NEW files, NEW more, NEW p, OneMore(files, more, p), NEW id
  PROVE  /\ p \in Nat /\ p \notin DOMAIN files /\ DOMAIN files \in SUBSET Nat
         /\ OfId(files, id) \in SUBSET DOMAIN files
         /\ OfId(more, id) =
              IF PairId(Sorted[p]) = id THEN OfId(files, id) \cup {p} ELSE OfId(files, id)
<1>1. p \in Nat /\ DOMAIN files \in SUBSET Nat
  BY Positions DEF OneMore
<1>2. p \notin DOMAIN files
  BY <1>1 DEF OneMore
<1>3. QED
  BY <1>1, <1>2 DEF OneMore, OfId

(* The last file that names a direction gives its text.                       *)
LEMMA TextOfMore ==
  ASSUME NEW files, NEW more, NEW p, OneMore(files, more, p), NEW id, NEW mids
  PROVE  TextOf(more, id, mids) =
           IF PairId(Sorted[p]) = id /\ Sorted[p].mid \in mids THEN CleanSQL(more[p])
           ELSE TextOf(files, id, mids)
<1> DEFINE mine == {i \in OfId(files, id) : Sorted[i].mid \in mids}
           mineMore == {i \in OfId(more, id) : Sorted[i].mid \in mids}
<1>1. /\ p \in Nat /\ p \notin DOMAIN files /\ DOMAIN files \in SUBSET Nat
      /\ OfId(files, id) \in SUBSET DOMAIN files
      /\ OfId(more, id) =
           IF PairId(Sorted[p]) = id THEN OfId(files, id) \cup {p} ELSE OfId(files, id)
  BY OfIdMore
<1>2. TextOf(more, id, mids) = IF mineMore = {} THEN <<>> ELSE CleanSQL(more[Max(mineMore)])
  BY DEF TextOf
<1>3. TextOf(files, id, mids) = IF mine = {} THEN <<>> ELSE CleanSQL(files[Max(mine)])
  BY DEF TextOf
<1>4. CASE PairId(Sorted[p]) = id /\ Sorted[p].mid \in mids
  <2>1. p \in mineMore /\ mineMore \in SUBSET (DOMAIN files \cup {p})
    BY <1>1, <1>4
  <2>2. mineMore \in SUBSET Nat /\ \A i \in mineMore : i <= p
    BY <1>1, <2>1 DEF OneMore
  <2> HIDE DEF mineMore
  <2>3. Max(mineMore) = p
    BY <2>1, <2>2, MaxIs
  <2>4. QED
    BY <1>2, <1>4, <2>1, <2>3
<1>5. CASE ~(PairId(Sorted[p]) = id /\ Sorted[p].mid \in mids)
  <2>1. mineMore = mine /\ mine \in SUBSET DOMAIN files /\ mine \in SUBSET (1..Len(Sorted))
    BY <1>1, <1>5, Positions DEF OneMore
  <2> HIDE DEF mineMore, mine
  <2>2. mine # {} => Max(mine) \in DOMAIN files
    BY <2>1, MaxOfSet, Positions
  <2>3. mine # {} => more[Max(mine)] = files[Max(mine)]
    BY <2>2 DEF OneMore
  <2>4. QED
    BY <1>2, <1>3, <1>5, <2>1, <2>3
<1>6. QED
  BY <1>4, <1>5

LEMMA FirstOfMore ==
  ASSUME NEW files, NEW more, NEW p, OneMore(files, more, p), NEW id
  PROVE  /\ OfId(files, id) # {} =>
              /\ FirstOf(more, id) = FirstOf(files, id)
              /\ FirstOf(files, id) \in DOMAIN files
         /\ OfId(files, id) = {} /\ PairId(Sorted[p]) = id => FirstOf(more, id) = p
<1>1. /\ p \in Nat /\ p \notin DOMAIN files /\ DOMAIN files \in SUBSET Nat
      /\ OfId(files, id) \in SUBSET DOMAIN files
      /\ OfId(more, id) =
           IF PairId(Sorted[p]) = id THEN OfId(files, id) \cup {p} ELSE OfId(files, id)
  BY OfIdMore
<1>2. OfId(files, id) \in SUBSET Nat /\ OfId(more, id) \in SUBSET Nat
  BY <1>1
<1>3. CASE OfId(files, id) # {}
  <2>1. /\ FirstOf(files, id) \in OfId(files, id)
        /\ \A i \in OfId(files, id) : FirstOf(files, id) <= i
    BY <1>2, <1>3, MinOfSet DEF FirstOf
  <2>2. FirstOf(files, id) \in OfId(more, id) /\ FirstOf(files, id) \in DOMAIN files
    BY <1>1, <2>1
  <2>3. FirstOf(files, id) < p
    BY <2>2 DEF OneMore
  <2>4. \A i \in OfId(more, id) : FirstOf(files, id) <= i
    BY <1>1, <1>2, <2>1, <2>2, <2>3
  <2>5. FirstOf(more, id) = FirstOf(files, id)
    BY <1>2, <2>2, <2>4, MinIs DEF FirstOf
  <2>6. QED
    BY <1>3, <2>2, <2>5
<1>4. CASE OfId(files, id) = {} /\ PairId(Sorted[p]) = id
  <2>1. OfId(more, id) = {p}
    BY <1>1, <1>4
  <2>2. FirstOf(more, id) = p
    BY <1>1, <1>2, <2>1, MinIs DEF FirstOf
  <2>3. QED
    BY <1>4, <2>2
<1>5. QED
  BY <1>3, <1>4

(* A pair's file makes of a reading of the files before it one with it.       *)
LEMMA PairReadingMore ==
  ASSUME NEW files, NEW more, NEW p, OneMore(files, more, p), more[p] \in Lines,
         NEW before \in Seq(FileMigration), IsPairReading(before, files)
  PROVE  /\ PairFile(before, Sorted[p], more[p]) \in Seq(FileMigration)
         /\ IsPairReading(PairFile(before, Sorted[p], more[p]), more)
<1> DEFINE name == Sorted[p]
           lines == more[p]
           id == PairId(name)
           after == PairFile(before, name, lines)
<1>0. /\ name \in Name /\ lines \in Lines /\ DistinctIds(before)
      /\ Len(before) \in Nat /\ DOMAIN before = 1..Len(before)
  BY Positions, LenProperties DEF OneMore, IsPairReading
<1> HIDE DEF name, lines
<1>1. PICK at \in DOMAIN after : SetsAt(before, after, at, name, lines)
  <2> HIDE DEF after
  <2>1. after = PairFile(before, name, lines)
    BY DEF after
  <2>2. QED
    BY <1>0, <2>1, PairFileIs, Zenon
<1> HIDE DEF id, after
<1>1a. /\ after \in Seq(FileMigration)
       /\ DOMAIN after = DOMAIN before \cup {at}
       /\ \A k \in DOMAIN before \ {at} : after[k] = before[k]
       /\ after[at].id = id
       /\ at \in DOMAIN before => before[at].id = id
       /\ at \notin DOMAIN before => at = Len(before) + 1 /\ id \notin IdsOf(before)
  BY <1>1 DEF SetsAt, id
<1>2. \A k \in DOMAIN before : after[k].id = before[k].id
  BY <1>1a
<1>3. \A k \in DOMAIN before \ {at} : before[k].id # id
  <2>1. CASE at \in DOMAIN before
    BY <1>0, <1>1a, <2>1 DEF DistinctIds
  <2>2. CASE at \notin DOMAIN before
    BY <1>1a, <2>2 DEF IdsOf
  <2>3. QED
    BY <2>1, <2>2
<1>4. DistinctIds(after)
  BY <1>0, <1>1a, <1>2, <1>3 DEF DistinctIds
<1>5. IdsOf(before) = {PairId(Sorted[i]) : i \in DOMAIN files}
  BY DEF IsPairReading
<1>6. IdsOf(after) = {PairId(Sorted[i]) : i \in DOMAIN more}
  <2>1. IdsOf(after) = IdsOf(before) \cup {id}
    BY <1>1a, <1>2 DEF IdsOf
  <2>2. {PairId(Sorted[i]) : i \in DOMAIN more} = IdsOf(before) \cup {id}
    BY <1>5 DEF OneMore, id, name
  <2>3. QED
    BY <2>1, <2>2
<1>7. ASSUME NEW k \in DOMAIN before PROVE OfId(files, before[k].id) # {}
  BY <1>5 DEF IdsOf, OfId
<1>8. at \notin DOMAIN before => OfId(files, id) = {}
  BY <1>1a, <1>5 DEF OfId
<1>9. \A k \in DOMAIN before :
        /\ FirstOf(more, after[k].id) = FirstOf(files, before[k].id)
        /\ FirstOf(files, before[k].id) \in DOMAIN files
        /\ FirstOf(files, before[k].id) < p
  <2> SUFFICES ASSUME NEW k \in DOMAIN before
               PROVE  /\ FirstOf(more, after[k].id) = FirstOf(files, before[k].id)
                      /\ FirstOf(files, before[k].id) \in DOMAIN files
                      /\ FirstOf(files, before[k].id) < p
    OBVIOUS
  <2>1. /\ FirstOf(more, before[k].id) = FirstOf(files, before[k].id)
        /\ FirstOf(files, before[k].id) \in DOMAIN files
    BY <1>7, FirstOfMore
  <2>2. QED
    BY <1>2, <2>1 DEF OneMore
<1>10. at \notin DOMAIN before => FirstOf(more, id) = p
  BY <1>8, FirstOfMore DEF id, name
<1>11. ASSUME NEW k \in DOMAIN after, NEW l \in DOMAIN after, k < l
       PROVE  FirstOf(more, after[k].id) < FirstOf(more, after[l].id)
  <2>1. CASE k \in DOMAIN before /\ l \in DOMAIN before
    <3>1. FirstOf(files, before[k].id) < FirstOf(files, before[l].id)
      BY <1>11, <2>1 DEF IsPairReading
    <3>2. QED
      BY <1>9, <2>1, <3>1
  <2>2. CASE k \in DOMAIN before /\ l \notin DOMAIN before
    BY <1>1a, <1>9, <1>10, <2>2
  <2>3. CASE k \notin DOMAIN before
    BY <1>0, <1>1a, <1>11, <2>3
  <2>4. QED
    BY <2>1, <2>2, <2>3
<1>12. ASSUME NEW k \in DOMAIN after
       PROVE  after[k].rev = [up |-> TextOf(more, after[k].id, UpMid),
                              down |-> TextOf(more, after[k].id, DownMid)]
  <2>0. ASSUME NEW j \in DOMAIN before
        PROVE  before[j].rev = [up |-> TextOf(files, before[j].id, UpMid),
                                down |-> TextOf(files, before[j].id, DownMid)]
    BY DEF IsPairReading
  <2>1. CASE k # at
    <3>1. k \in DOMAIN before /\ after[k] = before[k] /\ before[k].id # id
      BY <1>1a, <1>3, <2>1
    <3>2. /\ TextOf(more, before[k].id, UpMid) = TextOf(files, before[k].id, UpMid)
          /\ TextOf(more, before[k].id, DownMid) = TextOf(files, before[k].id, DownMid)
      BY <3>1, TextOfMore DEF id, name
    <3>3. QED
      BY <2>0, <3>1, <3>2
  <2>2. CASE k = at
    <3>1. /\ TextOf(more, id, UpMid) = IF name.mid \in UpMid THEN CleanSQL(lines)
                                       ELSE TextOf(files, id, UpMid)
          /\ TextOf(more, id, DownMid) = IF name.mid \in DownMid THEN CleanSQL(lines)
                                         ELSE TextOf(files, id, DownMid)
      BY TextOfMore DEF id, name, lines
    <3>2. CASE at \in DOMAIN before
      <4>1. /\ before[at].rev.up = TextOf(files, id, UpMid)
            /\ before[at].rev.down = TextOf(files, id, DownMid)
        <5>1. before[at].id = id
          BY <1>1a, <3>2
        <5>2. before[at].rev = [up |-> TextOf(files, before[at].id, UpMid),
                                down |-> TextOf(files, before[at].id, DownMid)]
          BY <2>0, <3>2
        <5>3. QED
          BY <5>1, <5>2
      <4>2. QED
        BY <1>1, <1>1a, <2>2, <3>1, <3>2, <4>1 DEF SetsAt
    <3>3. CASE at \notin DOMAIN before
      <4>1. TextOf(files, id, UpMid) = <<>> /\ TextOf(files, id, DownMid) = <<>>
        BY <1>8, <3>3 DEF TextOf
      <4>2. QED
        BY <1>1, <1>1a, <2>2, <3>1, <3>3, <4>1 DEF SetsAt
    <3>4. QED
      BY <3>2, <3>3
  <2>3. QED
    BY <2>1, <2>2
<1>13. IsPairReading(after, more)
  BY <1>4, <1>6, <1>11, <1>12 DEF IsPairReading
<1>14. QED
  BY <1>1a, <1>13 DEF after, name, lines

LEMMA SplitFileIs ==
  ASSUME NEW name \in Name, NEW lines \in Lines
  PROVE  SplitFile(name, lines) \in FileMigration
<1>1. /\ <<name.stem, name.mid>> \in FileId
      /\ CleanSQL(BeforeSplit(lines)) \in Text /\ CleanSQL(AfterSplit(lines)) \in Text
  BY IdsAndTexts
<1>2. QED
  BY <1>1 DEF SplitFile, FileMigration

(* With single_file_split a file makes a migration of its own, the last one.  *)
LEMMA SplitReadingMore ==
  ASSUME NEW files, NEW more, NEW p, OneMore(files, more, p), more[p] \in Lines,
         NEW before \in Seq(FileMigration), IsSplitReading(before, files)
  PROVE  /\ Append(before, SplitFile(Sorted[p], more[p])) \in Seq(FileMigration)
         /\ IsSplitReading(Append(before, SplitFile(Sorted[p], more[p])), more)
<1> DEFINE last == SplitFile(Sorted[p], more[p])
           after == Append(before, last)
           read == DOMAIN files
<1>0. /\ p \in Nat /\ p \notin read /\ read \in SUBSET Nat /\ read \subseteq 1..Len(Sorted)
      /\ Len(Sorted) \in Nat /\ \A i \in read : i < p
      /\ DOMAIN more = read \cup {p} /\ \A i \in read : more[i] = files[i]
  BY OfIdMore, Positions DEF OneMore
<1>1. last \in FileMigration
  BY SplitFileIs, Positions DEF OneMore
<1>2. /\ Len(before) \in Nat /\ Len(before) = Cardinality(read)
      /\ \A i \in read : before[Cardinality({j \in read : j <= i})] = SplitFile(Sorted[i], files[i])
  BY LenProperties DEF IsSplitReading
<1> HIDE DEF last, read
<1>3. /\ after \in Seq(FileMigration) /\ Len(after) = Len(before) + 1
      /\ \A k \in 1..Len(before) : after[k] = before[k]
      /\ after[Len(before) + 1] = last
  BY <1>1, AppendProperties
<1> HIDE DEF after
<1>4. IsFiniteSet(read)
  <2>1. IsFiniteSet(1..Len(Sorted))
    BY <1>0, FS_Interval
  <2>2. QED
    BY <1>0, <2>1, FS_Subset
<1>5. Cardinality(read \cup {p}) = Len(before) + 1
  BY <1>0, <1>2, <1>4, FS_AddElement
<1>6. ASSUME NEW i \in read
      PROVE  after[Cardinality({j \in read \cup {p} : j <= i})] = SplitFile(Sorted[i], more[i])
  <2> DEFINE upTo == {j \in read : j <= i}
  <2>1. i \in upTo /\ upTo \subseteq read
    BY <1>0
  <2>2. {j \in read \cup {p} : j <= i} = upTo
    <3>1. ~(p <= i)
      BY <1>0
    <3>2. QED
      BY <3>1
  <2>3. before[Cardinality(upTo)] = SplitFile(Sorted[i], more[i])
    BY <1>0, <1>2
  <2> HIDE DEF upTo
  <2>4. IsFiniteSet(upTo) /\ Cardinality(upTo) <= Cardinality(read)
    BY <1>4, <2>1, FS_Subset
  <2>5. Cardinality(upTo) \in Nat /\ Cardinality(upTo) # 0
    BY <2>1, <2>4, FS_CardinalityType, FS_EmptySet
  <2>6. Cardinality(upTo) \in 1..Len(before)
    BY <1>2, <2>4, <2>5
  <2>7. QED
    BY <1>3, <2>2, <2>3, <2>6
<1>7. after[Cardinality({j \in read \cup {p} : j <= p})] = last
  <2>1. {j \in read \cup {p} : j <= p} = read \cup {p}
    <3>1. p <= p /\ \A j \in read : j \in Nat /\ j <= p
      BY <1>0
    <3>2. \A j \in read \cup {p} : j <= p
      BY <3>1
    <3>3. QED
      BY <3>2
  <2>2. QED
    BY <1>3, <1>5, <2>1
<1>8. IsSplitReading(after, more)
  BY <1>0, <1>3, <1>5, <1>6, <1>7 DEF IsSplitReading, last
<1>9. QED
  BY <1>3, <1>8 DEF after, last

---------------------------------------------------------------------------
(* The loop in a directory that nobody changes. *)

(* A function that follows Visit as far as n. *)
Follows(contents, split, after, n) ==
    after = [i \in 0..n |-> IF i = 0 THEN <<>> ELSE Visit(contents, split, after[i - 1], i)]

LEMMA SomeFollows ==
  ASSUME NEW contents, NEW split, NEW n \in Nat
  PROVE  \E after : Follows(contents, split, after, n)
<1> DEFINE S == {k \in Nat : \E after : Follows(contents, split, after, k)}
<1>1. 0 \in S
  <2> DEFINE after == [i \in 0..0 |-> <<>>]
  <2>1. after = [i \in 0..0 |-> IF i = 0 THEN <<>>
                                ELSE Visit(contents, split, after[i - 1], i)]
    OBVIOUS
  <2>2. Follows(contents, split, after, 0)
    BY <2>1 DEF Follows
  <2>3. QED
    BY <2>2
<1>2. ASSUME NEW k \in S PROVE k + 1 \in S
  <2>1. PICK after : Follows(contents, split, after, k)
    OBVIOUS
  <2>2. k \in Nat
    OBVIOUS
  <2>3. \A i \in 0..k : after[i] = IF i = 0 THEN <<>>
                                   ELSE Visit(contents, split, after[i - 1], i)
    BY <2>1 DEF Follows
  <2> DEFINE longer == [i \in 0..(k + 1) |->
                          IF i \in 0..k THEN after[i] ELSE Visit(contents, split, after[k], k + 1)]
             same == [i \in 0..(k + 1) |-> IF i = 0 THEN <<>>
                                           ELSE Visit(contents, split, longer[i - 1], i)]
  <2>4. \A i \in 0..k : longer[i] = after[i]
    BY <2>2
  <2>5. ASSUME NEW i \in 0..(k + 1) PROVE longer[i] = same[i]
    <3>1. CASE i = 0
      BY <2>2, <2>3, <3>1
    <3>2. CASE i \in 1..k
      <4>1. /\ i \in 0..k /\ i - 1 \in 0..k /\ i # 0
        BY <2>2, <3>2
      <4>2. longer[i - 1] = after[i - 1] /\ longer[i] = after[i]
        BY <2>4, <4>1
      <4>3. after[i] = Visit(contents, split, after[i - 1], i)
        BY <2>3, <4>1
      <4>4. same[i] = Visit(contents, split, longer[i - 1], i)
        BY <4>1
      <4>5. QED
        BY <4>2, <4>3, <4>4
    <3>3. CASE i = k + 1
      <4>1. /\ k + 1 \in 0..(k + 1) /\ k + 1 \notin 0..k /\ (k + 1) - 1 = k /\ k \in 0..k
            /\ k + 1 # 0
        BY <2>2
      <4>2. longer[i] = Visit(contents, split, after[k], k + 1)
        BY <3>3, <4>1
      <4>3. longer[(k + 1) - 1] = after[k]
        BY <2>4, <4>1
      <4>4. same[i] = Visit(contents, split, longer[(k + 1) - 1], k + 1)
        BY <3>3, <4>1
      <4>5. QED
        BY <4>2, <4>3, <4>4
    <3>4. QED
      BY <2>2, <3>1, <3>2, <3>3
  <2>6. longer = same
    <3>1. DOMAIN longer = 0..(k + 1) /\ DOMAIN same = 0..(k + 1)
      OBVIOUS
    <3>2. longer = [i \in 0..(k + 1) |-> longer[i]] /\ same = [i \in 0..(k + 1) |-> same[i]]
      OBVIOUS
    <3> HIDE DEF longer, same
    <3>3. QED
      BY <2>5, <3>2, Zenon
  <2>7. Follows(contents, split, longer, k + 1)
    BY <2>6 DEF Follows
  <2> HIDE DEF longer
  <2>8. QED
    BY <2>2, <2>7
<1> HIDE DEF S
<1>3. S = Nat
  <2>1. S \in SUBSET Nat
    BY DEF S
  <2>2. QED
    BY <1>1, <1>2, <2>1, SetInduction
<1>4. n \in S
  BY <1>3
<1>5. QED
  BY <1>4 DEF S

(* So the recursion of Loop is well-founded: it is what it says.              *)
LEMMA LoopIs ==
  ASSUME NEW contents, NEW split
  PROVE  /\ Loop(contents, split)[0] = <<>>
         /\ \A i \in 1..Len(Sorted) :
               Loop(contents, split)[i] = Visit(contents, split, Loop(contents, split)[i - 1], i)
<1> DEFINE loop == Loop(contents, split)
<1>1. \E after : after = [i \in 0..Len(Sorted) |->
                            IF i = 0 THEN <<>> ELSE Visit(contents, split, after[i - 1], i)]
  <2>1. PICK after : Follows(contents, split, after, Len(Sorted))
    BY SomeFollows, Positions
  <2>2. after = [i \in 0..Len(Sorted) |->
                   IF i = 0 THEN <<>> ELSE Visit(contents, split, after[i - 1], i)]
    BY <2>1 DEF Follows
  <2>3. QED
    BY <2>2, Zenon
<1>2. loop = CHOOSE after : after = [i \in 0..Len(Sorted) |->
                            IF i = 0 THEN <<>> ELSE Visit(contents, split, after[i - 1], i)]
  BY DEF Loop
<1> HIDE DEF loop
<1>3. loop = [i \in 0..Len(Sorted) |->
                            IF i = 0 THEN <<>> ELSE Visit(contents, split, loop[i - 1], i)]
  BY <1>1, <1>2, Zenon
<1>4. 0 \in 0..Len(Sorted) /\ \A i \in 1..Len(Sorted) : i \in 0..Len(Sorted) /\ i # 0
  BY Positions
<1>5. loop[0] = <<>>
  BY <1>3, <1>4
<1>6. \A i \in 1..Len(Sorted) : loop[i] = Visit(contents, split, loop[i - 1], i)
  BY <1>3, <1>4
<1>7. QED
  BY <1>5, <1>6 DEF loop

(* Over names that it passes the loop changes nothing.                        *)
LEMMA LoopStands ==
  ASSUME NEW contents, NEW split, NEW a \in 0..Len(Sorted), NEW b \in 0..Len(Sorted), a <= b,
         \A i \in Listing(contents) : i <= a \/ b < i
  PROVE  Loop(contents, split)[b] = Loop(contents, split)[a]
<1> DEFINE loop == Loop(contents, split)
           S == {k \in Nat : a + k <= b => loop[a + k] = loop[a]}
<1>0. Len(Sorted) \in Nat /\ a \in Nat /\ b \in Nat /\ b <= Len(Sorted)
  BY Positions
<1>1. \A i \in 1..Len(Sorted) : loop[i] = Visit(contents, split, loop[i - 1], i)
  BY LoopIs
<1> HIDE DEF loop
<1>2. 0 \in S
  BY <1>0
<1>3. ASSUME NEW k \in S PROVE k + 1 \in S
  <2>1. SUFFICES ASSUME a + (k + 1) <= b PROVE loop[a + (k + 1)] = loop[a]
    BY <1>0
  <2>2. /\ k \in Nat /\ a + (k + 1) \in 1..Len(Sorted) /\ (a + (k + 1)) - 1 = a + k
        /\ a + k <= b
    BY <1>0, <2>1
  <2>3. a + (k + 1) \notin Listing(contents)
    BY <1>0, <2>1, <2>2
  <2>4. loop[a + (k + 1)] = loop[a + k]
    BY <1>1, <2>2, <2>3 DEF Visit
  <2>5. QED
    BY <2>2, <2>4
<1>4. S = Nat
  <2>1. S \in SUBSET Nat
    OBVIOUS
  <2> HIDE DEF S
  <2>2. QED
    BY <1>2, <1>3, <2>1, SetInduction
<1>5. b - a \in Nat /\ a + (b - a) = b
  BY <1>0
<1>6. \A k \in Nat : a + k <= b => loop[a + k] = loop[a]
  BY <1>4
<1>7. loop[a + (b - a)] = loop[a]
  BY <1>0, <1>5, <1>6
<1>8. QED
  BY <1>5, <1>7 DEF loop

---------------------------------------------------------------------------
(* The invariant, action by action. *)
LEMMA ReadInvInit ==
  ReadInit => ReadInv
<1>1. SUFFICES ASSUME ReadInit PROVE ReadInv
  OBVIOUS
<1>2. directory \in Contents \cup {NoDirectory}
  BY <1>1 DEF ReadInit, Contents
<1>3. call \in CallType /\ ~Listed /\ call.phase # "done" /\ call.migrations = <<>>
  BY <1>1 DEF ReadInit, Idle, CallType, Listed
<1>4. edits \in 0..MaxEdits
  BY <1>1, ReadDirAssumption DEF ReadInit
<1>5. seen \in UNION {[listing -> SUBSET Entry] : listing \in SUBSET DOMAIN Sorted}
  <2>1. seen \in [{} -> SUBSET Entry]
    BY <1>1 DEF ReadInit
  <2>2. QED
    BY <2>1
<1>6. QED
  BY <1>2, <1>3, <1>4, <1>5 DEF ReadInv, ReadTypeOK

(* An edit changes what is there, and seen with it, and nothing of the call.  *)
LEMMA EditKeeps ==
  ASSUME ReadInv, UNCHANGED call, edits' = edits + 1, edits < MaxEdits,
         directory' \in Contents, DOMAIN seen' = DOMAIN seen,
         seen' \in [DOMAIN seen -> SUBSET Entry],
         \A i \in DOMAIN seen : seen[i] \subseteq seen'[i],
         Listed => Watched'
  PROVE  ReadInv'
<1>1. ReadTypeOK'
  <2>1. DOMAIN seen \in SUBSET DOMAIN Sorted
    BY DEF ReadInv, ReadTypeOK
  <2>2. seen' \in UNION {[l -> SUBSET Entry] : l \in SUBSET DOMAIN Sorted}
    BY <2>1
  <2>3. edits' \in 0..MaxEdits
    BY ReadDirAssumption DEF ReadInv, ReadTypeOK
  <2>4. QED
    BY <2>2, <2>3 DEF ReadInv, ReadTypeOK
<1>2. ASSUME Listed PROVE InOrder' /\ ReadSoFar' /\ Watched' /\ LikeLoop'
  <2>1. InOrder'
    BY <1>2 DEF ReadInv, InOrder, ReadOff
  <2>2. ReadSoFar'
    <3>1. PICK files \in VersionsRead : IsReading(call.migrations, files, call.split)
      BY <1>2 DEF ReadInv, ReadSoFar
    <3>2. ReadOff' = ReadOff /\ ReadOff \subseteq DOMAIN seen
      BY DEF ReadOff
    <3>3. files \in VersionsRead'
      BY <3>1, <3>2 DEF VersionsRead
    <3>4. QED
      BY <3>1, <3>3 DEF ReadSoFar
  <2>3. edits' # 0
    BY ReadDirAssumption DEF ReadInv, ReadTypeOK
  <2>4. QED
    BY <1>2, <2>1, <2>2, <2>3 DEF LikeLoop
<1>3. QED
  BY <1>1, <1>2 DEF ReadInv, Listed

LEMMA WriteKeeps ==
  ASSUME ReadInv, NEW n \in Name, NEW entry \in Entry, Write(n, entry)
  PROVE  ReadInv'
<1>1. /\ directory \in Contents /\ edits < MaxEdits /\ edits' = edits + 1 /\ UNCHANGED call
      /\ directory' = [m \in DOMAIN directory \cup {n} |->
                          IF m = n THEN entry ELSE directory[m]]
      /\ seen' = [i \in DOMAIN seen |->
                     IF Sorted[i] = n THEN seen[i] \cup {entry} ELSE seen[i]]
  BY DEF Write, ReadInv, ReadTypeOK
<1>2. PICK names \in SUBSET Name : directory \in [names -> Entry]
  BY <1>1 DEF Contents
<1>3. directory' \in Contents
  <2>1. directory' \in [names \cup {n} -> Entry]
    BY <1>1, <1>2
  <2>2. names \cup {n} \in SUBSET Name
    OBVIOUS
  <2>3. QED
    BY <2>1, <2>2 DEF Contents
<1>4. seen \in [DOMAIN seen -> SUBSET Entry]
  BY DEF ReadInv, ReadTypeOK
<1>5. /\ DOMAIN seen' = DOMAIN seen /\ seen' \in [DOMAIN seen -> SUBSET Entry]
      /\ \A i \in DOMAIN seen : seen[i] \subseteq seen'[i]
  BY <1>1, <1>4
<1>6. ASSUME Listed PROVE Watched'
  <2>1. \A i \in DOMAIN seen : Sorted[i] \in DOMAIN directory => directory[Sorted[i]] \in seen[i]
    BY <1>6 DEF ReadInv, Watched
  <2>2. ASSUME NEW i \in DOMAIN seen, Sorted[i] \in DOMAIN directory'
        PROVE  directory'[Sorted[i]] \in seen'[i]
    BY <1>1, <2>1, <2>2
  <2>3. QED
    BY <1>3, <1>5, <2>2 DEF Watched
<1>7. QED
  BY <1>1, <1>3, <1>5, <1>6, EditKeeps

LEMMA DeleteKeeps ==
  ASSUME ReadInv, NEW n \in Name, Delete(n)
  PROVE  ReadInv'
<1>1. /\ directory \in Contents /\ edits < MaxEdits /\ edits' = edits + 1
      /\ UNCHANGED call /\ UNCHANGED seen
      /\ directory' = [m \in DOMAIN directory \ {n} |-> directory[m]]
  BY DEF Delete, ReadInv, ReadTypeOK
<1>2. PICK names \in SUBSET Name : directory \in [names -> Entry]
  BY <1>1 DEF Contents
<1>3. directory' \in Contents
  <2>1. directory' \in [names \ {n} -> Entry]
    BY <1>1, <1>2
  <2>2. names \ {n} \in SUBSET Name
    OBVIOUS
  <2>3. QED
    BY <2>1, <2>2 DEF Contents
<1>4. /\ DOMAIN seen' = DOMAIN seen /\ seen' \in [DOMAIN seen -> SUBSET Entry]
      /\ \A i \in DOMAIN seen : seen[i] \subseteq seen'[i]
  BY <1>1 DEF ReadInv, ReadTypeOK
<1>5. ASSUME Listed PROVE Watched'
  BY <1>1, <1>3, <1>5 DEF ReadInv, Watched
<1>6. QED
  BY <1>1, <1>3, <1>4, <1>5, EditKeeps

(* No files make no migrations. *)
LEMMA NothingRead ==
  ASSUME NEW split, NEW files, DOMAIN files = {}
  PROVE  IsReading(<<>>, files, split)
<1>1. IsSplitReading(<<>>, files)
  BY FS_EmptySet DEF IsSplitReading
<1>2. IsPairReading(<<>>, files)
  BY DEF IsPairReading, DistinctIds, IdsOf
<1>3. QED
  BY <1>1, <1>2 DEF IsReading

LEMMA ListKeeps ==
  ASSUME ReadInv, NEW split \in BOOLEAN, List(split)
  PROVE  ReadInv'
<1> DEFINE listing == Listing(directory)
<1>1. /\ directory \in Contents /\ edits \in 0..MaxEdits
      /\ call' = [phase |-> "reading", split |-> split, todo |-> listing, migrations |-> <<>>]
      /\ seen' = [i \in listing |-> {directory[Sorted[i]]}]
      /\ UNCHANGED directory /\ UNCHANGED edits
  BY DEF List, Begin, ReadInv, ReadTypeOK
<1>2. listing \subseteq DOMAIN Sorted /\ \A i \in listing : Sorted[i] \in DOMAIN directory
  BY DEF Listing
<1>3. PICK names \in SUBSET Name : directory \in [names -> Entry]
  BY <1>1 DEF Contents
<1>4. listing' = listing
  BY <1>1
<1> HIDE DEF listing
<1>5. seen' \in [listing -> SUBSET Entry] /\ DOMAIN seen' = listing
  BY <1>1, <1>2, <1>3
<1>6. ReadTypeOK'
  <2>1. call' \in CallType
    BY <1>1, <1>2 DEF CallType
  <2>2. seen' \in UNION {[l -> SUBSET Entry] : l \in SUBSET DOMAIN Sorted}
    BY <1>2, <1>5
  <2>3. QED
    BY <1>1, <2>1, <2>2 DEF ReadTypeOK
<1>7. ReadOff' = {}
  BY <1>1, <1>5 DEF ReadOff
<1>8. InOrder'
  BY <1>1, <1>5, <1>7 DEF InOrder
<1>9. ReadSoFar'
  <2>1. <<>> \in VersionsRead' /\ DOMAIN <<>> = {}
    BY <1>7 DEF VersionsRead
  <2>2. IsReading(call'.migrations, <<>>, call'.split)
    BY <1>1, <2>1, NothingRead
  <2>3. QED
    BY <2>1, <2>2 DEF ReadSoFar
<1>10. Watched'
  BY <1>1, <1>5 DEF Watched
<1>11. LikeLoop'
  <2>1. ASSUME NEW n \in 0..Len(Sorted),
               \A i \in DOMAIN seen' : i <= n <=> i \notin call'.todo
        PROVE  call'.migrations = Loop(directory, split)[n]
    <3>1. \A i \in listing : i <= 0 \/ n < i
      BY <1>1, <1>2, <1>5, <2>1, Positions
    <3>2. 0 \in 0..Len(Sorted) /\ 0 <= n
      BY Positions
    <3>3. Loop(directory, split)[n] = Loop(directory, split)[0]
      BY <3>1, <3>2, LoopStands DEF listing
    <3>4. QED
      BY <1>1, <3>3, LoopIs
  <2>2. DOMAIN seen' = Listing(directory)
    BY <1>5 DEF listing
  <2>3. call'.split = split /\ directory' = directory
    BY <1>1
  <2>4. QED
    BY <2>1, <2>2, <2>3 DEF LikeLoop
<1>12. call'.phase = "reading"
  BY <1>1
<1>13. QED
  BY <1>6, <1>8, <1>9, <1>10, <1>11, <1>12 DEF ReadInv, Listed

(* One more file, behind those that have had their turn.                      *)
LEMMA ReadingMore ==
  ASSUME NEW files, NEW more, NEW p, OneMore(files, more, p), more[p] \in Lines,
         NEW before \in Seq(FileMigration), NEW split \in BOOLEAN,
         IsReading(before, files, split)
  PROVE  /\ AddFile(before, Sorted[p], more[p], split) \in Seq(FileMigration)
         /\ IsReading(AddFile(before, Sorted[p], more[p], split), more, split)
<1>1. CASE split
  <2>1. IsSplitReading(before, files)
    BY <1>1 DEF IsReading
  <2>2. AddFile(before, Sorted[p], more[p], split)
          = Append(before, SplitFile(Sorted[p], more[p]))
    BY <1>1 DEF AddFile
  <2>3. /\ Append(before, SplitFile(Sorted[p], more[p])) \in Seq(FileMigration)
        /\ IsSplitReading(Append(before, SplitFile(Sorted[p], more[p])), more)
    BY <2>1, SplitReadingMore
  <2>4. QED
    BY <1>1, <2>2, <2>3 DEF IsReading
<1>2. CASE ~split
  <2>1. IsPairReading(before, files)
    BY <1>2 DEF IsReading
  <2>2. AddFile(before, Sorted[p], more[p], split) = PairFile(before, Sorted[p], more[p])
    BY <1>2 DEF AddFile
  <2>3. /\ PairFile(before, Sorted[p], more[p]) \in Seq(FileMigration)
        /\ IsPairReading(PairFile(before, Sorted[p], more[p]), more)
    BY <2>1, PairReadingMore
  <2>4. QED
    BY <1>2, <2>2, <2>3 DEF IsReading
<1>3. QED
  BY <1>1, <1>2

LEMMA ReadFileKeeps ==
  ASSUME ReadInv, NEW p \in DOMAIN Sorted, ReadFile(p)
  PROVE  ReadInv'
<1> DEFINE lines == directory[Sorted[p]]
           after == AddFile(call.migrations, Sorted[p], lines, call.split)
<1>1. /\ call.phase = "reading" /\ p \in call.todo /\ \A j \in call.todo : p <= j
      /\ Sorted[p] \in DOMAIN directory /\ lines # Subdirectory
      /\ call' = [call EXCEPT !.todo = call.todo \ {p}, !.migrations = after]
      /\ UNCHANGED directory /\ UNCHANGED edits /\ UNCHANGED seen
  BY DEF ReadFile, Turn, Readable
<1>2. /\ ReadTypeOK /\ InOrder /\ ReadSoFar /\ Watched /\ LikeLoop /\ Listed
      /\ call \in CallType
  BY <1>1 DEF ReadInv, Listed, ReadTypeOK
<1>3. lines \in Lines /\ lines \in seen[p] /\ p \in DOMAIN seen
  <2>1. PICK names \in SUBSET Name : directory \in [names -> Entry]
    BY <1>2 DEF Watched, Contents
  <2>2. lines \in Entry
    BY <1>1, <2>1
  <2>3. p \in DOMAIN seen
    BY <1>1, <1>2 DEF InOrder
  <2>4. QED
    BY <1>1, <1>2, <2>2, <2>3 DEF Entry, Watched
<1> HIDE DEF lines, after
<1>4. /\ call'.phase = "reading" /\ call'.split = call.split
      /\ call'.todo = call.todo \ {p} /\ call'.migrations = after
  BY <1>1, <1>2 DEF CallType
<1>5. /\ ReadOff' = ReadOff \cup {p} /\ ReadOff \in SUBSET DOMAIN Sorted
      /\ \A i \in ReadOff : i < p /\ i \in DOMAIN seen
  <2>1. DOMAIN seen \subseteq DOMAIN Sorted
    BY <1>2 DEF ReadTypeOK
  <2>2. QED
    BY <1>1, <1>2, <1>3, <1>4, <2>1 DEF ReadOff, InOrder
<1>6. PICK files \in VersionsRead : IsReading(call.migrations, files, call.split)
  BY <1>2 DEF ReadSoFar
<1> DEFINE more == [i \in ReadOff \cup {p} |-> IF i = p THEN lines ELSE files[i]]
<1>7. DOMAIN files = ReadOff /\ files \in [ReadOff -> Lines] /\ \A i \in ReadOff : files[i] \in seen[i]
  BY DEF VersionsRead
<1>8. /\ more[p] = lines /\ DOMAIN more = ReadOff \cup {p}
      /\ \A i \in ReadOff : more[i] = files[i] /\ i # p
  BY <1>5, Positions
<1>9. more \in [ReadOff \cup {p} -> Lines]
  BY <1>3, <1>7
<1> HIDE DEF more
<1>10. OneMore(files, more, p)
  BY <1>5, <1>7, <1>8 DEF OneMore
<1>11. after \in Seq(FileMigration) /\ IsReading(after, more, call.split)
  <2>1. call.migrations \in Seq(FileMigration) /\ call.split \in BOOLEAN
    BY <1>2 DEF CallType
  <2>2. QED
    BY <1>3, <1>6, <1>8, <1>10, <2>1, ReadingMore DEF after
<1>12. ReadTypeOK'
  <2>1. call' \in CallType
    BY <1>1, <1>2, <1>11 DEF CallType
  <2>2. QED
    BY <1>1, <1>2, <2>1 DEF ReadTypeOK
<1>13. InOrder'
  <2>1. \A j \in call'.todo : p < j
    <3>1. call'.todo \subseteq DOMAIN Sorted
      BY <1>2, <1>4 DEF CallType
    <3>2. QED
      BY <1>1, <1>4, <3>1, Positions
  <2>2. ASSUME NEW i \in ReadOff', NEW j \in call'.todo PROVE i < j
    BY <1>2, <1>4, <1>5, <2>1, <2>2 DEF InOrder
  <2>3. QED
    BY <1>1, <1>2, <1>4, <2>2 DEF InOrder
<1>14. ReadSoFar'
  <2>1. \A i \in ReadOff \cup {p} : more[i] \in seen[i]
    BY <1>3, <1>7, <1>8
  <2>2. more \in VersionsRead'
    BY <1>1, <1>5, <1>9, <2>1 DEF VersionsRead
  <2>3. QED
    BY <1>4, <1>11, <2>2 DEF ReadSoFar
<1>15. Watched'
  BY <1>1, <1>2 DEF Watched
<1>16. LikeLoop'
  <2> DEFINE loop == Loop(directory, call.split)
  <2>1. SUFFICES ASSUME edits = 0
                 PROVE  /\ DOMAIN seen = Listing(directory)
                        /\ \A n \in 0..Len(Sorted) :
                              (\A i \in DOMAIN seen : i <= n <=> i \notin call'.todo)
                              => after = loop[n]
    BY <1>1, <1>4 DEF LikeLoop
  <2>2. DOMAIN seen = Listing(directory)
    BY <1>2, <2>1 DEF LikeLoop
  <2>3. ASSUME NEW n \in 0..Len(Sorted),
               \A i \in DOMAIN seen : i <= n <=> i \notin call'.todo
        PROVE  after = loop[n]
    <3>1. p \in 1..Len(Sorted) /\ p \in 0..Len(Sorted) /\ p - 1 \in 0..Len(Sorted) /\ p <= n
      BY <1>3, <1>4, <2>3, Positions
    <3>2. \A i \in DOMAIN seen : i <= p - 1 <=> i \notin call.todo
      <4> SUFFICES ASSUME NEW i \in DOMAIN seen PROVE i <= p - 1 <=> i \notin call.todo
        OBVIOUS
      <4>1. i \in Nat /\ p \in Nat
        <5>1. i \in DOMAIN Sorted
          BY <1>2 DEF ReadTypeOK
        <5>2. QED
          BY <5>1, Positions
      <4>2. CASE i \in call.todo
        BY <1>1, <4>1, <4>2
      <4>3. CASE i \notin call.todo
        BY <1>5, <4>1, <4>3 DEF ReadOff
      <4>4. QED
        BY <4>2, <4>3
    <3>3. call.migrations = loop[p - 1]
      BY <1>2, <2>1, <3>1, <3>2 DEF LikeLoop
    <3>4. loop[p] = Visit(directory, call.split, loop[p - 1], p)
      BY <3>1, LoopIs
    <3>5. loop[p] = after
      BY <1>3, <2>2, <3>3, <3>4 DEF Visit, after, lines
    <3>6. \A i \in Listing(directory) : i <= p \/ n < i
      <4> SUFFICES ASSUME NEW i \in DOMAIN seen, ~(i <= p) PROVE n < i
        BY <2>2
      <4>1. i \in Nat /\ p \in Nat /\ n \in Nat
        <5>1. i \in DOMAIN Sorted
          BY <1>2 DEF ReadTypeOK
        <5>2. QED
          BY <5>1, Positions
      <4>2. i \in call'.todo
        BY <1>4, <1>5, <4>1 DEF ReadOff
      <4>3. QED
        BY <2>3, <4>1, <4>2
    <3>7. loop[n] = loop[p]
      BY <3>1, <3>6, LoopStands
    <3>8. QED
      BY <3>5, <3>7
  <2>4. QED
    BY <2>2, <2>3
<1>17. QED
  BY <1>4, <1>12, <1>13, <1>14, <1>15, <1>16 DEF ReadInv, Listed

LEMMA ReadInvNext ==
  ReadInv /\ [ReadNext]_readVars => ReadInv'
<1>1. SUFFICES ASSUME ReadInv, [ReadNext]_readVars PROVE ReadInv'
  OBVIOUS
<1>2. ASSUME ListFails PROVE ReadInv'
  <2>1. call' = [call EXCEPT !.phase = "failed"] /\ ~Listed
    BY <1>2 DEF ListFails, Listed
  <2>2. call \in CallType
    BY <1>1 DEF ReadInv, ReadTypeOK
  <2>3. /\ call' \in CallType /\ call'.phase = "failed"
        /\ call'.migrations = call.migrations
    BY <2>1, <2>2 DEF CallType
  <2>4. QED
    BY <1>1, <1>2, <2>1, <2>3 DEF ReadInv, ReadTypeOK, Listed, ListFails
<1>3. ASSUME NEW i \in DOMAIN Sorted, ReadFileFails(i) PROVE ReadInv'
  <2>1. call' = [call EXCEPT !.phase = "failed", !.todo = {}, !.migrations = <<>>]
    BY <1>3 DEF ReadFileFails
  <2>2. call \in CallType
    BY <1>1 DEF ReadInv, ReadTypeOK
  <2>3. call' \in CallType /\ call'.phase = "failed" /\ call'.migrations = <<>>
    <3>1. <<>> \in Seq(FileMigration) /\ {} \in SUBSET DOMAIN Sorted
      OBVIOUS
    <3>2. QED
      BY <2>1, <2>2, <3>1 DEF CallType
  <2>4. QED
    BY <1>1, <1>3, <2>3 DEF ReadInv, ReadTypeOK, Listed, ReadFileFails
<1>4. ASSUME Return PROVE ReadInv'
  <2>1. /\ call' = [call EXCEPT !.phase = "done"] /\ Listed /\ call.todo = {}
        /\ UNCHANGED directory /\ UNCHANGED edits /\ UNCHANGED seen
    BY <1>4 DEF Return, Listed
  <2>2. call \in CallType
    BY <1>1 DEF ReadInv, ReadTypeOK
  <2>3. /\ call' \in CallType /\ call'.phase = "done" /\ call'.todo = {}
        /\ call'.todo = call.todo /\ call'.migrations = call.migrations
        /\ call'.split = call.split
    BY <2>1, <2>2 DEF CallType
  <2>4. InOrder /\ ReadSoFar /\ Watched /\ LikeLoop /\ ReadTypeOK
    BY <1>1, <2>1 DEF ReadInv
  <2>5. ReadTypeOK'
    BY <2>1, <2>3, <2>4 DEF ReadTypeOK
  <2>6. InOrder'
    BY <2>1, <2>3, <2>4 DEF InOrder, ReadOff
  <2>7. ReadSoFar'
    BY <2>1, <2>3, <2>4 DEF ReadSoFar, VersionsRead, ReadOff
  <2>8. Watched'
    BY <2>1, <2>4 DEF Watched
  <2>9. LikeLoop'
    BY <2>1, <2>3, <2>4 DEF LikeLoop
  <2>10. QED
    BY <2>3, <2>5, <2>6, <2>7, <2>8, <2>9 DEF ReadInv, Listed
<1>5. CASE UNCHANGED readVars
  BY <1>1, <1>5 DEF ReadInv, ReadTypeOK, Listed, InOrder, ReadOff, ReadSoFar, VersionsRead,
                    Watched, LikeLoop, readVars
<1>6. QED
  BY <1>1, <1>2, <1>3, <1>4, <1>5, WriteKeeps, DeleteKeeps, ListKeeps, ReadFileKeeps
     DEF ReadNext

LEMMA ReadInvariant ==
  ReadSpec => []ReadInv
<1>1. ReadInit => ReadInv
  BY ReadInvInit
<1>2. ReadInv /\ [ReadNext]_readVars => ReadInv'
  BY ReadInvNext
<1>3. QED
  BY <1>1, <1>2, PTL DEF ReadSpec

---------------------------------------------------------------------------
(* The states of the model are those it declares: the positions still to read *)
(* are listed names, the migrations have the ids and the texts of files, and  *)
(* seen holds what can stand under a name.                                    *)
THEOREM ReadTypes ==
  ReadSpec => []ReadTypeOK
<1>1. ReadInv => ReadTypeOK
  BY DEF ReadInv
<1>2. QED
  BY <1>1, ReadInvariant, PTL

(* dir.go:26-100. Whoever writes the directory between the listing and the    *)
(* last file, a call that returns migrations has read every listed file once  *)
(* and makes of them what their names say.                                    *)
THEOREM ReadingOfListing ==
  ReadSpec => []ReadsListing
<1>1. ReadInv => ReadsListing
  <2>1. SUFFICES ASSUME ReadInv, call.phase = "done"
                 PROVE  \E files \in Versions : IsReading(call.migrations, files, call.split)
    BY DEF ReadsListing
  <2>2. PICK files \in VersionsRead : IsReading(call.migrations, files, call.split)
    BY <2>1 DEF ReadInv, Listed, ReadSoFar
  <2>3. ReadOff = DOMAIN seen
    BY <2>1 DEF ReadInv, ReadOff
  <2>4. files \in Versions
    BY <2>3 DEF Versions, VersionsRead
  <2>5. QED
    BY <2>2, <2>4
<1>2. QED
  BY <1>1, ReadInvariant, PTL

(* dir.go:26-100. With no edits the call returns what ReadDirectory computes  *)
(* of the directory: sql_migrate_directory is modelled with that operator.    *)
THEOREM ReadingOfDirectory ==
  ReadSpec => []ReadsDirectory
<1>1. ReadInv => ReadsDirectory
  <2>1. SUFFICES ASSUME ReadInv, call.phase = "done", edits = 0
                 PROVE  call.migrations = ReadDirectory(directory, call.split)
    BY DEF ReadsDirectory
  <2>2. call.todo = {} /\ LikeLoop
    BY <2>1 DEF ReadInv, Listed
  <2>3. Len(Sorted) \in 0..Len(Sorted)
    BY Positions
  <2>4. \A i \in DOMAIN seen : i <= Len(Sorted) <=> i \notin call.todo
    <3>1. DOMAIN seen \subseteq DOMAIN Sorted
      BY <2>1 DEF ReadInv, ReadTypeOK
    <3>2. QED
      BY <2>2, <3>1, Positions
  <2>5. QED
    BY <2>1, <2>2, <2>3, <2>4 DEF LikeLoop, ReadDirectory
<1>2. QED
  BY <1>1, ReadInvariant, PTL

(* dir.go:63-94. With a file for each direction the loop never has two        *)
(* migrations of one id, also while it reads and whoever writes there.        *)
THEOREM ReadingIdsDistinct ==
  ReadSpec => []OneMigrationPerId
<1>1. ReadInv => OneMigrationPerId
  <2>1. SUFFICES ASSUME ReadInv, ~call.split PROVE DistinctIds(call.migrations)
    BY DEF OneMigrationPerId
  <2>2. CASE Listed
    <3>1. PICK files \in VersionsRead : IsReading(call.migrations, files, call.split)
      BY <2>1, <2>2 DEF ReadInv, ReadSoFar
    <3>2. QED
      BY <2>1, <3>1 DEF IsReading, IsPairReading
  <2>3. CASE ~Listed
    BY <2>1, <2>3 DEF ReadInv, DistinctIds
  <2>4. QED
    BY <2>2, <2>3
<1>2. QED
  BY <1>1, ReadInvariant, PTL
=============================================================================
