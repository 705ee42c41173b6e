----------------------- MODULE FlashJournalInvariant ------------------------
(***************************************************************************)
(* What a restart finds on the flash journal, for arenas of any size, any  *)
(* records and any range of epochs.                                        *)
(*                                                                         *)
(* The invariant says what each arena looks like.  A live arena is a run   *)
(* of records of one epoch with one commit among them, then at most one    *)
(* torn slot, then blank slots.  Beside it every commit the other arena    *)
(* may still show, whole or half erased, is of the epoch just before, so   *)
(* a restart cannot take it for the newer one.  Before the first commit no *)
(* arena shows any.                                                        *)
(***************************************************************************)
EXTENDS FlashJournal, TLAPS

(* Records, then at most one torn slot, then blank ones. *)
Shaped(arena) ==
    /\ \A at \in Positions : IsRecord(arena[at]) \/ arena[at] \in {Blank, Torn}
    /\ \A j, k \in Positions : j < k /\ ~IsRecord(arena[j]) => arena[k] = Blank

(* A committed log of epoch e. *)
Live(arena, e) ==
    /\ Shaped(arena)
    /\ \A at \in Positions : IsRecord(arena[at]) => arena[at].epoch = e
    /\ \E at \in Positions : arena[at].body = "commit"
    /\ \A j, k \in Positions : arena[j].body = "commit" /\ arena[k].body = "commit" => j = k

(* What a live arena replays. *)
LogOf(arena) == {<<at, arena[at].body>> : at \in {k \in Positions :
                    IsRecord(arena[k]) /\ arena[k].body # "commit"}}

NoCommit(arena) == \A at \in Positions : arena[at].body # "commit"

(* Any commit that shows is of the epoch before e. *)
Before(arena, e) ==
    \A at \in Positions :
        arena[at].body = "commit" => (arena[at].epoch + 1) % EpochModulus = e

Chosen(f, i, e) == Live(f[i], e) /\ Before(f[1 - i], e)

(* An arena that initialize_empty has committed and nobody has used. *)
JustCommitted(arena) ==
    /\ arena[1] = Record(0, "commit")
    /\ \A at \in Positions : at # 1 => arena[at] = Blank

(* The slots below at hold records, those of the cursor's epoch; the others are blank. *)
Filled(arena, e, at) ==
    /\ \A k \in Positions : k < at => IsRecord(arena[k]) /\ arena[k].epoch = e
    /\ \A k \in Positions : k >= at => arena[k] = Blank

(* A snapshot's records up to a slot, and nothing behind it. *)
Copied(arena, e, upto) ==
    /\ \A k \in Positions : k < upto => arena[k].body \in Bodies /\ arena[k].epoch = e
    /\ \A k \in Positions : k > upto => arena[k] = Blank

Snapshot(arena, upto) == {<<k, arena[k].body>> : k \in {j \in Positions : j < upto}}

(* The open journal has a committed arena.  Here and below f stands for    *)
(* the flash, a and c for the two cursors, d for the append in doubt, ca   *)
(* for the place of a commit in doubt, p and st for the promised log and   *)
(* the staged snapshot: a call cut short by a power loss leaves flash and  *)
(* promises that suit the cursors it had.                                  *)
ActiveOK(f, a, d, ca, p) ==
    a.some =>
      /\ Live(f[a.index], a.epoch)
      /\ ca = 0 => Before(f[1 - a.index], a.epoch)
      /\ a.at # End => Filled(f[a.index], a.epoch, a.at) /\ ~d.some
      /\ ~d.some => LogOf(f[a.index]) = p
      /\ d.some =>
           /\ d.body \in Bodies
           /\ \/ f[a.index][d.at] \in {Blank, Torn} /\ LogOf(f[a.index]) = p
              \/ /\ f[a.index][d.at] = Record(a.epoch, d.body)
                 /\ LogOf(f[a.index]) = p \cup {<<d.at, d.body>>}

(* The open journal found no committed arena. *)
BareOK(f, a, c, d, p) ==
    ~a.some =>
      /\ p = {} /\ ~d.some /\ NoCommit(f[1])
      /\ ~c.some => NoCommit(f[0]) \/ JustCommitted(f[0])

(* A snapshot is being copied; its commit is in doubt when ca is a slot. *)
CopyOK(f, a, c, ca, st) ==
    /\ ~c.some => ca = 0
    /\ c.some =>
         /\ c.index = IF a.some THEN 1 - a.index ELSE 0
         /\ c.epoch = IF a.some THEN (a.epoch + 1) % EpochModulus ELSE 0
         /\ ca = 0 => NoCommit(f[c.index])
         /\ ca = 0 /\ c.at # End => /\ Copied(f[c.index], c.epoch, c.at) /\ f[c.index][c.at] = Blank
                                    /\ st = Snapshot(f[c.index], c.at)
         /\ ca # 0 => /\ c.at = End /\ (a.some => a.at = End)
                      /\ Copied(f[c.index], c.epoch, ca) /\ st = Snapshot(f[c.index], ca)
                      /\ f[c.index][ca] \in {Blank, Torn, Record(c.epoch, "commit")}

OpenOK(f, a, c, d, ca, p, st) ==
    ActiveOK(f, a, d, ca, p) /\ BareOK(f, a, c, d, p) /\ CopyOK(f, a, c, ca, st)

(* The log that a restart would replay. *)
CurrentLog(f, a, c, ca, st) ==
    IF c.some /\ ca # 0 /\ f[c.index][ca] = Record(c.epoch, "commit") THEN st
    ELSE IF a.some THEN LogOf(f[a.index]) ELSE {}

(* A restart finds no committed arena, or the one with the expected log. *)
Recoverable(f, expected) ==
    \/ NoCommit(f[0]) /\ NoCommit(f[1]) /\ {} \in expected
    \/ \E i \in Arenas, e \in Epochs : Chosen(f, i, e) /\ LogOf(f[i]) \in expected

JournalInv ==
    /\ TypeOK
    /\ Recoverable(flash, Expected)
    /\ up => OpenOK(flash, active, compaction, inDoubt, commitAt, promised, staged)
    /\ ~up => active = NoCursor /\ compaction = NoCursor

-----------------------------------------------------------------------------
(* Cells and epochs *)

\* The kinds of cell are told apart by their bodies.
LEMMA CellKinds ==
  /\ \A c \in Cells : IsRecord(c) => c.epoch \in Epochs /\ c.body \in Bodies \cup {"commit"}
                                     /\ c = Record(c.epoch, c.body)
  /\ \A c \in Cells : ~IsRecord(c) => c \in {Blank, Husk, Torn, Corrupt}
  /\ \A c \in {Blank, Husk, Torn, Corrupt} : ~IsRecord(c) /\ c \in Cells /\ c.body # "commit"
  /\ \A e \in Epochs, b \in Bodies \cup {"commit"} : 
        /\ Record(e, b) \in Cells /\ IsRecord(Record(e, b))
        /\ Record(e, b).epoch = e /\ Record(e, b).body = b
  /\ Blank.body = "blank" /\ Torn.body = "torn" /\ Husk.body = "husk" /\ Corrupt.body = "corrupt"
  /\ "commit" \notin Bodies
<1>1. "commit" \notin Bodies /\ Bodies \cap {"blank", "husk", "torn", "corrupt"} = {}
  BY JournalConstants
<1>2. /\ Blank.body = "blank" /\ Torn.body = "torn" /\ Husk.body = "husk" /\ Corrupt.body = "corrupt"
      /\ \A c \in {Blank, Husk, Torn, Corrupt} : ~IsRecord(c) /\ c \in Cells /\ c.body # "commit"
  BY DEF Cells, IsRecord, Record, Blank, Husk, Torn, Corrupt
<1>3. ASSUME NEW e \in Epochs, NEW b \in Bodies \cup {"commit"}
      PROVE  /\ Record(e, b) \in Cells /\ IsRecord(Record(e, b))
             /\ Record(e, b).epoch = e /\ Record(e, b).body = b
  BY <1>1 DEF Cells, IsRecord, Record
<1>4. ASSUME NEW c \in Cells, c \notin {Blank, Husk, Torn, Corrupt}
      PROVE  /\ c.epoch \in Epochs /\ c.body \in Bodies \cup {"commit"}
             /\ c = Record(c.epoch, c.body) /\ IsRecord(c)
  BY <1>3, <1>4 DEF Cells
<1> QED
  BY <1>1, <1>2, <1>3, <1>4

\* Of two neighbouring epochs the later one is the newer, across the wrap too
\* (epoch_is_newer).
LEMMA NeighbourEpochs ==
  ASSUME NEW d \in Epochs, NEW e \in Epochs, (d + 1) % EpochModulus = e
  PROVE  EpochIsNewer(e, d) /\ ~EpochIsNewer(d, e)
<1> DEFINE M == EpochModulus
<1>1. M \in Nat /\ M >= 4 /\ M \div 2 >= 2 /\ d \in 0..(M - 1) /\ e \in 0..(M - 1)
  BY JournalConstants DEF Epochs
<1>2. \A a \in Nat : a < M => a % M = a /\ (a + M) % M = a
  BY <1>1
<1>3. M % M = 0
  BY <1>1
<1>4. M \div 2 <= M - 2
  BY <1>1
<1>5. CASE d + 1 < M
  <2>1. e = d + 1
    BY <1>1, <1>2, <1>5
  <2>2. (e + M - d) % M = 1
    BY <1>1, <1>2, <2>1
  <2>3. (d + M - e) % M = M - 1
    BY <1>1, <1>2, <2>1
  <2> QED
    BY <1>1, <1>4, <2>2, <2>3 DEF EpochIsNewer
<1>6. CASE d + 1 = M
  <2>1. e = 0
    BY <1>1, <1>3, <1>6
  <2>2. (e + M - d) % M = 1
    BY <1>1, <1>2, <1>6, <2>1
  <2>3. (d + M - e) % M = M - 1
    BY <1>1, <1>2, <1>6, <2>1
  <2> QED
    BY <1>1, <1>4, <2>2, <2>3 DEF EpochIsNewer
<1> QED
  BY <1>1, <1>5, <1>6

\* The epoch after an epoch is an epoch.
LEMMA NextEpoch == \A e \in Epochs : (e + 1) % EpochModulus \in Epochs
  BY JournalConstants DEF Epochs

-----------------------------------------------------------------------------
(* What a restart reads in an arena (scan_arena) *)

\* The scan of a live arena reaches every record of it, finds its one commit and
\* replays its log without a warning.
LEMMA LiveArena ==
  ASSUME NEW arena \in [Positions -> Cells], NEW e \in Epochs, Live(arena, e)
  PROVE  EpochOf(arena) = {e} /\ EntriesOf(arena) = LogOf(arena) /\ ~Warned(arena)
<1>0. Slots \in Nat /\ Positions = 1..Slots
  BY JournalConstants DEF Positions
<1>1. \A at \in Positions : arena[at] \in Cells
  OBVIOUS
<1>2. \A at \in Positions : Scanned(arena, at) <=> IsRecord(arena[at])
  <2>1. \A at \in Positions : Scanned(arena, at) => IsRecord(arena[at])
    BY <1>0 DEF Scanned
  <2>2. \A j, k \in Positions : j < k /\ ~IsRecord(arena[j]) => ~IsRecord(arena[k])
    BY CellKinds DEF Live, Shaped
  <2>3. \A at \in Positions : IsRecord(arena[at]) => Scanned(arena, at)
    BY <1>0, <2>2 DEF Scanned
  <2> QED
    BY <2>1, <2>3
<1>3. \A at \in Positions : arena[at].body = "commit" => IsRecord(arena[at])
  BY DEF IsRecord
<1>4. \A at \in Positions : IsRecord(arena[at]) => arena[at].epoch = e
  BY DEF Live
<1>5. EpochOf(arena) = {e}
  <2>1. PICK at \in Positions : arena[at].body = "commit"
    BY DEF Live
  <2>2. \A k \in Positions : arena[k].body = "commit" => k = at
    BY <2>1 DEF Live
  <2>3. {j \in Positions :
          /\ arena[j].body = "commit"
          /\ Scanned(arena, j)
          /\ \A k \in (j + 1)..Slots : Scanned(arena, k) => arena[k].body # "commit"} = {at}
    BY <1>0, <1>2, <1>3, <2>1, <2>2
  <2>4. arena[at].epoch = e
    BY <1>3, <1>4, <2>1
  <2> QED
    BY <2>3, <2>4 DEF EpochOf
<1>6. EntriesOf(arena) = LogOf(arena)
  <2>1. {j \in Positions : arena[j].body # "commit" /\ arena[j].epoch \in {e} /\ Scanned(arena, j)}
          = {k \in Positions : IsRecord(arena[k]) /\ arena[k].body # "commit"}
    BY <1>2, <1>4
  <2> QED
    BY <1>5, <2>1 DEF EntriesOf, LogOf
<1>7. ~Warned(arena)
  <2>1. \A at \in Positions : arena[at].body # "corrupt"
    BY CellKinds DEF Live, Shaped, IsRecord
  <2> QED
    BY <2>1 DEF Warned
<1> QED
  BY <1>5, <1>6, <1>7

\* An arena's epoch is that of one of its commits.
LEMMA ArenaEpoch ==
  ASSUME NEW arena \in [Positions -> Cells], NEW d \in EpochOf(arena)
  PROVE  d \in Epochs /\ \E at \in Positions : arena[at].body = "commit" /\ arena[at].epoch = d
<1>1. PICK at \in Positions : arena[at].body = "commit" /\ arena[at].epoch = d
  BY DEF EpochOf
<1>2. arena[at] \in Cells
  OBVIOUS
<1> QED
  BY <1>1, <1>2, CellKinds DEF IsRecord

\* A restart selects the live arena that the other one precedes, and replays its
\* log (select_active, open).
LEMMA ChosenReplay ==
  ASSUME NEW f \in [Arenas -> [Positions -> Cells]], NEW i \in Arenas, NEW e \in Epochs,
         Chosen(f, i, e)
  PROVE  Selected(f) = {i} /\ Replay(f) = LogOf(f[i]) /\ ~Warned(f[i]) /\ EpochOf(f[i]) = {e}
<1>1. f[i] \in [Positions -> Cells] /\ f[1 - i] \in [Positions -> Cells] /\ i \in {0, 1}
  BY DEF Arenas
<1>2. EpochOf(f[i]) = {e} /\ EntriesOf(f[i]) = LogOf(f[i]) /\ ~Warned(f[i])
  BY <1>1, LiveArena DEF Chosen
<1>3. \A d \in EpochOf(f[1 - i]) : EpochIsNewer(e, d) /\ ~EpochIsNewer(d, e)
  <2> SUFFICES ASSUME NEW d \in EpochOf(f[1 - i])
               PROVE  EpochIsNewer(e, d) /\ ~EpochIsNewer(d, e)
    OBVIOUS
  <2>1. d \in Epochs /\ \E at \in Positions : f[1 - i][at].body = "commit" /\ f[1 - i][at].epoch = d
    BY <1>1, ArenaEpoch
  <2>2. (d + 1) % EpochModulus = e
    BY <2>1 DEF Chosen, Before
  <2> QED
    BY <2>1, <2>2, NeighbourEpochs
<1>4. Selected(f) = {i}
  <2>1. CASE i = 0
    BY <1>2, <1>3, <2>1 DEF Selected, Arenas
  <2>2. CASE i = 1
    BY <1>2, <1>3, <2>2 DEF Selected, Arenas
  <2> QED
    BY <1>1, <2>1, <2>2
<1>5. Replay(f) = UNION {EntriesOf(f[i])}
  <2>1. {j \in Selected(f) : ~Warned(f[j])} = {i}
    BY <1>2, <1>4
  <2> QED
    BY <2>1 DEF Replay
<1> QED
  BY <1>2, <1>4, <1>5

\* With no commit on flash a restart replays nothing.
LEMMA BareReplay ==
  ASSUME NEW f \in [Arenas -> [Positions -> Cells]], NoCommit(f[0]), NoCommit(f[1])
  PROVE  Selected(f) = {} /\ Replay(f) = {}
<1>1. EpochOf(f[0]) = {} /\ EpochOf(f[1]) = {}
  BY DEF EpochOf, NoCommit
<1>2. Selected(f) = {}
  BY <1>1 DEF Selected, Arenas
<1> QED
  BY <1>2 DEF Replay

-----------------------------------------------------------------------------
(* What the writes and erases of a call leave in an arena *)

\* A record written behind a live log extends it, or leaves it as it was.
LEMMA PutLive ==
  ASSUME NEW arena \in [Positions -> Cells], NEW e \in Epochs, NEW at \in Positions, NEW b \in Bodies,
         Live(arena, e), Filled(arena, e, at),
         NEW cell \in {Blank, Torn, Record(e, b)}, NEW new, new = [arena EXCEPT ![at] = cell]
  PROVE  /\ new \in [Positions -> Cells] /\ Live(new, e) /\ new[at] = cell
         /\ cell \in {Blank, Torn} => LogOf(new) = LogOf(arena)
         /\ cell = Record(e, b) => /\ LogOf(new) = LogOf(arena) \cup {<<at, b>>}
                                   /\ Filled(new, e, at + 1)
         /\ \A x \in LogOf(arena) : x[1] < at
<1>0. Slots \in Nat /\ Positions \subseteq Nat /\ at \in Nat
  BY JournalConstants DEF Positions
<1>1. cell \in Cells /\ cell.body # "commit" /\ (cell = Record(e, b) => cell.body = b /\ cell.epoch = e)
      /\ (IsRecord(cell) <=> cell = Record(e, b)) /\ (IsRecord(cell) => cell.epoch = e)
  BY CellKinds
<1>2. new \in [Positions -> Cells] /\ new[at] = cell /\ \A k \in Positions : k # at => new[k] = arena[k]
  BY <1>1
<1>3. \A k \in Positions : k < at => IsRecord(arena[k]) /\ arena[k].epoch = e
  BY DEF Filled
<1>4. \A k \in Positions : k >= at => arena[k] = Blank /\ ~IsRecord(arena[k]) /\ arena[k].body # "commit"
  BY CellKinds DEF Filled
<1>5. \A k \in Positions : k < at \/ k = at \/ (k > at /\ k >= at)
  BY <1>0
<1>6. Shaped(new)
  BY <1>0, <1>1, <1>2, <1>3, <1>4, <1>5 DEF Shaped
<1>7. Live(new, e)
  <2>1. \A k \in Positions : new[k].body = "commit" <=> arena[k].body = "commit"
    BY <1>0, <1>1, <1>2, <1>4
  <2>2. \A k \in Positions : IsRecord(new[k]) => new[k].epoch = e
    BY <1>1, <1>2, <1>3, <1>4, <1>5
  <2> QED
    BY <1>6, <2>1, <2>2 DEF Live
<1>8. cell \in {Blank, Torn} => LogOf(new) = LogOf(arena)
  BY <1>0, <1>1, <1>2, <1>4, CellKinds DEF LogOf
<1>9. cell = Record(e, b) => LogOf(new) = LogOf(arena) \cup {<<at, b>>}
  BY <1>0, <1>1, <1>2, <1>4 DEF LogOf
<1>10. cell = Record(e, b) => Filled(new, e, at + 1)
  BY <1>0, <1>1, <1>2, <1>3, <1>4, <1>5 DEF Filled
<1>11. \A x \in LogOf(arena) : x[1] < at
  <2>1. \A k \in Positions : IsRecord(arena[k]) => k < at
    BY <1>0, <1>4
  <2> QED
    BY <2>1 DEF LogOf
<1> QED
  BY <1>2, <1>7, <1>8, <1>9, <1>10, <1>11, Zenon

\* The same for a record of a snapshot that is being copied.
LEMMA PutCopy ==
  ASSUME NEW arena \in [Positions -> Cells], NEW e \in Epochs, NEW at \in Positions, NEW b \in Bodies,
         NoCommit(arena), Copied(arena, e, at), arena[at] = Blank,
         NEW cell \in {Blank, Torn, Record(e, b)}, NEW new, new = [arena EXCEPT ![at] = cell]
  PROVE  /\ new \in [Positions -> Cells] /\ NoCommit(new)
         /\ cell = Record(e, b) =>
              /\ Snapshot(new, at + 1) = Snapshot(arena, at) \cup {<<at, b>>}
              /\ at + 1 \in Positions => Copied(new, e, at + 1) /\ new[at + 1] = Blank
         /\ \A x \in Snapshot(arena, at) : x[1] < at
<1>0. Slots \in Nat /\ Positions \subseteq Nat /\ at \in Nat
  BY JournalConstants DEF Positions
<1>1. cell \in Cells /\ cell.body # "commit" /\ (cell = Record(e, b) => cell.body = b /\ cell.epoch = e)
  BY CellKinds
<1>2. new \in [Positions -> Cells] /\ new[at] = cell /\ \A k \in Positions : k # at => new[k] = arena[k]
  BY <1>1
<1>3. NoCommit(new)
  BY <1>1, <1>2 DEF NoCommit
<1>4. cell = Record(e, b) => Snapshot(new, at + 1) = Snapshot(arena, at) \cup {<<at, b>>}
  BY <1>0, <1>1, <1>2 DEF Snapshot
<1>5. cell = Record(e, b) /\ at + 1 \in Positions => Copied(new, e, at + 1) /\ new[at + 1] = Blank
  BY <1>0, <1>1, <1>2 DEF Copied
<1>6. \A x \in Snapshot(arena, at) : x[1] < at
  BY DEF Snapshot
<1> QED
  BY <1>2, <1>3, <1>4, <1>5, <1>6, Zenon

\* The cell behind a snapshot is not part of it.
LEMMA PutBehind ==
  ASSUME NEW arena \in [Positions -> Cells], NEW e \in Epochs, NEW at \in Positions,
         Copied(arena, e, at), NEW cell \in Cells, NEW new, new = [arena EXCEPT ![at] = cell]
  PROVE  /\ new \in [Positions -> Cells] /\ new[at] = cell
         /\ Copied(new, e, at) /\ Snapshot(new, at) = Snapshot(arena, at)
<1>0. Positions \subseteq Nat /\ at \in Nat
  BY JournalConstants DEF Positions
<1>1. new \in [Positions -> Cells] /\ new[at] = cell /\ \A k \in Positions : k # at => new[k] = arena[k]
  OBVIOUS
<1>2. Copied(new, e, at)
  BY <1>0, <1>1 DEF Copied
<1>3. Snapshot(new, at) = Snapshot(arena, at)
  <2>1. \A k \in {j \in Positions : j < at} : new[k] = arena[k]
    BY <1>0, <1>1
  <2> QED
    BY <2>1 DEF Snapshot
<1> QED
  BY <1>1, <1>2, <1>3

\* The commit record makes the snapshot a live log; without it the arena does not
\* count.
LEMMA CommitCell ==
  ASSUME NEW arena \in [Positions -> Cells], NEW e \in Epochs, NEW at \in Positions, Copied(arena, e, at)
  PROVE  /\ arena[at] = Record(e, "commit") =>
              /\ Live(arena, e) /\ LogOf(arena) = Snapshot(arena, at)
              /\ at + 1 # End => Filled(arena, e, at + 1)
         /\ arena[at] \in {Blank, Torn} => NoCommit(arena)
<1>0. Slots \in Nat /\ Positions \subseteq Nat /\ at \in Nat
  BY JournalConstants DEF Positions
<1>1. \A k \in Positions : k < at => /\ arena[k].body \in Bodies /\ arena[k].epoch = e
                                     /\ IsRecord(arena[k]) /\ arena[k].body # "commit"
  BY JournalConstants DEF Copied, IsRecord
<1>2. \A k \in Positions : k > at => arena[k] = Blank /\ ~IsRecord(arena[k]) /\ arena[k].body # "commit"
  BY CellKinds DEF Copied
<1>3. \A k \in Positions : k < at \/ k = at \/ k > at
  BY <1>0
<1>4. arena[at] \in {Blank, Torn} => NoCommit(arena)
  BY <1>1, <1>2, <1>3, CellKinds DEF NoCommit
<1>5. ASSUME arena[at] = Record(e, "commit")
      PROVE  /\ Live(arena, e) /\ LogOf(arena) = Snapshot(arena, at)
             /\ at + 1 # End => Filled(arena, e, at + 1)
  <2>1. IsRecord(arena[at]) /\ arena[at].body = "commit" /\ arena[at].epoch = e
    BY <1>5, CellKinds
  <2>2. Shaped(arena)
    BY <1>0, <1>1, <1>2, <1>3, <2>1 DEF Shaped
  <2>3. Live(arena, e)
    BY <1>0, <1>1, <1>2, <1>3, <2>1, <2>2 DEF Live
  <2>4. LogOf(arena) = Snapshot(arena, at)
    BY <1>0, <1>1, <1>2, <1>3, <2>1 DEF LogOf, Snapshot
  <2>5. Filled(arena, e, at + 1)
    BY <1>0, <1>1, <1>2, <1>3, <2>1 DEF Filled
  <2> QED
    BY <2>3, <2>4, <2>5
<1> QED
  BY <1>4, <1>5

\* The arena that initialize_empty leaves is a live, empty log.
LEMMA FirstCommit ==
  ASSUME NEW arena \in [Positions -> Cells], JustCommitted(arena)
  PROVE  Live(arena, 0) /\ LogOf(arena) = {} /\ Filled(arena, 0, 2)
<1>0. 1 \in Positions /\ 0 \in Epochs /\ Positions \subseteq Nat /\ \A k \in Positions : k < 2 <=> k = 1
  BY JournalConstants DEF Positions, Epochs
<1>1. Copied(arena, 0, 1) /\ arena[1] = Record(0, "commit")
  BY <1>0, JournalConstants DEF JustCommitted, Copied, Positions
<1>2. Live(arena, 0) /\ LogOf(arena) = Snapshot(arena, 1)
  BY <1>0, <1>1, CommitCell
<1>3. Snapshot(arena, 1) = {}
  BY JournalConstants DEF Snapshot, Positions
<1>4. Filled(arena, 0, 2)
  BY <1>0, CellKinds DEF JustCommitted, Filled
<1> QED
  BY <1>2, <1>3, <1>4

\* An erase, complete or not, adds no record to an arena.  So what it leaves still
\* precedes the epoch that the arena preceded, and no commit appears.
LEMMA ErasedArena ==
  ASSUME NEW arena \in [Positions -> Cells], NEW slots \in SUBSET Positions, NEW outcome,
         NEW new \in Erased(arena, slots, outcome)
  PROVE  /\ new \in [Positions -> Cells]
         /\ \A e \in Epochs : Before(arena, e) => Before(new, e)
         /\ NoCommit(arena) => NoCommit(new)
         /\ JustCommitted(arena) => NoCommit(new) \/ JustCommitted(new)
         /\ outcome = "ok" => \A at \in slots : new[at] = Blank
<1> DEFINE used == {at \in slots : arena[at] # Blank}
           half == {Blank, Husk, Torn, Corrupt}
           left == IF outcome = "ok" THEN [used -> {Blank}]
                   ELSE {l \in [used -> half \cup {arena[at] : at \in used}] :
                           \A at \in used : l[at] \in half \cup {arena[at]}}
<1>1. PICK l \in left : new = [at \in Positions |-> IF at \in used THEN l[at] ELSE arena[at]]
  BY Zenon DEF Erased
<1>2. /\ \A at \in used : l[at] \in half \cup {arena[at]}
      /\ outcome = "ok" => \A at \in used : l[at] = Blank
  <2>1. CASE outcome = "ok"
    BY <2>1
  <2>2. CASE outcome # "ok"
    BY <2>2
  <2> QED
    BY <2>1, <2>2
<1>3. \A at \in used : arena[at] \in Cells /\ l[at] \in Cells /\ (l[at] = arena[at] \/ l[at].body # "commit")
  BY <1>2, CellKinds
<1>4. \A at \in Positions : new[at] = IF at \in used THEN l[at] ELSE arena[at]
  BY <1>1
<1> HIDE DEF left
<1>5. new \in [Positions -> Cells]
  BY <1>1, <1>3
<1>6. \A at \in Positions : new[at] = arena[at] \/ new[at].body # "commit"
  BY <1>3, <1>4
<1>7. \A at \in Positions : arena[at] = Blank => new[at] = Blank
  BY <1>4
<1>8. outcome = "ok" => \A at \in slots : new[at] = Blank
  BY <1>2, <1>4
<1>9. \A e \in Epochs : Before(arena, e) => Before(new, e)
  BY <1>6 DEF Before
<1>10. NoCommit(arena) => NoCommit(new)
  BY <1>6 DEF NoCommit
<1>11. JustCommitted(arena) => NoCommit(new) \/ JustCommitted(new)
  BY <1>6, <1>7, CellKinds DEF NoCommit, JustCommitted
<1> QED
  BY <1>5, <1>8, <1>9, <1>10, <1>11

\* Where a scan lets the next record go in a live arena, everything before is a
\* record and everything else is blank.
LEMMA LiveAppendAt ==
  ASSUME NEW arena \in [Positions -> Cells], NEW e \in Epochs, Live(arena, e),
         NEW at \in 1..End, AppendAt(arena, at), at # End
  PROVE  at \in Positions /\ Filled(arena, e, at)
<1>0. Slots \in Nat /\ Positions = 1..Slots /\ End = Slots + 1
  BY JournalConstants DEF Positions, End
<1>1. at \in Positions /\ arena[at] \in {Blank, Husk} /\ \A j \in 1..(at - 1) : IsRecord(arena[j])
  BY <1>0 DEF AppendAt
<1>2. \A k \in Positions : k < at => k \in 1..(at - 1)
  BY <1>0, <1>1
<1>3. \A k \in Positions : k < at => IsRecord(arena[k]) /\ arena[k].epoch = e
  BY <1>1, <1>2 DEF Live
<1>4. ~IsRecord(arena[at]) /\ arena[at] = Blank
  BY <1>1, CellKinds DEF Live, Shaped
<1>5. \A k \in Positions : k > at => arena[k] = Blank
  BY <1>1, <1>4 DEF Live, Shaped
<1> QED
  BY <1>0, <1>1, <1>3, <1>4, <1>5 DEF Filled

\* What write_record leaves on a blank slot.
LEMMA LeftOnBlank ==
  ASSUME NEW outcome \in Outcomes, NEW rec \in Cells, NEW cell \in Left(Blank, rec, outcome)
  PROVE  /\ cell \in {Blank, Torn, rec} /\ cell \in Cells
         /\ outcome = "ok" => cell = rec
         /\ outcome = "failed" => cell \in {Blank, Torn}
  BY CellKinds DEF Left, Outcomes

-----------------------------------------------------------------------------
(* The open journal and what a restart would find *)

Doubts == [some : BOOLEAN, at : Positions, body : Bodies \cup {"blank"}]

ExpectedLogs(d, ca, p, st) ==
    {p} \cup (IF d.some THEN {p \cup {<<d.at, d.body>>}} ELSE {})
        \cup (IF ca # 0 THEN {st} ELSE {})

\* A restart of an open journal would replay the current log, one of the expected.
LEMMA OpenReplay ==
  ASSUME NEW f \in [Arenas -> [Positions -> Cells]], NEW a \in Cursors, NEW c \in Cursors,
         NEW d \in Doubts, NEW ca \in 0..Slots, NEW p, NEW st, OpenOK(f, a, c, d, ca, p, st)
  PROVE  /\ Replay(f) = CurrentLog(f, a, c, ca, st)
         /\ Recoverable(f, ExpectedLogs(d, ca, p, st))
<1> DEFINE Log == CurrentLog(f, a, c, ca, st)
           X == ExpectedLogs(d, ca, p, st)
<1> SUFFICES Replay(f) = Log /\ Recoverable(f, X)
  OBVIOUS
<1>0. /\ a.index \in Arenas /\ a.epoch \in Epochs /\ a.some \in BOOLEAN
      /\ c.index \in Arenas /\ c.epoch \in Epochs /\ c.some \in BOOLEAN
      /\ \A i \in Arenas : 1 - i \in Arenas /\ 1 - (1 - i) = i /\ f[i] \in [Positions -> Cells]
      /\ ca # 0 => ca \in Positions
      /\ 0 \in Arenas /\ 1 \in Arenas /\ 0 \in Epochs
  BY JournalConstants DEF Cursors, Arenas, Positions, Epochs
<1>1. ASSUME NEW i \in Arenas, NEW e \in Epochs, Chosen(f, i, e), LogOf(f[i]) = Log, Log \in X
      PROVE  Replay(f) = Log /\ Recoverable(f, X)
  <2>1. Replay(f) = LogOf(f[i])
    BY <1>1, ChosenReplay
  <2> QED
    BY <1>1, <2>1 DEF Recoverable
<1>2. ASSUME NoCommit(f[0]), NoCommit(f[1]), Log = {}, {} \in X
      PROVE  Replay(f) = Log /\ Recoverable(f, X)
  BY <1>2, BareReplay DEF Recoverable
<1>3. ActiveOK(f, a, d, ca, p) /\ BareOK(f, a, c, d, p) /\ CopyOK(f, a, c, ca, st)
  BY DEF OpenOK
<1>4. CASE c.some /\ ca # 0 /\ f[c.index][ca] = Record(c.epoch, "commit")
  <2>1. Log = st /\ Log \in X
    BY <1>4 DEF CurrentLog, ExpectedLogs
  <2>2. /\ Copied(f[c.index], c.epoch, ca) /\ st = Snapshot(f[c.index], ca)
        /\ c.index = IF a.some THEN 1 - a.index ELSE 0
        /\ c.epoch = IF a.some THEN (a.epoch + 1) % EpochModulus ELSE 0
    BY <1>3, <1>4 DEF CopyOK
  <2>3. Live(f[c.index], c.epoch) /\ LogOf(f[c.index]) = st
    BY <1>0, <1>4, <2>2, CommitCell
  <2>4. Before(f[1 - c.index], c.epoch)
    <3>1. CASE a.some
      <4>1. Live(f[a.index], a.epoch) /\ 1 - c.index = a.index
        BY <1>0, <1>3, <2>2, <3>1 DEF ActiveOK
      <4>2. \A at \in Positions : f[a.index][at].body = "commit" => f[a.index][at].epoch = a.epoch
        BY <4>1 DEF Live, IsRecord
      <4> QED
        BY <2>2, <3>1, <4>1, <4>2 DEF Before
    <3>2. CASE ~a.some
      <4>1. NoCommit(f[1]) /\ 1 - c.index = 1
        BY <1>3, <2>2, <3>2 DEF BareOK
      <4> QED
        BY <4>1 DEF NoCommit, Before
    <3> QED
      BY <3>1, <3>2
  <2> HIDE DEF Log, X
  <2> QED
    BY <1>0, <1>1, <2>1, <2>3, <2>4 DEF Chosen
<1>5. CASE ~(c.some /\ ca # 0 /\ f[c.index][ca] = Record(c.epoch, "commit"))
  <2>1. Log = IF a.some THEN LogOf(f[a.index]) ELSE {}
    BY <1>5 DEF CurrentLog
  <2>2. ca # 0 => c.some
    BY <1>3 DEF CopyOK
  <2>3. c.some => NoCommit(f[c.index]) /\ c.index = IF a.some THEN 1 - a.index ELSE 0
    <3>1. c.some /\ ca = 0 => NoCommit(f[c.index])
      BY <1>3 DEF CopyOK
    <3>2. c.some /\ ca # 0 => Copied(f[c.index], c.epoch, ca) /\ f[c.index][ca] \in {Blank, Torn}
      BY <1>3, <1>5 DEF CopyOK
    <3>3. c.some /\ ca # 0 => NoCommit(f[c.index])
      BY <1>0, <3>2, CommitCell
    <3>4. c.some => c.index = IF a.some THEN 1 - a.index ELSE 0
      BY <1>3 DEF CopyOK
    <3> QED
      BY <3>1, <3>3, <3>4
  <2>4. CASE a.some
    <3>1. Live(f[a.index], a.epoch) /\ (ca = 0 => Before(f[1 - a.index], a.epoch))
      BY <1>3, <2>4 DEF ActiveOK
    <3>2. c.some => Before(f[1 - a.index], a.epoch)
      BY <2>3, <2>4 DEF NoCommit, Before
    <3>3. Chosen(f, a.index, a.epoch)
      BY <2>2, <3>1, <3>2 DEF Chosen
    <3>4. LogOf(f[a.index]) \in X
      BY <1>3, <2>4 DEF ActiveOK, ExpectedLogs
    <3> HIDE DEF Log, X
    <3> QED
      BY <1>0, <1>1, <2>1, <2>4, <3>3, <3>4
  <2>5. CASE ~a.some
    <3>1. p = {} /\ NoCommit(f[1]) /\ (~c.some => NoCommit(f[0]) \/ JustCommitted(f[0]))
      BY <1>3, <2>5 DEF BareOK
    <3>2. Log = {} /\ {} \in X
      BY <2>1, <2>5, <3>1 DEF ExpectedLogs
    <3>3. NoCommit(f[0]) \/ JustCommitted(f[0])
      BY <2>3, <2>5, <3>1
    <3>4. CASE JustCommitted(f[0])
      <4>1. Live(f[0], 0) /\ LogOf(f[0]) = {}
        BY <1>0, <3>4, FirstCommit
      <4>2. Chosen(f, 0, 0)
        BY <3>1, <4>1 DEF Chosen, NoCommit, Before
      <4> HIDE DEF Log, X
      <4> QED
        BY <1>0, <1>1, <3>2, <4>1, <4>2
    <3> HIDE DEF Log, X
    <3> QED
      BY <1>2, <3>1, <3>2, <3>3, <3>4
  <2> QED
    BY <1>0, <2>4, <2>5
<1> QED
  BY <1>4, <1>5

\* The arena a restart picks gives the log it replays, and no warning.
LEMMA RecoverableReplay ==
  ASSUME NEW f \in [Arenas -> [Positions -> Cells]], NEW expected, Recoverable(f, expected)
  PROVE  /\ Replay(f) \in expected
         /\ \A i \in Selected(f) : ~Warned(f[i])
<1>1. CASE NoCommit(f[0]) /\ NoCommit(f[1]) /\ {} \in expected
  BY <1>1, BareReplay
<1>2. ASSUME NEW i \in Arenas, NEW e \in Epochs, Chosen(f, i, e), LogOf(f[i]) \in expected
      PROVE  Replay(f) \in expected /\ \A j \in Selected(f) : ~Warned(f[j])
  <2>1. Selected(f) = {i} /\ Replay(f) = LogOf(f[i]) /\ ~Warned(f[i])
    BY <1>2, ChosenReplay
  <2> QED
    BY <1>2, <2>1
<1> QED
  BY <1>1, <1>2 DEF Recoverable

\* A step that leaves flash and promises fit for some pair of cursors, the ones it
\* had when the power went or the ones it returns with, keeps the invariant.
LEMMA StepKeeps ==
  ASSUME TypeOK', NEW a \in Cursors, NEW c \in Cursors,
         OpenOK(flash', a, c, inDoubt', commitAt', promised', staged'),
         \/ up' /\ active' = a /\ compaction' = c
         \/ ~up' /\ active' = NoCursor /\ compaction' = NoCursor
  PROVE  JournalInv' /\ Replay(flash') = CurrentLog(flash', a, c, commitAt', staged')
<1>1. /\ flash' \in [Arenas -> [Positions -> Cells]] /\ inDoubt' \in Doubts /\ commitAt' \in 0..Slots
  BY DEF TypeOK, Doubts
<1>2. /\ Replay(flash') = CurrentLog(flash', a, c, commitAt', staged')
      /\ Recoverable(flash', ExpectedLogs(inDoubt', commitAt', promised', staged'))
  BY <1>1, OpenReplay
<1>3. Expected' = ExpectedLogs(inDoubt', commitAt', promised', staged')
  BY DEF Expected, ExpectedLogs
<1> QED
  BY <1>2, <1>3 DEF JournalInv

-----------------------------------------------------------------------------
(* One lemma per call: it keeps the invariant, and it is a step of the durable *)
(* log or leaves that log alone.                                               *)

LogStep == Durable!LogNext \/ UNCHANGED Durable!logVars

\* The ways to be a step of the durable log.
LEMMA LogSteps ==
  /\ Replay(flash') = Replay(flash) /\ staged' \in {staged, {}} => LogStep
  /\ Replay(flash') = staged /\ staged' \in {staged, {}} => LogStep
  /\ Replay(flash') = Replay(flash)
       /\ (\E x : (\A y \in staged : y[1] < x[1]) /\ staged' = staged \cup {x}) => LogStep
  /\ staged' = staged
       /\ (\E x : (\A y \in Replay(flash) : y[1] < x[1]) /\ Replay(flash') = Replay(flash) \cup {x})
     => LogStep
  BY DEF LogStep, Durable!LogNext, Durable!logVars, Durable!Discard, Durable!Switch,
         Durable!Stage, Durable!Extend, Durable!Behind

\* The fields of the cursors that the calls make.
LEMMA CursorFields ==
  /\ \A a \in Cursors : /\ a.some \in BOOLEAN /\ a.index \in Arenas /\ a.epoch \in Epochs /\ a.at \in 1..End
                        /\ a.at # End => a.at \in Positions
  /\ \A a \in Cursors : /\ Sealed(a) \in Cursors /\ Sealed(a).at = End /\ Sealed(a).some = a.some
                        /\ Sealed(a).index = a.index /\ Sealed(a).epoch = a.epoch
  /\ \A a \in Cursors, at \in Positions :
        LET n == [a EXCEPT !.at = at + 1]
        IN  /\ n \in Cursors /\ n.at = at + 1 /\ n.some = a.some
            /\ n.index = a.index /\ n.epoch = a.epoch
  /\ \A i \in Arenas, e \in Epochs, at \in 1..End :
        LET n == Cursor(i, e, at)
        IN  /\ n \in Cursors /\ n.at = at /\ n.some = TRUE /\ n.index = i /\ n.epoch = e
  /\ NoCursor \in Cursors /\ ~NoCursor.some
  BY JournalConstants DEF Cursors, Sealed, Cursor, NoCursor, Positions, End, Arenas, Epochs

\* Arenas, the doubts and the logs.
LEMMA DataFacts ==
  /\ \A i \in Arenas : 1 - i \in Arenas /\ 1 - (1 - i) = i /\ 1 - i # i
  /\ 0 \in Arenas /\ 1 \in Arenas /\ 0 \in Epochs /\ 1 \in Positions /\ 1 \in 1..End /\ End \in 1..End
  /\ Positions \subseteq 1..End /\ \A at \in Positions : at # 0 /\ at \in 0..Slots /\ at + 1 \in 1..End
  /\ \A at \in Positions : at + 1 # End => at + 1 \in Positions
  /\ \A at \in 0..Slots : at # 0 => at \in Positions
  /\ NoDoubt \in Doubts /\ ~NoDoubt.some
  /\ \A at \in Positions, b \in Bodies :
        LET n == Doubt(at, b) IN n \in Doubts /\ n.some = TRUE /\ n.at = at /\ n.body = b
  BY JournalConstants DEF Arenas, Epochs, Positions, End, NoDoubt, Doubt, Doubts

\* A log is made of entries.
LEMMA LogEntries ==
  ASSUME NEW arena \in [Positions -> Cells]
  PROVE  LogOf(arena) \subseteq Entries
<1>1. \A k \in Positions : IsRecord(arena[k]) /\ arena[k].body # "commit" => arena[k].body \in Bodies
  BY CellKinds
<1> QED
  BY <1>1 DEF LogOf, Entries

\* What the invariant says of an open journal.
LEMMA OpenFacts ==
  ASSUME JournalInv, up
  PROVE  /\ flash \in [Arenas -> [Positions -> Cells]] /\ active \in Cursors /\ compaction \in Cursors
         /\ inDoubt \in Doubts /\ commitAt \in 0..Slots
         /\ promised \subseteq Entries /\ staged \subseteq Entries
         /\ ActiveOK(flash, active, inDoubt, commitAt, promised)
         /\ BareOK(flash, active, compaction, inDoubt, promised)
         /\ CopyOK(flash, active, compaction, commitAt, staged)
         /\ Replay(flash) = CurrentLog(flash, active, compaction, commitAt, staged)
<1>1. /\ flash \in [Arenas -> [Positions -> Cells]] /\ active \in Cursors /\ compaction \in Cursors
      /\ inDoubt \in Doubts /\ commitAt \in 0..Slots
      /\ promised \subseteq Entries /\ staged \subseteq Entries
  BY DEF JournalInv, TypeOK, Doubts
<1>2. OpenOK(flash, active, compaction, inDoubt, commitAt, promised, staged)
  BY DEF JournalInv
<1>3. Replay(flash) = CurrentLog(flash, active, compaction, commitAt, staged)
  BY <1>1, <1>2, OpenReplay
<1> QED
  BY <1>1, <1>2, <1>3 DEF OpenOK

\* The arena that a compaction replaces precedes the one it writes.
LEMMA OldPrecedes ==
  ASSUME NEW f \in [Arenas -> [Positions -> Cells]], NEW a \in Cursors, NEW c \in Cursors, c.some,
         NEW d, NEW ca, NEW p, NEW st,
         ActiveOK(f, a, d, ca, p), BareOK(f, a, c, d, p), CopyOK(f, a, c, ca, st)
  PROVE  Before(f[1 - c.index], c.epoch)
<1>1. /\ c.index = IF a.some THEN 1 - a.index ELSE 0
      /\ c.epoch = IF a.some THEN (a.epoch + 1) % EpochModulus ELSE 0
  BY DEF CopyOK
<1>2. CASE a.some
  <2>1. Live(f[a.index], a.epoch)
    BY <1>2 DEF ActiveOK
  <2>2. 1 - c.index = a.index
    BY <1>1, <1>2, DataFacts, CursorFields
  <2>3. \A at \in Positions : f[a.index][at].body = "commit" => f[a.index][at].epoch = a.epoch
    BY <2>1 DEF Live, IsRecord
  <2> QED
    BY <1>1, <1>2, <2>2, <2>3 DEF Before
<1>3. CASE ~a.some
  <2>1. NoCommit(f[1]) /\ 1 - c.index = 1
    BY <1>1, <1>3 DEF BareOK
  <2> QED
    BY <2>1 DEF NoCommit, Before
<1> QED
  BY <1>2, <1>3, CursorFields

\* A power loss between calls.
LEMMA PowerLossKeeps ==
  ASSUME JournalInv, PowerLoss
  PROVE  JournalInv' /\ LogStep
<1>1. up /\ UNCHANGED <<flash, inDoubt, commitAt, promised, staged>>
      /\ up' = FALSE /\ active' = NoCursor /\ compaction' = NoCursor
  BY DEF PowerLoss, PowerOff
<1>2. active \in Cursors /\ compaction \in Cursors
  BY <1>1, OpenFacts
<1>3. TypeOK'
  BY <1>1, CursorFields, Zenon DEF JournalInv, TypeOK
<1>4. OpenOK(flash', active, compaction, inDoubt', commitAt', promised', staged')
  BY <1>1 DEF JournalInv
<1>5. JournalInv'
  BY <1>1, <1>2, <1>3, <1>4, StepKeeps
<1> QED
  BY <1>1, <1>5, LogSteps

\* open settles on what is on flash.
LEMMA OpenKeeps ==
  ASSUME JournalInv, Open
  PROVE  JournalInv' /\ LogStep
<1>1. /\ up' = TRUE /\ compaction' = NoCursor /\ promised' = Replay(flash) /\ inDoubt' = NoDoubt
      /\ commitAt' = 0 /\ staged' = {} /\ flash' = flash
  BY DEF Open
<1>2. flash \in [Arenas -> [Positions -> Cells]]
  BY DEF JournalInv, TypeOK
<1>3. LogStep
  BY <1>1, LogSteps
<1>4. ASSUME active' \in Cursors, promised' \subseteq Entries,
             ActiveOK(flash, active', NoDoubt, 0, promised'),
             BareOK(flash, active', NoCursor, NoDoubt, promised')
      PROVE  JournalInv'
  <2>1. TypeOK'
    <3>1. inDoubt' \in Doubts /\ compaction' \in Cursors /\ commitAt' \in 0..Slots
      BY <1>1, JournalConstants, DataFacts, CursorFields
    <3>2. flash' \in [Arenas -> [Positions -> Cells]] /\ up' \in BOOLEAN /\ staged' \subseteq Entries
      BY <1>1, <1>2
    <3> QED
      BY <1>4, <3>1, <3>2 DEF TypeOK, Doubts
  <2>2. CopyOK(flash', active', NoCursor, 0, {})
    BY CursorFields DEF CopyOK
  <2> QED
    BY <1>1, <1>4, <2>1, <2>2, CursorFields, StepKeeps DEF OpenOK
<1>5. CASE NoCommit(flash[0]) /\ NoCommit(flash[1])
  <2>1. Selected(flash) = {} /\ Replay(flash) = {}
    BY <1>2, <1>5, BareReplay
  <2>2. active' = NoCursor
    BY <2>1 DEF Open
  <2>3. ActiveOK(flash, active', NoDoubt, 0, promised') /\ BareOK(flash, active', NoCursor, NoDoubt, promised')
    BY <1>1, <1>5, <2>1, <2>2, CursorFields, DataFacts DEF ActiveOK, BareOK
  <2> QED
    BY <1>1, <1>3, <1>4, <2>1, <2>2, <2>3, CursorFields
<1>6. ASSUME NEW i \in Arenas, NEW e \in Epochs, Chosen(flash, i, e)
      PROVE  JournalInv'
  <2>1. Selected(flash) = {i} /\ Replay(flash) = LogOf(flash[i]) /\ EpochOf(flash[i]) = {e}
    BY <1>2, <1>6, ChosenReplay, Zenon
  <2>2. PICK at \in 1..End : AppendAt(flash[i], at) /\ active' = Cursor(i, e, at)
    BY <2>1 DEF Open
  <2>3. /\ active' \in Cursors /\ active'.some = TRUE /\ active'.index = i /\ active'.epoch = e
        /\ active'.at = at
    BY <2>2, CursorFields
  <2>4. at # End => Filled(flash[i], e, at)
    BY <1>2, <1>6, <2>2, LiveAppendAt DEF Chosen
  <2>5. ActiveOK(flash, active', NoDoubt, 0, promised')
    BY <1>1, <1>6, <2>1, <2>3, <2>4, DataFacts DEF ActiveOK, Chosen
  <2>6. BareOK(flash, active', NoCursor, NoDoubt, promised')
    BY <2>3 DEF BareOK
  <2>7. promised' \subseteq Entries
    BY <1>1, <1>2, <2>1, LogEntries
  <2> QED
    BY <1>4, <2>3, <2>5, <2>6, <2>7
<1> QED
  BY <1>3, <1>5, <1>6 DEF JournalInv, Recoverable

\* The types of the next state.
LEMMA TypeStep ==
  ASSUME flash' \in [Arenas -> [Positions -> Cells]], inDoubt' \in Doubts, commitAt' \in 0..Slots,
         promised' \subseteq Entries, staged' \subseteq Entries,
         NEW a \in Cursors, NEW c \in Cursors, up = TRUE,
         \/ up' = up /\ active' = a /\ compaction' = c
         \/ up' = FALSE /\ active' = NoCursor /\ compaction' = NoCursor
  PROVE  TypeOK'
<1>1. NoCursor \in Cursors
  BY CursorFields
<1>2. up' \in BOOLEAN /\ active' \in Cursors /\ compaction' \in Cursors
  BY <1>1, Zenon
<1> QED
  BY <1>2 DEF TypeOK, Doubts

\* initialize_empty: arena 0 is left without a commit or with nothing but one.
LEMMA InitializeKeeps ==
  ASSUME JournalInv, NEW outcome \in Outcomes, InitializeEmpty(outcome)
  PROVE  JournalInv' /\ LogStep
<1>1. up /\ ~active.some /\ ~compaction.some /\ UNCHANGED <<inDoubt, commitAt, promised, staged>>
  BY DEF InitializeEmpty
<1>2. /\ flash \in [Arenas -> [Positions -> Cells]] /\ active \in Cursors /\ compaction \in Cursors
      /\ inDoubt \in Doubts /\ commitAt \in 0..Slots
      /\ promised \subseteq Entries /\ staged \subseteq Entries
      /\ Replay(flash) = CurrentLog(flash, active, compaction, commitAt, staged)
  BY <1>1, OpenFacts
<1>3. BareOK(flash, active, compaction, inDoubt, promised) /\ CopyOK(flash, active, compaction, commitAt, staged)
  BY <1>1, OpenFacts
<1>4. /\ promised = {} /\ ~inDoubt.some /\ commitAt = 0
      /\ NoCommit(flash[1]) /\ (NoCommit(flash[0]) \/ JustCommitted(flash[0]))
  BY <1>1, <1>3 DEF BareOK, CopyOK
<1>5. \E new \in [Positions -> Cells] :
         /\ flash' = [flash EXCEPT ![0] = new]
         /\ NoCommit(new) \/ JustCommitted(new)
         /\ outcome = "ok" => JustCommitted(new)
  <2>0. PICK eraseOutcome \in {"ok", outcome} :
         \E blank \in Erased(flash[0], Positions, eraseOutcome) :
            IF eraseOutcome # "ok"
            THEN flash' = [flash EXCEPT ![0] = blank]
            ELSE \E c \in Left(blank[1], Record(0, "commit"), outcome) :
                    flash' = [flash EXCEPT ![0] = [blank EXCEPT ![1] = c]]
    BY DEF InitializeEmpty
  <2>1. PICK blank \in Erased(flash[0], Positions, eraseOutcome) :
            IF eraseOutcome # "ok"
            THEN flash' = [flash EXCEPT ![0] = blank]
            ELSE \E c \in Left(blank[1], Record(0, "commit"), outcome) :
                    flash' = [flash EXCEPT ![0] = [blank EXCEPT ![1] = c]]
    BY <2>0
  <2>2. flash[0] \in [Positions -> Cells] /\ Positions \in SUBSET Positions
    BY <1>2, DataFacts
  <2>3. /\ blank \in [Positions -> Cells] /\ (NoCommit(flash[0]) => NoCommit(blank))
        /\ JustCommitted(flash[0]) => NoCommit(blank) \/ JustCommitted(blank)
        /\ eraseOutcome = "ok" => \A at \in Positions : blank[at] = Blank
    BY <2>1, <2>2, ErasedArena, Zenon
  <2>4. CASE eraseOutcome # "ok"
    BY <1>4, <2>1, <2>3, <2>4
  <2>5. CASE eraseOutcome = "ok"
    <3>1. blank[1] = Blank
      BY <2>3, <2>5, DataFacts
    <3>2. PICK cell \in Left(Blank, Record(0, "commit"), outcome) :
              flash' = [flash EXCEPT ![0] = [blank EXCEPT ![1] = cell]]
      BY <2>1, <2>5, <3>1
    <3>b. Record(0, "commit") \in Cells
      BY CellKinds, DataFacts
    <3>3. cell \in {Blank, Torn, Record(0, "commit")} /\ cell \in Cells /\ (outcome = "ok" => cell = Record(0, "commit"))
      BY <3>2, <3>b, LeftOnBlank
    <3> DEFINE new == [blank EXCEPT ![1] = cell]
    <3>a. 1 \in Positions
      BY DataFacts
    <3>4. /\ new \in [Positions -> Cells] /\ new[1] = cell
          /\ \A at \in Positions : at # 1 => new[at] = Blank
      BY <2>3, <2>5, <3>3, <3>a
    <3> HIDE DEF new
    <3>5. cell = Record(0, "commit") => JustCommitted(new)
      BY <3>4 DEF JustCommitted
    <3>6. cell \in {Blank, Torn} => NoCommit(new)
      BY <3>4, CellKinds DEF NoCommit
    <3>7. flash' = [flash EXCEPT ![0] = new]
      BY <3>2 DEF new
    <3> QED
      BY <3>3, <3>4, <3>5, <3>6, <3>7, Zenon
  <2> QED
    BY <2>4, <2>5
<1>6. /\ flash' \in [Arenas -> [Positions -> Cells]] /\ flash'[1] = flash[1]
      /\ NoCommit(flash'[0]) \/ JustCommitted(flash'[0])
      /\ outcome = "ok" => JustCommitted(flash'[0])
  BY <1>2, <1>5, DataFacts
<1>7. Replay(flash) = {}
  BY <1>1, <1>2 DEF CurrentLog
<1>8. CASE outcome = "ok"
  <2>1. active' = Cursor(0, 0, 2) /\ compaction' = compaction /\ up'
    BY <1>1, <1>8 DEF InitializeEmpty
  <2>2. /\ active' \in Cursors /\ active'.some = TRUE /\ active'.index = 0 /\ active'.epoch = 0
        /\ active'.at = 2
    <3>1. 2 \in 1..End
      BY JournalConstants DEF End
    <3> QED
      BY <2>1, <3>1, CursorFields, DataFacts
  <2>3. Live(flash'[0], 0) /\ LogOf(flash'[0]) = {} /\ Filled(flash'[0], 0, 2)
    BY <1>6, <1>8, FirstCommit, DataFacts
  <2>4. Before(flash'[1], 0)
    BY <1>4, <1>6 DEF NoCommit, Before
  <2>5. ActiveOK(flash', active', inDoubt', commitAt', promised')
    <3>1. Live(flash'[active'.index], active'.epoch) /\ Before(flash'[1 - active'.index], active'.epoch)
      BY <2>2, <2>3, <2>4
    <3>2. Filled(flash'[active'.index], active'.epoch, active'.at) /\ LogOf(flash'[active'.index]) = promised'
      BY <1>1, <1>4, <2>2, <2>3
    <3> QED
      BY <1>1, <1>4, <3>1, <3>2 DEF ActiveOK
  <2>6. BareOK(flash', active', compaction', inDoubt', promised') /\ CopyOK(flash', active', compaction', commitAt', staged')
    BY <1>1, <1>4, <2>1, <2>2 DEF BareOK, CopyOK
  <2>7. TypeOK'
    BY <1>1, <1>2, <1>6, <2>1, <2>2 DEF TypeOK, Doubts
  <2>8. JournalInv' /\ Replay(flash') = CurrentLog(flash', active', compaction', commitAt', staged')
    BY <1>1, <1>2, <2>1, <2>2, <2>5, <2>6, <2>7, StepKeeps DEF OpenOK
  <2>9. Replay(flash') = {}
    BY <1>1, <2>1, <2>2, <2>3, <2>8 DEF CurrentLog
  <2> QED
    BY <1>1, <1>7, <2>8, <2>9, LogSteps
<1>9. CASE outcome # "ok"
  <2>1. \/ up' = up /\ active' = active /\ compaction' = compaction
        \/ up' = FALSE /\ active' = NoCursor /\ compaction' = NoCursor
    BY <1>1, <1>9, Zenon DEF InitializeEmpty, PowerOff
  <2>2. BareOK(flash', active, compaction, inDoubt', promised')
    BY <1>1, <1>4, <1>6 DEF BareOK
  <2>3. ActiveOK(flash', active, inDoubt', commitAt', promised') /\ CopyOK(flash', active, compaction, commitAt', staged')
    BY <1>1, <1>4 DEF ActiveOK, CopyOK
  <2>4. TypeOK'
    BY <1>1, <1>2, <1>6, <2>1, TypeStep, Zenon
  <2>5. JournalInv' /\ Replay(flash') = CurrentLog(flash', active, compaction, commitAt', staged')
    BY <1>1, <1>2, <2>1, <2>2, <2>3, <2>4, StepKeeps, Zenon DEF OpenOK
  <2>6. Replay(flash') = {}
    BY <1>1, <2>5 DEF CurrentLog
  <2> QED
    BY <1>1, <1>7, <2>5, <2>6, LogSteps
<1> QED
  BY <1>8, <1>9
=============================================================================
