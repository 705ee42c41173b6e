---------------------------- MODULE FlashJournal ----------------------------
(***************************************************************************)
(* The two-arena flash journal of an embedded node                         *)
(* (prns-core/src/persistence/impls/flash_journal/mod.rs): append, sector  *)
(* erase, compaction into the other arena, the commit that switches the    *)
(* arenas, the confirmation of writes whose outcome was lost, and what a   *)
(* restart replays.                                                        *)
(*                                                                         *)
(* A record takes one slot of an arena, whatever its length.  A slot is    *)
(* blank (all ones), torn (programmed, without the commit word), corrupt   *)
(* (a commit word, but no valid checksum), a husk (an erase that stopped   *)
(* after the header: it reads as blank, but what follows is not) or a      *)
(* committed record.  Flash cells that do not take the value written to    *)
(* them are left out.  The journal is owned exclusively, so nothing but a  *)
(* power loss, a flash error or the cancellation of the future can come    *)
(* between the flash operations of one call.  Each call is therefore one   *)
(* action with an outcome:                                                 *)
(*   ok      the call returned Ok                                          *)
(*   failed  it returned an error other than CommitUnconfirmed             *)
(*   lost    CommitUnconfirmed, or the future was dropped                  *)
(*   power   the power went                                                *)
(* and the slots it was programming or erasing are left in any of the      *)
(* states that the cut points of that outcome allow.                       *)
(***************************************************************************)
EXTENDS Naturals, FiniteSets

CONSTANTS
    Bodies,         \* the records a caller can write (kind and payload)
    Slots,          \* records per arena
    SectorSlots,    \* records per erase sector
    EpochModulus    \* the epochs' wrapping range (2^64 in the code)

ASSUME JournalConstants ==
    /\ Slots \in Nat \ {0}
    /\ SectorSlots \in Nat \ {0}
    /\ EpochModulus \in Nat /\ EpochModulus >= 4 /\ EpochModulus % 2 = 0
    /\ Bodies \cap {"commit", "blank", "husk", "torn", "corrupt"} = {}

VARIABLES
    flash,          \* the two arenas
    up,             \* the journal is open
    active,         \* FlashJournal::active
    compaction,     \* FlashJournal::compaction
    inDoubt,        \* the append whose outcome the owner does not know
    commitAt,       \* where an arena commit of unknown outcome was written, or 0
    promised,       \* ghost: the log the owner has been told is on flash
    staged          \* ghost: the snapshot copied by the compaction under way

vars == <<flash, up, active, compaction, inDoubt, commitAt, promised, staged>>

Arenas == {0, 1}
Positions == 1..Slots
End == Slots + 1
Epochs == 0..(EpochModulus - 1)
Record(e, b) == [body |-> b, epoch |-> e]
Blank == Record(0, "blank")
Torn == Record(0, "torn")
Corrupt == Record(0, "corrupt")
Husk == Record(0, "husk")
Cells == {Blank, Husk, Torn, Corrupt}
           \cup {Record(e, b) : e \in Epochs, b \in Bodies \cup {"commit"}}

\* An Option<ArenaCursor>; append_at is End when the arena is full or sealed.
NoCursor == [some |-> FALSE, index |-> 0, epoch |-> 0, at |-> End]
Cursor(i, e, at) == [some |-> TRUE, index |-> i, epoch |-> e, at |-> at]
Cursors == [some : BOOLEAN, index : Arenas, epoch : Epochs, at : 1..End]

\* Mutant: the cursor keeps its place when a write fails.
SealedNot(cursor) == cursor

Sealed(cursor) == [cursor EXCEPT !.at = End]

NoDoubt == [some |-> FALSE, at |-> 1, body |-> "blank"]
Doubt(at, b) == [some |-> TRUE, at |-> at, body |-> b]

-----------------------------------------------------------------------------
(* What a restart reads *)

IsRecord(c) == c.body \notin {"blank", "husk", "torn", "corrupt"}

\* The commit word is missing.
Uncommitted(c) == c.body \in {"blank", "husk", "torn"}

\* The slots that scan_arena reads before it stops.
Scanned(arena, i) == \A j \in 1..i : IsRecord(arena[j])

\* The slot at which it stops is corrupt.
Warned(arena) ==
    \E i \in Positions : arena[i].body = "corrupt" /\ \A j \in 1..(i - 1) : IsRecord(arena[j])

\* The epoch of an arena, that of its last ArenaCommit: an Option, as a set.
EpochOf(arena) ==
    {arena[i].epoch : i \in {j \in Positions :
        /\ arena[j].body = "commit"
        /\ Scanned(arena, j)
        /\ \A k \in (j + 1)..Slots : Scanned(arena, k) => arena[k].body # "commit"}}

\* epoch_is_newer: wrapping_sub, compared with half the range.
EpochIsNewer(candidate, current) ==
    LET delta == (candidate + EpochModulus - current) % EpochModulus
    IN  delta # 0 /\ delta < EpochModulus \div 2

\* select_active: an Option, as a set.
Selected(f) ==
    LET epoch0 == EpochOf(f[0])
        epoch1 == EpochOf(f[1])
    IN  {i \in Arenas :
            /\ (IF i = 0 THEN epoch0 ELSE epoch1) # {}
            /\ \A e \in epoch0, d \in epoch1 : i = 1 <=> EpochIsNewer(d, e)}

\* The records scan_arena hands to on_record, those of the arena's epoch.
EntriesOf(arena) ==
    LET epoch == EpochOf(arena)
    IN  {<<i, arena[i].body>> : i \in {j \in Positions :
            arena[j].body # "commit" /\ arena[j].epoch \in epoch /\ Scanned(arena, j)}}

\* open replays the selected arena, unless it stopped at a corrupt slot.
Replay(f) == UNION {EntriesOf(f[i]) : i \in {j \in Selected(f) : ~Warned(f[j])}}

\* Where scan_arena leaves append_at: the first blank slot if only records
\* precede it, or the end.
AppendAt(arena, at) ==
    LET stops(i) == arena[i] \in {Blank, Husk} /\ \A j \in 1..(i - 1) : IsRecord(arena[j])
    IN  \/ at \in Positions /\ stops(at)
        \/ at = End /\ \A i \in Positions : ~stops(i)

-----------------------------------------------------------------------------
(* What a call leaves on flash *)

\* Mutant: the commit word goes in with the header, before the readback.
LeftCommitFirst(old, rec, outcome) ==
    CASE outcome = "ok" -> {rec}
      [] outcome = "failed" -> {Blank, Corrupt, rec}
      [] OTHER -> {Blank, Corrupt, rec}

\* write_record of rec onto a slot that holds old.  Its commit word is written
\* last, after the rest has been read back, so only a blank slot can end as the
\* record; programming over anything else is caught by the readback.
Left(old, rec, outcome) ==
    IF old # Blank THEN IF outcome = "ok" THEN {} ELSE {Torn, Corrupt}
    ELSE CASE outcome = "ok" -> {rec}
           [] outcome = "failed" -> {Blank, Torn}
           [] OTHER -> {Blank, Torn, rec}

WriteRecord(i, at, rec, outcome) ==
    \E c \in Left(flash[i][at], rec, outcome) : flash' = [flash EXCEPT ![i][at] = c]

\* An erase of some slots: all blank if it completed, each of them untouched,
\* half erased or blank if it did not.
Erased(arena, slots, outcome) ==
    LET used == {at \in slots : arena[at] # Blank}
        half == {Blank, Husk, Torn, Corrupt}
        left == IF outcome = "ok" THEN [used -> {Blank}]
                ELSE {l \in [used -> half \cup {arena[at] : at \in used}] :
                        \A at \in used : l[at] \in half \cup {arena[at]}}
    IN  {[at \in Positions |-> IF at \in used THEN l[at] ELSE arena[at]] : l \in left}

Sector(k) == {at \in Positions : (at - 1) \div SectorSlots = k}
Sectors == 0..((Slots - 1) \div SectorSlots)

Outcomes == {"ok", "failed", "lost", "power"}

PowerOff == up' = FALSE /\ active' = NoCursor /\ compaction' = NoCursor

-----------------------------------------------------------------------------
(* The calls of the journal *)

Init ==
    /\ flash = [i \in Arenas |-> [at \in Positions |-> Blank]]
    /\ up = FALSE
    /\ active = NoCursor
    /\ compaction = NoCursor
    /\ inDoubt = NoDoubt
    /\ commitAt = 0
    /\ promised = {}
    /\ staged = {}

\* open: whatever was in doubt is settled by what is on flash.
Open ==
    /\ ~up
    /\ up' = TRUE
    /\ \/ Selected(flash) = {} /\ active' = NoCursor
       \/ \E i \in Selected(flash), at \in 1..End : \E e \in EpochOf(flash[i]) :
            AppendAt(flash[i], at) /\ active' = Cursor(i, e, at)
    /\ compaction' = NoCursor
    /\ promised' = Replay(flash)
    /\ inDoubt' = NoDoubt
    /\ commitAt' = 0
    /\ staged' = {}
    /\ UNCHANGED flash

\* initialize_empty, on a journal that found no committed arena: erase arena 0,
\* then write its commit record.
InitializeEmpty(outcome) ==
    /\ up /\ ~active.some /\ ~compaction.some
    /\ \E eraseOutcome \in {"ok", outcome} :
         \E blank \in Erased(flash[0], Positions, eraseOutcome) :
            IF eraseOutcome # "ok"
            THEN flash' = [flash EXCEPT ![0] = blank]
            ELSE \E c \in Left(blank[1], Record(0, "commit"), outcome) :
                    flash' = [flash EXCEPT ![0] = [blank EXCEPT ![1] = c]]
    /\ CASE outcome = "ok" -> active' = Cursor(0, 0, 2) /\ UNCHANGED <<up, compaction>>
         [] outcome = "power" -> PowerOff
         [] OTHER -> UNCHANGED <<up, active, compaction>>
    /\ UNCHANGED <<inDoubt, commitAt, promised, staged>>

\* append: the cursor is sealed before the first write and moves on only when
\* the write is verified.
AppendFrame(b, outcome) ==
    /\ up /\ ~compaction.some
    /\ active.some /\ active.at # End
    /\ WriteRecord(active.index, active.at, Record(active.epoch, b), outcome)
    /\ CASE outcome = "ok" ->
              /\ active' = [active EXCEPT !.at = @ + 1]
              /\ promised' = promised \cup {<<active.at, b>>}
              /\ UNCHANGED <<up, compaction, inDoubt>>
         [] outcome = "failed" ->
              /\ active' = Sealed(active)
              /\ UNCHANGED <<up, compaction, promised, inDoubt>>
         [] outcome = "lost" ->
              /\ active' = Sealed(active)
              /\ inDoubt' = Doubt(active.at, b)
              /\ UNCHANGED <<up, compaction, promised>>
         [] OTHER ->
              /\ PowerOff
              /\ inDoubt' = Doubt(active.at, b)
              /\ UNCHANGED promised
    /\ UNCHANGED <<commitAt, staged>>

\* confirm_append: the header at the remembered offset decides.
ConfirmAppend ==
    /\ up /\ inDoubt.some
    /\ ~compaction.some /\ active.some
    /\ LET c == flash[active.index][inDoubt.at]
       IN  \/ /\ c = Record(active.epoch, inDoubt.body)
              /\ promised' = promised \cup {<<inDoubt.at, inDoubt.body>>}
           \/ /\ Uncommitted(c)
              /\ UNCHANGED promised
    /\ inDoubt' = NoDoubt
    /\ UNCHANGED <<flash, up, active, compaction, commitAt, staged>>
\* Mutant: the index is not flipped.
InactiveIndexSame == IF active.some THEN active.index ELSE 0

InactiveIndex == IF active.some THEN 1 - active.index ELSE 0

\* erase_inactive_sector
EraseInactiveSector(k, outcome) ==
    /\ up /\ ~compaction.some
    /\ \E arena \in Erased(flash[InactiveIndex], Sector(k), outcome) :
         flash' = [flash EXCEPT ![InactiveIndex] = arena]
    /\ IF outcome = "power" THEN PowerOff ELSE UNCHANGED <<up, active, compaction>>
    /\ UNCHANGED <<inDoubt, commitAt, promised, staged>>

\* begin_compaction.  The owner has erased every sector of the arena first.
BeginCompaction ==
    /\ up /\ ~compaction.some
    /\ \A at \in Positions : flash[InactiveIndex][at] = Blank
    /\ compaction' = Cursor(InactiveIndex,
                            IF active.some THEN (active.epoch + 1) % EpochModulus ELSE 0, 1)
    /\ staged' = {}
    /\ UNCHANGED <<flash, up, active, inDoubt, commitAt, promised>>

\* append_compacted
AppendCompacted(b, outcome) ==
    /\ up /\ compaction.some /\ compaction.at # End
    /\ WriteRecord(compaction.index, compaction.at, Record(compaction.epoch, b), outcome)
    /\ CASE outcome = "ok" ->
              /\ compaction' = [compaction EXCEPT !.at = @ + 1]
              /\ staged' = staged \cup {<<compaction.at, b>>}
              /\ UNCHANGED <<up, active>>
         [] outcome = "power" -> PowerOff /\ UNCHANGED staged
         [] OTHER -> compaction' = Sealed(compaction) /\ UNCHANGED <<up, active, staged>>
    /\ UNCHANGED <<inDoubt, commitAt, promised>>

\* The arena that has just been committed takes over.
TakeOver(at) ==
    /\ active' = [compaction EXCEPT !.at = at + 1]
    /\ compaction' = NoCursor
    /\ promised' = staged
    /\ staged' = {}
    /\ inDoubt' = NoDoubt

\* commit_compaction: the old arena is sealed before the commit record is
\* written behind the snapshot.
CommitCompaction(outcome) ==
    /\ up /\ compaction.some /\ compaction.at # End
    /\ WriteRecord(compaction.index, compaction.at, Record(compaction.epoch, "commit"), outcome)
    /\ CASE outcome = "ok" -> TakeOver(compaction.at) /\ UNCHANGED <<up, commitAt>>
         [] outcome = "failed" ->
              /\ active' = Sealed(active) /\ compaction' = Sealed(compaction)
              /\ UNCHANGED <<up, inDoubt, commitAt, promised, staged>>
         [] outcome = "lost" ->
              /\ active' = Sealed(active) /\ compaction' = Sealed(compaction)
              /\ commitAt' = compaction.at
              /\ UNCHANGED <<up, inDoubt, promised, staged>>
         [] OTHER ->
              /\ PowerOff
              /\ commitAt' = compaction.at
              /\ UNCHANGED <<inDoubt, promised, staged>>

\* commit_compaction with no room left for the commit record.
CommitCompactionFull ==
    /\ up /\ compaction.some /\ compaction.at = End
    /\ active' = Sealed(active)
    /\ UNCHANGED <<flash, up, compaction, inDoubt, commitAt, promised, staged>>

\* confirm_compaction_commit
ConfirmCompactionCommit ==
    /\ up /\ compaction.some /\ commitAt # 0
    /\ LET c == flash[compaction.index][commitAt]
       IN  \/ c = Record(compaction.epoch, "commit") /\ TakeOver(commitAt)
           \/ /\ Uncommitted(c)
              /\ UNCHANGED <<active, compaction, inDoubt, promised, staged>>
    /\ commitAt' = 0
    /\ UNCHANGED <<flash, up>>

\* Mutant: a compaction is given up while its commit is in doubt.
AbortCompactionInDoubt ==
    /\ up /\ compaction.some
    /\ compaction' = NoCursor
    /\ staged' = {}
    /\ UNCHANGED <<flash, up, active, inDoubt, commitAt, promised>>

\* abort_compaction.  The owner first confirms a commit that is in doubt.
AbortCompaction ==
    /\ up /\ compaction.some
    /\ commitAt = 0
    /\ compaction' = NoCursor
    /\ staged' = {}
    /\ UNCHANGED <<flash, up, active, inDoubt, commitAt, promised>>

PowerLoss ==
    /\ up
    /\ PowerOff
    /\ UNCHANGED <<flash, inDoubt, commitAt, promised, staged>>

Next ==
    \/ Open
    \/ ConfirmAppend
    \/ BeginCompaction
    \/ CommitCompactionFull
    \/ ConfirmCompactionCommit
    \/ AbortCompaction
    \/ PowerLoss
    \/ \E outcome \in Outcomes :
         \/ InitializeEmpty(outcome)
         \/ CommitCompaction(outcome)
         \/ \E k \in Sectors : EraseInactiveSector(k, outcome)
         \/ \E b \in Bodies : AppendFrame(b, outcome) \/ AppendCompacted(b, outcome)

Spec == Init /\ [][Next]_vars
-----------------------------------------------------------------------------
(* Properties *)

Entries == Positions \X Bodies

\* Every variable keeps its type.
TypeOK ==
    /\ flash \in [Arenas -> [Positions -> Cells]]
    /\ up \in BOOLEAN
    /\ active \in Cursors /\ compaction \in Cursors
    /\ inDoubt \in [some : BOOLEAN, at : Positions, body : Bodies \cup {"blank"}]
    /\ commitAt \in 0..Slots
    /\ promised \subseteq Entries /\ staged \subseteq Entries

\* The logs a restart may find: what the owner was told, with the append in doubt
\* or without, or the whole snapshot whose commit is in doubt.
Expected ==
    {promised}
      \cup (IF inDoubt.some THEN {promised \cup {<<inDoubt.at, inDoubt.body>>}} ELSE {})
      \cup (IF commitAt # 0 THEN {staged} ELSE {})

\* The state keeps its type and, at every moment, power on or off, a restart replays exactly what the owner has
\* been told is stored, give or take the one operation whose outcome it does not
\* know: no acknowledged record is lost, no failed one appears, and a compaction
\* shows wholly or not at all (append, commit_compaction, confirm_append,
\* confirm_compaction_commit).
ReplaysWhatWasPromised == TypeOK /\ Replay(flash) \in Expected

\* A cursor that can still be written to points at a blank slot: no programmed
\* cell is ever programmed again before its sector is erased (write_cursor_record).
WritesLandOnBlank ==
    \A c \in {active, compaction} : c.some /\ c.at # End => flash[c.index][c.at] = Blank

\* Interrupted writes and erases alone never make a restart report the arena it
\* replays as corrupt: they tear the tail of a log or an arena not yet in use.
NeverWarned == \A i \in Selected(flash) : ~Warned(flash[i])

\* The abstract log, over what a restart replays and the snapshot being copied.
Durable == INSTANCE DurableLog WITH log <- Replay(flash), staged <- staged

\* The journal implements the durable log.
ImplementsDurableLog == Durable!LogSpec
=============================================================================
