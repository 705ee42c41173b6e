------------------------- MODULE FlashJournalProofs -------------------------
(***************************************************************************)
(* The writes and the compaction keep the invariant of                     *)
(* FlashJournalInvariant, and every step of the journal is a step of the   *)
(* durable log.  The theorems are at the end.                              *)
(***************************************************************************)
EXTENDS FlashJournalInvariant

\* A write changes one slot of one arena.
LEMMA WriteArena ==
  ASSUME flash \in [Arenas -> [Positions -> Cells]], NEW i \in Arenas, NEW at \in Positions, NEW cell \in Cells,
         flash' = [flash EXCEPT ![i][at] = cell]
  PROVE  /\ flash' \in [Arenas -> [Positions -> Cells]]
         /\ flash'[i] = [flash[i] EXCEPT ![at] = cell] /\ flash'[1 - i] = flash[1 - i]
<1>1. 1 - i \in Arenas /\ 1 - i # i /\ flash[i] \in [Positions -> Cells]
  BY DataFacts
<1>2. [flash[i] EXCEPT ![at] = cell] \in [Positions -> Cells]
  BY <1>1
<1> QED
  BY <1>1, <1>2

\* append: the record is there, or it is not and the cursor is sealed.
LEMMA AppendKeeps ==
  ASSUME JournalInv, NEW outcome \in Outcomes, NEW b \in Bodies, AppendFrame(b, outcome)
  PROVE  JournalInv' /\ LogStep
<1> DEFINE i == active.index  e == active.epoch  at == active.at
<1>1. up /\ ~compaction.some /\ active.some /\ at # End /\ UNCHANGED <<commitAt, staged>>
  BY DEF AppendFrame
<1>2. /\ flash \in [Arenas -> [Positions -> Cells]] /\ active \in Cursors /\ compaction \in Cursors
      /\ inDoubt \in Doubts /\ commitAt \in 0..Slots
      /\ promised \subseteq Entries /\ staged \subseteq Entries
      /\ Replay(flash) = CurrentLog(flash, active, compaction, commitAt, staged)
  BY <1>1, OpenFacts
<1>3. ActiveOK(flash, active, inDoubt, commitAt, promised) /\ CopyOK(flash, active, compaction, commitAt, staged)
  BY <1>1, OpenFacts
<1>4. /\ commitAt = 0 /\ Live(flash[i], e) /\ Before(flash[1 - i], e) /\ Filled(flash[i], e, at)
      /\ ~inDoubt.some /\ LogOf(flash[i]) = promised
  BY <1>1, <1>3 DEF ActiveOK, CopyOK
<1>5. i \in Arenas /\ e \in Epochs /\ at \in Positions /\ flash[i][at] = Blank /\ flash[i] \in [Positions -> Cells]
  <2>1. i \in Arenas /\ e \in Epochs /\ at \in Positions
    BY <1>1, <1>2, CursorFields
  <2>2. at >= at
    BY <2>1, JournalConstants DEF Positions
  <2> QED
    BY <1>2, <1>4, <2>1, <2>2 DEF Filled
<1>6. PICK cell \in Left(Blank, Record(e, b), outcome) : flash' = [flash EXCEPT ![i][at] = cell]
  BY <1>5, Zenon DEF AppendFrame, WriteRecord
<1>7. /\ cell \in {Blank, Torn, Record(e, b)} /\ cell \in Cells
      /\ outcome = "ok" => cell = Record(e, b)
      /\ outcome = "failed" => cell \in {Blank, Torn}
  <2>1. Record(e, b) \in Cells
    BY <1>5, CellKinds
  <2> HIDE DEF i, e, at
  <2> QED
    BY <1>6, <2>1, LeftOnBlank
<1>8. /\ flash' \in [Arenas -> [Positions -> Cells]] /\ flash'[1 - i] = flash[1 - i]
      /\ flash'[i] = [flash[i] EXCEPT ![at] = cell]
  <2> HIDE DEF i, at
  <2> QED
    BY <1>2, <1>5, <1>6, <1>7, WriteArena, Zenon
<1>9. /\ Live(flash'[i], e) /\ flash'[i][at] = cell
      /\ cell \in {Blank, Torn} => LogOf(flash'[i]) = promised
      /\ cell = Record(e, b) => LogOf(flash'[i]) = promised \cup {<<at, b>>} /\ Filled(flash'[i], e, at + 1)
      /\ \A x \in promised : x[1] < at
  <2> HIDE DEF i, e, at
  <2> QED
    BY <1>4, <1>5, <1>7, <1>8, PutLive
<1>10. Replay(flash) = promised
  BY <1>1, <1>2, <1>4 DEF CurrentLog
<1>11. ASSUME NEW a \in Cursors, a.some, a.index = i, a.epoch = e, TypeOK',
              \/ up' /\ active' = a /\ compaction' = compaction
              \/ ~up' /\ active' = NoCursor /\ compaction' = NoCursor,
              ActiveOK(flash', a, inDoubt', commitAt', promised')
       PROVE  JournalInv' /\ LogStep
  <2>1. BareOK(flash', a, compaction, inDoubt', promised') /\ CopyOK(flash', a, compaction, commitAt', staged')
    BY <1>1, <1>4, <1>11 DEF BareOK, CopyOK
  <2>2. JournalInv' /\ Replay(flash') = CurrentLog(flash', a, compaction, commitAt', staged')
    BY <1>2, <1>11, <2>1, StepKeeps DEF OpenOK
  <2>3. Replay(flash') = LogOf(flash'[i])
    BY <1>1, <1>11, <2>2 DEF CurrentLog
  <2>4. <<at, b>>[1] = at
    OBVIOUS
  <2>5. LogStep
    BY <1>1, <1>7, <1>9, <1>10, <2>3, <2>4, LogSteps, Zenon
  <2> QED
    BY <2>2, <2>5
<1>12. CASE outcome = "ok"
  <2>1. /\ active' = [active EXCEPT !.at = at + 1] /\ promised' = promised \cup {<<at, b>>}
        /\ UNCHANGED <<up, compaction, inDoubt>>
    BY <1>12 DEF AppendFrame
  <2>2. active' \in Cursors /\ active'.some /\ active'.index = i /\ active'.epoch = e /\ active'.at = at + 1
    BY <1>1, <1>2, <1>5, <2>1, CursorFields
  <2>3. promised' \subseteq Entries
    BY <1>2, <1>5, <2>1 DEF Entries
  <2>4. TypeOK'
    BY <1>1, <1>2, <1>8, <2>1, <2>2, <2>3 DEF TypeOK, Doubts
  <2>5. ActiveOK(flash', active', inDoubt', commitAt', promised')
    BY <1>1, <1>4, <1>7, <1>8, <1>9, <1>12, <2>1, <2>2 DEF ActiveOK
  <2> QED
    BY <1>1, <1>11, <2>1, <2>2, <2>4, <2>5, Zenon
<1>13. CASE outcome # "ok"
  <2> DEFINE a == Sealed(active)
  <2>1. a \in Cursors /\ a.some /\ a.index = i /\ a.epoch = e /\ a.at = End
    BY <1>1, <1>2, CursorFields
  <2>2. /\ promised' = promised
        /\ \/ up' = up /\ active' = a /\ compaction' = compaction
           \/ up' = FALSE /\ active' = NoCursor /\ compaction' = NoCursor
        /\ inDoubt' = IF outcome = "failed" THEN inDoubt ELSE Doubt(at, b)
    BY <1>13, Zenon DEF AppendFrame, PowerOff, Outcomes
  <2> HIDE DEF a
  <2>3. inDoubt' \in Doubts
    BY <1>2, <1>5, <2>2, DataFacts, Zenon
  <2>4. TypeOK'
    BY <1>1, <1>2, <1>8, <2>1, <2>2, <2>3, TypeStep, Zenon
  <2>5. ActiveOK(flash', a, inDoubt', commitAt', promised')
    <3>1. CASE outcome = "failed"
      BY <1>1, <1>4, <1>7, <1>8, <1>9, <2>1, <2>2, <3>1 DEF ActiveOK
    <3>2. CASE outcome # "failed"
      <4>1. inDoubt'.some /\ inDoubt'.at = at /\ inDoubt'.body = b
        BY <2>2, <3>2 DEF Doubt
      <4> QED
        BY <1>1, <1>4, <1>7, <1>8, <1>9, <2>1, <2>2, <4>1, Zenon DEF ActiveOK
    <3> QED
      BY <3>1, <3>2
  <2> QED
    BY <1>1, <1>11, <2>1, <2>2, <2>4, <2>5, Zenon
<1> QED
  BY <1>12, <1>13

\* confirm_append: the owner learns what became of the append in doubt.
LEMMA ConfirmAppendKeeps ==
  ASSUME JournalInv, ConfirmAppend
  PROVE  JournalInv' /\ LogStep
<1> DEFINE i == active.index  e == active.epoch  cell == flash[active.index][inDoubt.at]
<1>1. /\ up /\ inDoubt.some /\ ~compaction.some /\ active.some /\ inDoubt' = NoDoubt
      /\ UNCHANGED <<flash, up, active, compaction, commitAt, staged>>
  BY DEF ConfirmAppend
<1>2. /\ flash \in [Arenas -> [Positions -> Cells]] /\ active \in Cursors /\ compaction \in Cursors
      /\ inDoubt \in Doubts /\ commitAt \in 0..Slots
      /\ promised \subseteq Entries /\ staged \subseteq Entries
      /\ Replay(flash) = CurrentLog(flash, active, compaction, commitAt, staged)
  BY <1>1, OpenFacts
<1>3. ActiveOK(flash, active, inDoubt, commitAt, promised) /\ CopyOK(flash, active, compaction, commitAt, staged)
  BY <1>1, OpenFacts
<1>4. /\ commitAt = 0 /\ Live(flash[i], e) /\ Before(flash[1 - i], e) /\ active.at = End
      /\ inDoubt.body \in Bodies
      /\ \/ cell \in {Blank, Torn} /\ LogOf(flash[i]) = promised
         \/ cell = Record(e, inDoubt.body) /\ LogOf(flash[i]) = promised \cup {<<inDoubt.at, inDoubt.body>>}
  BY <1>1, <1>3 DEF ActiveOK, CopyOK
<1>5. IsRecord(Record(e, inDoubt.body)) /\ e \in Epochs /\ i \in Arenas /\ inDoubt.at \in Positions
  BY <1>2, <1>4, CellKinds, CursorFields DEF Doubts
<1>6. promised' = LogOf(flash[i])
  <2>1. cell = Record(e, inDoubt.body) => ~Uncommitted(cell) /\ cell \notin {Blank, Torn}
    BY <1>5, CellKinds DEF Uncommitted, IsRecord
  <2>2. cell \in {Blank, Torn} => cell # Record(e, inDoubt.body)
    BY <2>1
  <2> QED
    BY <1>4, <2>1, <2>2 DEF ConfirmAppend
<1>7. promised' \subseteq Entries
  BY <1>2, <1>5, <1>6, LogEntries
<1>8. TypeOK'
  BY <1>1, <1>2, <1>7, DataFacts, TypeStep
<1>9. ActiveOK(flash', active, inDoubt', commitAt', promised')
  BY <1>1, <1>4, <1>6, DataFacts DEF ActiveOK
<1>10. BareOK(flash', active, compaction, inDoubt', promised') /\ CopyOK(flash', active, compaction, commitAt', staged')
  BY <1>1, <1>3 DEF BareOK, CopyOK
<1>11. JournalInv'
  BY <1>1, <1>2, <1>8, <1>9, <1>10, StepKeeps DEF OpenOK
<1> QED
  BY <1>1, <1>11, LogSteps

\* erase_inactive_sector: the arena in use is not touched.
LEMMA EraseKeeps ==
  ASSUME JournalInv, NEW outcome \in Outcomes, NEW k \in Sectors, EraseInactiveSector(k, outcome)
  PROVE  JournalInv' /\ LogStep
<1> DEFINE x == InactiveIndex
<1>1. /\ up /\ ~compaction.some /\ UNCHANGED <<inDoubt, commitAt, promised, staged>>
      /\ \/ up' = up /\ active' = active /\ compaction' = compaction
         \/ up' = FALSE /\ active' = NoCursor /\ compaction' = NoCursor
  BY Zenon DEF EraseInactiveSector, PowerOff
<1>2. /\ flash \in [Arenas -> [Positions -> Cells]] /\ active \in Cursors /\ compaction \in Cursors
      /\ inDoubt \in Doubts /\ commitAt \in 0..Slots
      /\ promised \subseteq Entries /\ staged \subseteq Entries
      /\ Replay(flash) = CurrentLog(flash, active, compaction, commitAt, staged)
  BY <1>1, OpenFacts
<1>3. /\ ActiveOK(flash, active, inDoubt, commitAt, promised)
      /\ BareOK(flash, active, compaction, inDoubt, promised)
      /\ CopyOK(flash, active, compaction, commitAt, staged)
  BY <1>1, OpenFacts
<1>4. x \in Arenas /\ (active.some => x = 1 - active.index) /\ (~active.some => x = 0)
  BY <1>2, CursorFields, DataFacts DEF InactiveIndex
<1>5. PICK new \in Erased(flash[x], Sector(k), outcome) : flash' = [flash EXCEPT ![x] = new]
  BY Zenon DEF EraseInactiveSector
<1>6. Sector(k) \in SUBSET Positions /\ flash[x] \in [Positions -> Cells]
  BY <1>2, <1>4 DEF Sector
<1>7. /\ new \in [Positions -> Cells]
      /\ \A e \in Epochs : Before(flash[x], e) => Before(new, e)
      /\ NoCommit(flash[x]) => NoCommit(new)
      /\ JustCommitted(flash[x]) => NoCommit(new) \/ JustCommitted(new)
  <2> HIDE DEF x
  <2> QED
    BY <1>5, <1>6, ErasedArena, Zenon
<1>8. /\ flash' \in [Arenas -> [Positions -> Cells]] /\ flash'[x] = new
      /\ \A i \in Arenas : i # x => flash'[i] = flash[i]
  <2> HIDE DEF x
  <2> QED
    BY <1>2, <1>4, <1>5, <1>7
<1> HIDE DEF x
<1>9. TypeOK'
  BY <1>1, <1>2, <1>8, TypeStep, Zenon
<1>10. commitAt = 0
  BY <1>1, <1>3 DEF CopyOK
<1>11. active.some => flash'[active.index] = flash[active.index] /\ active.index \in Arenas /\ active.epoch \in Epochs
  BY <1>2, <1>4, <1>8, CursorFields, DataFacts
<1>12. ActiveOK(flash', active, inDoubt', commitAt', promised')
  BY <1>1, <1>3, <1>4, <1>7, <1>8, <1>10, <1>11 DEF ActiveOK
<1>13. BareOK(flash', active, compaction, inDoubt', promised')
  BY <1>1, <1>3, <1>4, <1>7, <1>8, DataFacts DEF BareOK
<1>14. CopyOK(flash', active, compaction, commitAt', staged')
  BY <1>1, <1>10 DEF CopyOK
<1>15. JournalInv' /\ Replay(flash') = CurrentLog(flash', active, compaction, commitAt', staged')
  BY <1>1, <1>2, <1>9, <1>12, <1>13, <1>14, StepKeeps, Zenon DEF OpenOK
<1>16. Replay(flash') = Replay(flash)
  <2>1. Replay(flash) = CurrentLog(flash, active, compaction, commitAt, staged)
    BY <1>2
  <2> QED
    BY <1>1, <1>11, <1>15, <2>1 DEF CurrentLog
<1> QED
  BY <1>1, <1>15, <1>16, LogSteps

\* begin_compaction, into an arena that is blank.
LEMMA BeginKeeps ==
  ASSUME JournalInv, BeginCompaction
  PROVE  JournalInv' /\ LogStep
<1> DEFINE x == InactiveIndex
           e == IF active.some THEN (active.epoch + 1) % EpochModulus ELSE 0
<1>1. /\ up /\ ~compaction.some /\ UNCHANGED <<flash, up, active, inDoubt, commitAt, promised>> /\ staged' = {}
      /\ \A at \in Positions : flash[x][at] = Blank
      /\ compaction' = Cursor(x, e, 1)
  BY DEF BeginCompaction
<1>2. /\ flash \in [Arenas -> [Positions -> Cells]] /\ active \in Cursors
      /\ inDoubt \in Doubts /\ commitAt \in 0..Slots
      /\ promised \subseteq Entries
      /\ Replay(flash) = CurrentLog(flash, active, compaction, commitAt, staged)
  BY <1>1, OpenFacts
<1>3. /\ ActiveOK(flash, active, inDoubt, commitAt, promised)
      /\ BareOK(flash, active, compaction, inDoubt, promised)
      /\ CopyOK(flash, active, compaction, commitAt, staged)
  BY <1>1, OpenFacts
<1>4. x \in Arenas /\ e \in Epochs /\ x = IF active.some THEN 1 - active.index ELSE 0
  BY <1>2, CursorFields, DataFacts, NextEpoch DEF InactiveIndex
<1>5. /\ compaction' \in Cursors /\ compaction'.some = TRUE /\ compaction'.index = x
      /\ compaction'.epoch = e /\ compaction'.at = 1
  <2> HIDE DEF x, e
  <2> QED
    BY <1>1, <1>4, CursorFields, DataFacts
<1>6. NoCommit(flash[x]) /\ Copied(flash[x], e, 1) /\ flash[x][1] = Blank /\ Snapshot(flash[x], 1) = {}
  <2> HIDE DEF x, e
  <2>1. \A at \in Positions : ~(at < 1)
    BY JournalConstants DEF Positions
  <2>2. Blank.body # "commit" /\ 1 \in Positions
    BY CellKinds, DataFacts
  <2>3. \A at \in Positions : flash[x][at] = Blank
    BY <1>1
  <2>4. Snapshot(flash[x], 1) = {}
    BY <2>1 DEF Snapshot
  <2> QED
    BY <2>1, <2>2, <2>3, <2>4 DEF NoCommit, Copied
<1>7. commitAt = 0
  BY <1>1, <1>3 DEF CopyOK
<1>8. CopyOK(flash', active, compaction', commitAt', staged')
  <2> HIDE DEF x
  <2> QED
    BY <1>1, <1>4, <1>5, <1>6, <1>7 DEF CopyOK
<1>9. BareOK(flash', active, compaction', inDoubt', promised')
  BY <1>1, <1>3, <1>5 DEF BareOK
<1>10. TypeOK'
  BY <1>1, <1>2, <1>5, TypeStep
<1>11. JournalInv' /\ Replay(flash') = CurrentLog(flash', active, compaction', commitAt', staged')
  BY <1>1, <1>2, <1>3, <1>5, <1>8, <1>9, <1>10, StepKeeps DEF OpenOK
<1> QED
  BY <1>1, <1>11, LogSteps

\* abort_compaction, with no commit in doubt.
LEMMA AbortKeeps ==
  ASSUME JournalInv, AbortCompaction
  PROVE  JournalInv' /\ LogStep
<1>1. /\ up /\ compaction.some /\ commitAt = 0 /\ compaction' = NoCursor /\ staged' = {}
      /\ UNCHANGED <<flash, up, active, inDoubt, commitAt, promised>>
  BY DEF AbortCompaction
<1>2. /\ flash \in [Arenas -> [Positions -> Cells]] /\ active \in Cursors
      /\ inDoubt \in Doubts /\ commitAt \in 0..Slots /\ promised \subseteq Entries
  BY <1>1, OpenFacts
<1>3. /\ ActiveOK(flash, active, inDoubt, commitAt, promised)
      /\ BareOK(flash, active, compaction, inDoubt, promised)
      /\ CopyOK(flash, active, compaction, commitAt, staged)
  BY <1>1, OpenFacts
<1>4. NoCommit(flash[compaction.index]) /\ (~active.some => compaction.index = 0)
  BY <1>1, <1>3 DEF CopyOK
<1>5. BareOK(flash', active, compaction', inDoubt', promised') /\ CopyOK(flash', active, compaction', commitAt', staged')
  BY <1>1, <1>3, <1>4, CursorFields DEF BareOK, CopyOK
<1>6. TypeOK'
  BY <1>1, <1>2, CursorFields, TypeStep
<1>7. JournalInv'
  BY <1>1, <1>2, <1>3, <1>5, <1>6, CursorFields, StepKeeps DEF OpenOK
<1> QED
  BY <1>1, <1>7, LogSteps

\* append_compacted: the snapshot grows, or the compaction is sealed.
LEMMA AppendCompactedKeeps ==
  ASSUME JournalInv, NEW outcome \in Outcomes, NEW b \in Bodies, AppendCompacted(b, outcome)
  PROVE  JournalInv' /\ LogStep
<1> DEFINE i == compaction.index  e == compaction.epoch  at == compaction.at
<1>1. up /\ compaction.some /\ at # End /\ UNCHANGED <<inDoubt, commitAt, promised>>
  BY DEF AppendCompacted
<1>2. /\ flash \in [Arenas -> [Positions -> Cells]] /\ active \in Cursors /\ compaction \in Cursors
      /\ inDoubt \in Doubts /\ commitAt \in 0..Slots
      /\ promised \subseteq Entries /\ staged \subseteq Entries
      /\ Replay(flash) = CurrentLog(flash, active, compaction, commitAt, staged)
  BY <1>1, OpenFacts
<1>3. /\ ActiveOK(flash, active, inDoubt, commitAt, promised)
      /\ BareOK(flash, active, compaction, inDoubt, promised)
      /\ CopyOK(flash, active, compaction, commitAt, staged)
  BY <1>1, OpenFacts
<1>4. /\ commitAt = 0 /\ NoCommit(flash[i]) /\ Copied(flash[i], e, at) /\ flash[i][at] = Blank
      /\ staged = Snapshot(flash[i], at)
      /\ i = (IF active.some THEN 1 - active.index ELSE 0)
      /\ e = (IF active.some THEN (active.epoch + 1) % EpochModulus ELSE 0)
  BY <1>1, <1>3 DEF CopyOK
<1>5. i \in Arenas /\ e \in Epochs /\ at \in Positions /\ flash[i] \in [Positions -> Cells]
  BY <1>1, <1>2, CursorFields
<1>6. PICK cell \in Left(Blank, Record(e, b), outcome) : flash' = [flash EXCEPT ![i][at] = cell]
  BY <1>4, Zenon DEF AppendCompacted, WriteRecord
<1>7. /\ cell \in {Blank, Torn, Record(e, b)} /\ cell \in Cells
      /\ outcome = "ok" => cell = Record(e, b)
  <2>1. Record(e, b) \in Cells
    BY <1>5, CellKinds
  <2> HIDE DEF i, e, at
  <2> QED
    BY <1>6, <2>1, LeftOnBlank
<1>8. /\ flash' \in [Arenas -> [Positions -> Cells]] /\ flash'[1 - i] = flash[1 - i]
      /\ flash'[i] = [flash[i] EXCEPT ![at] = cell]
  <2> HIDE DEF i, at
  <2> QED
    BY <1>2, <1>5, <1>6, <1>7, WriteArena, Zenon
<1>9. /\ NoCommit(flash'[i])
      /\ cell = Record(e, b) =>
           /\ Snapshot(flash'[i], at + 1) = staged \cup {<<at, b>>}
           /\ at + 1 \in Positions => Copied(flash'[i], e, at + 1) /\ flash'[i][at + 1] = Blank
      /\ \A x \in staged : x[1] < at
  <2>1. /\ NoCommit(flash[i]) /\ Copied(flash[i], e, at) /\ flash[i][at] = Blank
        /\ staged = Snapshot(flash[i], at)
    BY <1>4
  <2>2. flash'[i] = [flash[i] EXCEPT ![at] = cell]
    BY <1>8
  <2>3. cell \in {Blank, Torn, Record(e, b)}
    BY <1>7
  <2> HIDE DEF i, e, at
  <2> QED
    BY <1>5, <2>1, <2>2, <2>3, PutCopy
<1>10. active.some => /\ flash'[active.index] = flash[active.index] /\ flash'[1 - active.index] = flash'[i]
                      /\ active.index \in Arenas
  BY <1>2, <1>4, <1>8, CursorFields, DataFacts
<1>11. ~active.some => i = 0 /\ flash'[1] = flash[1]
  <2>1. ~active.some => i = 0 /\ 1 - i = 1
    BY <1>4
  <2> HIDE DEF i
  <2> QED
    BY <1>8, <2>1
<1>12. ActiveOK(flash', active, inDoubt', commitAt', promised')
  <2>1. active.some => Before(flash'[1 - active.index], active.epoch)
    BY <1>9, <1>10 DEF NoCommit, Before
  <2> HIDE DEF i
  <2> QED
    BY <1>1, <1>3, <1>10, <2>1 DEF ActiveOK
<1>13. ASSUME NEW c \in Cursors, c.some, c.index = i, c.epoch = e, TypeOK',
              \/ up' /\ active' = active /\ compaction' = c
              \/ ~up' /\ active' = NoCursor /\ compaction' = NoCursor,
              c.at = End \/ /\ Copied(flash'[i], e, c.at) /\ flash'[i][c.at] = Blank
                            /\ staged' = Snapshot(flash'[i], c.at)
       PROVE  JournalInv' /\ Replay(flash') = Replay(flash)
  <2>1. BareOK(flash', active, c, inDoubt', promised')
    BY <1>1, <1>3, <1>11, <1>13 DEF BareOK
  <2>2. CopyOK(flash', active, c, commitAt', staged')
    BY <1>1, <1>4, <1>9, <1>13 DEF CopyOK
  <2>3. JournalInv' /\ Replay(flash') = CurrentLog(flash', active, c, commitAt', staged')
    BY <1>2, <1>12, <1>13, <2>1, <2>2, StepKeeps DEF OpenOK
  <2>4. Replay(flash) = CurrentLog(flash, active, compaction, 0, staged)
    BY <1>2, <1>4
  <2>5. Replay(flash') = Replay(flash)
    BY <1>1, <1>4, <1>10, <2>3, <2>4 DEF CurrentLog
  <2> QED
    BY <2>3, <2>5
<1>14. CASE outcome = "ok"
  <2>1. /\ compaction' = [compaction EXCEPT !.at = at + 1] /\ staged' = staged \cup {<<at, b>>}
        /\ UNCHANGED <<up, active>>
    BY <1>14 DEF AppendCompacted
  <2>2. compaction' \in Cursors /\ compaction'.some /\ compaction'.index = i /\ compaction'.epoch = e /\ compaction'.at = at + 1
    BY <1>1, <1>2, <1>5, <2>1, CursorFields
  <2>3. staged' \subseteq Entries
    BY <1>2, <1>5, <2>1 DEF Entries
  <2>4. TypeOK'
    BY <1>1, <1>2, <1>8, <2>1, <2>2, <2>3, TypeStep
  <2>5. compaction'.at = End \/ /\ Copied(flash'[i], e, compaction'.at) /\ flash'[i][compaction'.at] = Blank
                                /\ staged' = Snapshot(flash'[i], compaction'.at)
    BY <1>5, <1>7, <1>9, <1>14, <2>1, <2>2, DataFacts
  <2>6. JournalInv' /\ Replay(flash') = Replay(flash)
    BY <1>1, <1>13, <2>1, <2>2, <2>4, <2>5, Zenon
  <2>7. <<at, b>>[1] = at
    OBVIOUS
  <2> QED
    BY <1>9, <2>1, <2>6, <2>7, LogSteps
<1>15. CASE outcome # "ok"
  <2> DEFINE c == Sealed(compaction)
  <2>1. c \in Cursors /\ c.some /\ c.index = i /\ c.epoch = e /\ c.at = End
    BY <1>1, <1>2, CursorFields
  <2>2. /\ staged' = staged
        /\ \/ up' = up /\ active' = active /\ compaction' = c
           \/ up' = FALSE /\ active' = NoCursor /\ compaction' = NoCursor
    BY <1>15, Zenon DEF AppendCompacted, PowerOff
  <2> HIDE DEF c
  <2>3. TypeOK'
    BY <1>1, <1>2, <1>8, <2>1, <2>2, TypeStep, Zenon
  <2>4. JournalInv' /\ Replay(flash') = Replay(flash)
    BY <1>1, <1>13, <2>1, <2>2, <2>3, Zenon
  <2> QED
    BY <2>2, <2>4, LogSteps
<1> QED
  BY <1>14, <1>15

\* The committed arena takes over (commit_compaction, confirm_compaction_commit).
LEMMA TakeOverKeeps ==
  ASSUME flash' \in [Arenas -> [Positions -> Cells]], NEW at \in Positions,
         compaction \in Cursors, compaction.some, staged \subseteq Entries,
         up = TRUE, up' = up, commitAt' = 0, TakeOver(at),
         Copied(flash'[compaction.index], compaction.epoch, at),
         flash'[compaction.index][at] = Record(compaction.epoch, "commit"),
         staged = Snapshot(flash'[compaction.index], at),
         Before(flash'[1 - compaction.index], compaction.epoch)
  PROVE  JournalInv' /\ Replay(flash') = staged /\ staged' = {}
<1> DEFINE i == compaction.index  e == compaction.epoch
<1>1. /\ active' = [compaction EXCEPT !.at = at + 1] /\ compaction' = NoCursor
      /\ promised' = staged /\ staged' = {} /\ inDoubt' = NoDoubt
  BY DEF TakeOver
<1>2. active' \in Cursors /\ active'.some /\ active'.index = i /\ active'.epoch = e /\ active'.at = at + 1
  BY <1>1, CursorFields
<1>3. flash'[i] \in [Positions -> Cells] /\ e \in Epochs /\ i \in Arenas
  BY CursorFields
<1>4. Live(flash'[i], e) /\ LogOf(flash'[i]) = staged /\ (at + 1 # End => Filled(flash'[i], e, at + 1))
  BY <1>3, CommitCell
<1>5. ActiveOK(flash', active', inDoubt', commitAt', promised')
  BY <1>1, <1>2, <1>4, DataFacts DEF ActiveOK
<1>6. BareOK(flash', active', compaction', inDoubt', promised') /\ CopyOK(flash', active', compaction', commitAt', staged')
  BY <1>1, <1>2, CursorFields DEF BareOK, CopyOK
<1>7. TypeOK'
  <2>1. inDoubt' \in Doubts /\ compaction' \in Cursors /\ commitAt' \in 0..Slots
    BY <1>1, JournalConstants, DataFacts, CursorFields
  <2> QED
    BY <1>1, <1>2, <2>1, TypeStep
<1>8. JournalInv' /\ Replay(flash') = CurrentLog(flash', active', compaction', commitAt', staged')
  BY <1>1, <1>2, <1>5, <1>6, <1>7, CursorFields, StepKeeps DEF OpenOK
<1>9. Replay(flash') = staged
  BY <1>1, <1>2, <1>4, <1>8, CursorFields DEF CurrentLog
<1> QED
  BY <1>1, <1>8, <1>9

\* commit_compaction: the snapshot takes over, or both arenas are sealed.
LEMMA CommitKeeps ==
  ASSUME JournalInv, NEW outcome \in Outcomes, CommitCompaction(outcome)
  PROVE  JournalInv' /\ LogStep
<1> DEFINE i == compaction.index  e == compaction.epoch  at == compaction.at
<1>1. up /\ compaction.some /\ at # End
  BY DEF CommitCompaction
<1>2. /\ flash \in [Arenas -> [Positions -> Cells]] /\ active \in Cursors /\ compaction \in Cursors
      /\ inDoubt \in Doubts /\ commitAt \in 0..Slots
      /\ promised \subseteq Entries /\ staged \subseteq Entries
      /\ Replay(flash) = CurrentLog(flash, active, compaction, commitAt, staged)
  BY <1>1, OpenFacts
<1>3. /\ ActiveOK(flash, active, inDoubt, commitAt, promised)
      /\ BareOK(flash, active, compaction, inDoubt, promised)
      /\ CopyOK(flash, active, compaction, commitAt, staged)
  BY <1>1, OpenFacts
<1>4. /\ commitAt = 0 /\ Copied(flash[i], e, at) /\ flash[i][at] = Blank
      /\ staged = Snapshot(flash[i], at)
      /\ i = (IF active.some THEN 1 - active.index ELSE 0)
      /\ e = (IF active.some THEN (active.epoch + 1) % EpochModulus ELSE 0)
  BY <1>1, <1>3 DEF CopyOK
<1>5. i \in Arenas /\ e \in Epochs /\ at \in Positions /\ flash[i] \in [Positions -> Cells]
  BY <1>1, <1>2, CursorFields
<1>6. PICK cell \in Left(Blank, Record(e, "commit"), outcome) : flash' = [flash EXCEPT ![i][at] = cell]
  BY <1>4, Zenon DEF CommitCompaction, WriteRecord
<1>7. /\ cell \in {Blank, Torn, Record(e, "commit")} /\ cell \in Cells
      /\ outcome = "ok" => cell = Record(e, "commit")
      /\ outcome = "failed" => cell \in {Blank, Torn}
  <2>1. Record(e, "commit") \in Cells
    BY <1>5, CellKinds
  <2> HIDE DEF i, e, at
  <2> QED
    BY <1>6, <2>1, LeftOnBlank
<1>8. /\ flash' \in [Arenas -> [Positions -> Cells]] /\ flash'[1 - i] = flash[1 - i]
      /\ flash'[i] = [flash[i] EXCEPT ![at] = cell]
  <2> HIDE DEF i, at
  <2> QED
    BY <1>2, <1>5, <1>6, <1>7, WriteArena, Zenon
<1>9. flash'[i][at] = cell /\ Copied(flash'[i], e, at) /\ Snapshot(flash'[i], at) = staged
  <2>1. Copied(flash[i], e, at) /\ staged = Snapshot(flash[i], at)
    BY <1>4
  <2>2. flash'[i] = [flash[i] EXCEPT ![at] = cell]
    BY <1>8
  <2>3. cell \in Cells
    BY <1>7
  <2> HIDE DEF i, e, at
  <2> QED
    BY <1>5, <2>1, <2>2, <2>3, PutBehind
<1>10. CASE outcome = "ok"
  <2>1. TakeOver(at) /\ up' = up /\ commitAt' = 0
    BY <1>4, <1>10 DEF CommitCompaction
  <2>2. Before(flash'[1 - i], e)
    BY <1>1, <1>2, <1>3, <1>8, OldPrecedes
  <2>3. JournalInv' /\ Replay(flash') = staged /\ staged' = {}
    BY <1>1, <1>2, <1>5, <1>7, <1>8, <1>9, <1>10, <2>1, <2>2, TakeOverKeeps
  <2> QED
    BY <2>3, LogSteps
<1>11. CASE outcome # "ok"
  <2> DEFINE a == Sealed(active)  c == Sealed(compaction)
  <2>1. /\ c \in Cursors /\ c.some /\ c.index = i /\ c.epoch = e /\ c.at = End
        /\ a \in Cursors /\ a.some = active.some /\ a.index = active.index
        /\ a.epoch = active.epoch /\ a.at = End
    BY <1>1, <1>2, CursorFields
  <2>2. /\ UNCHANGED <<inDoubt, promised, staged>>
        /\ \/ up' = up /\ active' = a /\ compaction' = c
           \/ up' = FALSE /\ active' = NoCursor /\ compaction' = NoCursor
        /\ commitAt' = IF outcome = "failed" THEN 0 ELSE at
    BY <1>4, <1>11, Zenon DEF CommitCompaction, PowerOff, Outcomes
  <2> HIDE DEF a, c
  <2>3. commitAt' \in 0..Slots /\ at # 0
    BY <1>2, <1>4, <1>5, <2>2, DataFacts
  <2>4. TypeOK'
    BY <1>1, <1>2, <1>8, <2>1, <2>2, <2>3, TypeStep, Zenon
  <2>5. active.some => /\ flash'[active.index] = flash[active.index] /\ flash'[1 - active.index] = flash'[i]
    BY <1>2, <1>4, <1>8, CursorFields, DataFacts
  <2>6. cell \in {Blank, Torn} => NoCommit(flash'[i])
    BY <1>5, <1>8, <1>9, CommitCell
  <2>7. ActiveOK(flash', a, inDoubt', commitAt', promised')
    <3>1. active.some /\ commitAt' = 0 => Before(flash'[1 - active.index], active.epoch)
      BY <1>7, <2>2, <2>3, <2>5, <2>6 DEF NoCommit, Before
    <3> HIDE DEF i, e, at
    <3> QED
      BY <1>3, <2>1, <2>2, <2>5, <3>1 DEF ActiveOK
  <2>8. BareOK(flash', a, c, inDoubt', promised')
    <3>1. ~active.some => flash'[1] = flash[1]
      <4>1. ~active.some => 1 - i = 1
        BY <1>4
      <4> HIDE DEF i
      <4> QED
        BY <1>8, <4>1
    <3> HIDE DEF i, e, at
    <3> QED
      BY <1>3, <2>1, <2>2, <3>1 DEF BareOK
  <2>9. CopyOK(flash', a, c, commitAt', staged')
    BY <1>4, <1>7, <1>9, <2>1, <2>2, <2>3, <2>6 DEF CopyOK
  <2>10. JournalInv' /\ Replay(flash') = CurrentLog(flash', a, c, commitAt', staged')
    BY <1>1, <2>1, <2>2, <2>4, <2>7, <2>8, <2>9, StepKeeps, Zenon DEF OpenOK
  <2>11. Replay(flash) = IF active.some THEN LogOf(flash[active.index]) ELSE {}
    BY <1>2, <1>4 DEF CurrentLog
  <2>12. Replay(flash') = staged \/ Replay(flash') = Replay(flash)
    BY <2>1, <2>2, <2>5, <2>10, <2>11 DEF CurrentLog
  <2> QED
    BY <2>2, <2>10, <2>12, LogSteps
<1> QED
  BY <1>10, <1>11

\* commit_compaction without room for the commit record.
LEMMA CommitFullKeeps ==
  ASSUME JournalInv, CommitCompactionFull
  PROVE  JournalInv' /\ LogStep
<1>1. /\ up /\ compaction.some /\ compaction.at = End /\ active' = Sealed(active)
      /\ UNCHANGED <<flash, up, compaction, inDoubt, commitAt, promised, staged>>
  BY DEF CommitCompactionFull
<1>2. /\ flash \in [Arenas -> [Positions -> Cells]] /\ active \in Cursors /\ compaction \in Cursors
      /\ inDoubt \in Doubts /\ commitAt \in 0..Slots
      /\ promised \subseteq Entries /\ staged \subseteq Entries
  BY <1>1, OpenFacts
<1>3. /\ ActiveOK(flash, active, inDoubt, commitAt, promised)
      /\ BareOK(flash, active, compaction, inDoubt, promised)
      /\ CopyOK(flash, active, compaction, commitAt, staged)
  BY <1>1, OpenFacts
<1>4. /\ active' \in Cursors /\ active'.some = active.some /\ active'.index = active.index
      /\ active'.epoch = active.epoch /\ active'.at = End
  BY <1>1, <1>2, CursorFields
<1>5. ActiveOK(flash', active', inDoubt', commitAt', promised')
  BY <1>1, <1>3, <1>4 DEF ActiveOK
<1>6. BareOK(flash', active', compaction', inDoubt', promised')
  BY <1>1, <1>3, <1>4 DEF BareOK
<1>7. CopyOK(flash', active', compaction', commitAt', staged')
  BY <1>1, <1>3, <1>4 DEF CopyOK
<1>8. TypeOK'
  BY <1>1, <1>2, <1>4, TypeStep
<1>9. JournalInv'
  BY <1>1, <1>2, <1>4, <1>5, <1>6, <1>7, <1>8, StepKeeps DEF OpenOK
<1> QED
  BY <1>1, <1>9, LogSteps

\* confirm_compaction_commit: the commit in doubt is settled by what is on flash.
LEMMA ConfirmCommitKeeps ==
  ASSUME JournalInv, ConfirmCompactionCommit
  PROVE  JournalInv' /\ LogStep
<1> DEFINE i == compaction.index  e == compaction.epoch  cell == flash[compaction.index][commitAt]
<1>1. /\ up /\ compaction.some /\ commitAt # 0 /\ commitAt' = 0 /\ UNCHANGED <<flash, up>>
      /\ \/ cell = Record(e, "commit") /\ TakeOver(commitAt)
         \/ Uncommitted(cell) /\ UNCHANGED <<active, compaction, inDoubt, promised, staged>>
  BY DEF ConfirmCompactionCommit
<1>2. /\ flash \in [Arenas -> [Positions -> Cells]] /\ active \in Cursors /\ compaction \in Cursors
      /\ inDoubt \in Doubts /\ commitAt \in 0..Slots
      /\ promised \subseteq Entries /\ staged \subseteq Entries
      /\ Replay(flash) = CurrentLog(flash, active, compaction, commitAt, staged)
  BY <1>1, OpenFacts
<1>3. /\ ActiveOK(flash, active, inDoubt, commitAt, promised)
      /\ BareOK(flash, active, compaction, inDoubt, promised)
      /\ CopyOK(flash, active, compaction, commitAt, staged)
  BY <1>1, OpenFacts
<1>4. /\ compaction.at = End /\ Copied(flash[i], e, commitAt) /\ staged = Snapshot(flash[i], commitAt)
      /\ cell \in {Blank, Torn, Record(e, "commit")}
      /\ i = (IF active.some THEN 1 - active.index ELSE 0)
      /\ e = (IF active.some THEN (active.epoch + 1) % EpochModulus ELSE 0)
  BY <1>1, <1>3 DEF CopyOK
<1>5. i \in Arenas /\ e \in Epochs /\ commitAt \in Positions /\ flash[i] \in [Positions -> Cells]
  BY <1>1, <1>2, CursorFields, DataFacts
<1>6. CASE cell = Record(e, "commit")
  <2>1. ~Uncommitted(cell)
    BY <1>6 DEF Uncommitted, Record
  <2>2. Before(flash'[1 - i], e)
    BY <1>1, <1>2, <1>3, OldPrecedes
  <2>3. JournalInv' /\ Replay(flash') = staged /\ staged' = {}
    BY <1>1, <1>2, <1>4, <1>5, <1>6, <2>1, <2>2, TakeOverKeeps
  <2> QED
    BY <2>3, LogSteps
<1>7. CASE cell # Record(e, "commit")
  <2>1. NoCommit(flash[i])
    BY <1>4, <1>5, <1>7, CommitCell
  <2>2. UNCHANGED <<flash, up, active, compaction, inDoubt, promised, staged>> /\ commitAt' = 0
    BY <1>1, <1>7
  <2>3. active.some => Before(flash[1 - active.index], active.epoch)
    BY <1>4, <2>1 DEF NoCommit, Before
  <2>4. ActiveOK(flash', active, inDoubt', commitAt', promised')
    BY <1>3, <2>2, <2>3 DEF ActiveOK
  <2>5. BareOK(flash', active, compaction, inDoubt', promised')
    BY <1>3, <2>2 DEF BareOK
  <2>6. CopyOK(flash', active, compaction, commitAt', staged')
    BY <1>1, <1>4, <2>1, <2>2 DEF CopyOK
  <2>7. TypeOK'
    <3>1. commitAt' \in 0..Slots
      BY <2>2, JournalConstants
    <3> QED
      BY <1>1, <1>2, <2>2, <3>1, TypeStep
  <2>8. OpenOK(flash', active, compaction, inDoubt', commitAt', promised', staged')
    BY <2>4, <2>5, <2>6 DEF OpenOK
  <2>9. up' /\ active' = active /\ compaction' = compaction
    BY <1>1, <2>2
  <2>10. JournalInv'
    BY <1>2, <2>7, <2>8, <2>9, StepKeeps
  <2> QED
    BY <2>2, <2>10, LogSteps
<1> QED
  BY <1>6, <1>7

-----------------------------------------------------------------------------
(* The theorems *)

\* A blank flash satisfies the invariant and holds the empty log.
LEMMA InitJournal == Init => JournalInv /\ Durable!LogInit
<1> SUFFICES ASSUME Init PROVE JournalInv /\ Durable!LogInit
  OBVIOUS
<1>1. /\ flash \in [Arenas -> [Positions -> Cells]] /\ flash[0] = [at \in Positions |-> Blank]
      /\ flash[1] = [at \in Positions |-> Blank]
  BY CellKinds, DataFacts DEF Init
<1>2. TypeOK
  <2>1. active \in Cursors /\ compaction \in Cursors /\ inDoubt \in Doubts /\ commitAt \in 0..Slots
    BY CursorFields, DataFacts, JournalConstants DEF Init
  <2>2. up \in BOOLEAN /\ promised \subseteq Entries /\ staged \subseteq Entries
    BY Zenon DEF Init
  <2> QED
    BY <1>1, <2>1, <2>2 DEF TypeOK, Doubts
<1>3. NoCommit(flash[0]) /\ NoCommit(flash[1])
  BY <1>1, CellKinds DEF NoCommit
<1>4. Recoverable(flash, Expected)
  BY <1>3 DEF Init, Recoverable, Expected
<1>5. Durable!LogInit
  BY <1>1, <1>3, BareReplay DEF Init, Durable!LogInit
<1> QED
  BY <1>2, <1>4, <1>5 DEF Init, JournalInv

\* Every step keeps the invariant and is a step of the durable log.
LEMMA NextJournal == JournalInv /\ [Next]_vars => JournalInv' /\ LogStep
<1> SUFFICES ASSUME JournalInv, [Next]_vars PROVE JournalInv' /\ LogStep
  OBVIOUS
<1>1. CASE Open
  BY <1>1, OpenKeeps
<1>2. CASE ConfirmAppend
  BY <1>2, ConfirmAppendKeeps
<1>3. CASE BeginCompaction
  BY <1>3, BeginKeeps
<1>4. CASE CommitCompactionFull
  BY <1>4, CommitFullKeeps
<1>5. CASE ConfirmCompactionCommit
  BY <1>5, ConfirmCommitKeeps
<1>6. CASE AbortCompaction
  BY <1>6, AbortKeeps
<1>7. CASE PowerLoss
  BY <1>7, PowerLossKeeps
<1>8. ASSUME NEW outcome \in Outcomes, InitializeEmpty(outcome) PROVE JournalInv' /\ LogStep
  BY <1>8, InitializeKeeps
<1>9. ASSUME NEW outcome \in Outcomes, CommitCompaction(outcome) PROVE JournalInv' /\ LogStep
  BY <1>9, CommitKeeps
<1>10. ASSUME NEW outcome \in Outcomes, NEW k \in Sectors, EraseInactiveSector(k, outcome)
       PROVE  JournalInv' /\ LogStep
  BY <1>10, EraseKeeps
<1>11. ASSUME NEW outcome \in Outcomes, NEW b \in Bodies, AppendFrame(b, outcome)
       PROVE  JournalInv' /\ LogStep
  BY <1>11, AppendKeeps
<1>12. ASSUME NEW outcome \in Outcomes, NEW b \in Bodies, AppendCompacted(b, outcome)
       PROVE  JournalInv' /\ LogStep
  BY <1>12, AppendCompactedKeeps
<1>13. CASE UNCHANGED vars
  <2>1. JournalInv'
    BY <1>13 DEF vars, JournalInv, TypeOK, Expected
  <2> QED
    BY <1>13, <2>1, LogSteps DEF vars
<1> QED
  BY <1>1, <1>2, <1>3, <1>4, <1>5, <1>6, <1>7, <1>8, <1>9, <1>10, <1>11, <1>12, <1>13 DEF Next

\* The inductive invariant holds of every reachable state.
LEMMA JournalHolds == Spec => []JournalInv
  BY InitJournal, NextJournal, PTL DEF Spec

\* A restart replays exactly what the owner was told is stored, give or take the
\* one operation whose outcome it does not know.
THEOREM ReplayIsPromised == Spec => []ReplaysWhatWasPromised
<1>1. JournalInv => ReplaysWhatWasPromised
  BY RecoverableReplay DEF JournalInv, TypeOK, ReplaysWhatWasPromised
<1> QED
  BY <1>1, JournalHolds, PTL

\* No programmed cell is programmed again before it is erased (write_cursor_record).
THEOREM NoSlotIsWrittenTwice == Spec => []WritesLandOnBlank
<1>1. JournalInv => WritesLandOnBlank
  <2> SUFFICES ASSUME JournalInv PROVE WritesLandOnBlank
    OBVIOUS
  <2>1. CASE ~up
    BY <2>1, CursorFields DEF JournalInv, WritesLandOnBlank
  <2>2. CASE up
    <3>1. active \in Cursors /\ compaction \in Cursors
      BY <2>2, OpenFacts
    <3>2. ActiveOK(flash, active, inDoubt, commitAt, promised) /\ CopyOK(flash, active, compaction, commitAt, staged)
      BY <2>2, OpenFacts
    <3>3. active.some /\ active.at # End => flash[active.index][active.at] = Blank
      <4>1. active.at # End => active.at \in Positions /\ active.at >= active.at
        BY <3>1, CursorFields, JournalConstants DEF Positions
      <4> QED
        BY <3>2, <4>1 DEF ActiveOK, Filled
    <3>4. compaction.some /\ compaction.at # End => flash[compaction.index][compaction.at] = Blank
      BY <3>2 DEF CopyOK
    <3> QED
      BY <3>3, <3>4 DEF WritesLandOnBlank
  <2> QED
    BY <2>1, <2>2
<1> QED
  BY <1>1, JournalHolds, PTL

\* Interrupted writes and erases never make a restart call the arena it replays
\* corrupt.
THEOREM NeverCorrupt == Spec => []NeverWarned
<1>1. JournalInv => NeverWarned
  BY RecoverableReplay DEF JournalInv, TypeOK, NeverWarned
<1> QED
  BY <1>1, JournalHolds, PTL

\* The journal implements the durable log: what a restart would replay changes only
\* by one record behind the others, or as a whole into the staged snapshot.
THEOREM JournalIsDurableLog == Spec => ImplementsDurableLog
<1>1. JournalInv /\ [Next]_vars => [Durable!LogNext]_(Durable!logVars)
  BY NextJournal DEF LogStep
<1> QED
  BY <1>1, InitJournal, JournalHolds, PTL DEF Spec, ImplementsDurableLog, Durable!LogSpec
=============================================================================
