--------------------------- MODULE FlashTimebase ---------------------------
(***************************************************************************)
(* The two timebase regions of the flash journal                           *)
(* (prns-core/src/persistence/impls/flash_journal/mod.rs): a high-water    *)
(* mark that keeps the node's clock from running back at a restart, and    *)
(* the time of the last compaction attempt, which rations erases.          *)
(*                                                                         *)
(* Each slot holds both.  Slots are written once; a full region makes the  *)
(* next write erase the other region and start there.  A call is one       *)
(* action; if the power goes, or the flash fails, while it writes a slot   *)
(* or erases a region, the cells are left in any state that cut allows.    *)
(* Nothing is kept in memory between two calls, so a restart only sets the *)
(* clock.  Zero stands for None; the clock starts at one.                  *)
(***************************************************************************)
EXTENDS Naturals, FiniteSetsExt

CONSTANTS
    SlotsPerRegion,     \* ERASE_SIZE / TIMEBASE_SLOT_LEN
    MaxMillis,          \* the largest instant (u64::MAX in the code)
    Headroom,           \* TIMEBASE_HEADROOM_MILLIS
    Minute,             \* COMPACTION_BUDGET_MINUTE_MILLIS
    MaxCuts             \* slot writes cut short in a row

ASSUME TimebaseConstants ==
    /\ SlotsPerRegion \in Nat /\ MaxCuts \in Nat /\ MaxCuts < SlotsPerRegion
    /\ MaxMillis \in Nat \ {0} /\ Headroom \in Nat \ {0} /\ Minute \in Nat \ {0}

VARIABLES
    regions,        \* the two regions' slots
    now,            \* the node's logical clock
    cuts,           \* slot writes cut short since one last completed
    acked           \* ghost: the latest instants a call reported as covered

tbVars == <<regions, now, cuts, acked>>

Regions == {0, 1}
SlotNumbers == 1..SlotsPerRegion
Instants == 0..(MaxMillis + Minute)
Slot(high, attempt) == [used |-> TRUE, high |-> high, attempt |-> attempt]
ErasedSlot == [used |-> FALSE, high |-> 0, attempt |-> 0]
Garbage == Slot(0, 0)
SlotStates == {ErasedSlot} \cup {Slot(h, a) : h, a \in Instants}

-----------------------------------------------------------------------------
(* scan_timebase_region *)

Newest(region) == Max({region[k].high : k \in SlotNumbers})
LastAttempt(region) == Max({region[k].attempt : k \in SlotNumbers})
LastUsed(region) == Max({0} \cup {k \in SlotNumbers : region[k].used})

\* inspect_timebase_state
HighWater(rs) == Max({Newest(rs[0]), Newest(rs[1])})
Attempt(rs) == Max({LastAttempt(rs[0]), LastAttempt(rs[1])})

\* newer_timebase_region
NewerRegion ==
    LET high(i) == Newest(regions[i])
        attempt(i) == LastAttempt(regions[i])
    IN  IF high(1) > high(0) \/ (high(1) = high(0) /\ attempt(1) > attempt(0)) THEN 1 ELSE 0

SaturatingAdd(a, b) == Min({a + b, MaxMillis})

\* Mutant: the attempt is rounded down.
RoundDown(at) == (at \div Minute) * Minute

\* round_compaction_attempt_up
RoundUp(at) == ((at + Minute - 1) \div Minute) * Minute

-----------------------------------------------------------------------------
(* The calls *)

TInit ==
    /\ regions = [i \in Regions |-> [k \in SlotNumbers |-> ErasedSlot]]
    /\ now = 1
    /\ cuts = 0
    /\ acked = [high |-> 0, attempt |-> 0]

\* write_timebase_slot, completed.
WriteSlot(i, k, region, high, attempt) ==
    /\ regions' = [regions EXCEPT ![i] = [region EXCEPT ![k] = Slot(high, attempt)]]
    /\ cuts' = 0

\* write_timebase_slot, cut short.  The budget is the slot's last part.
CutSlot(i, k, region, high, attempt) ==
    /\ cuts < MaxCuts
    /\ cuts' = cuts + 1
    /\ \E c \in {ErasedSlot, Garbage, Slot(high, 0), Slot(high, attempt)} :
         regions' = [regions EXCEPT ![i] = [region EXCEPT ![k] = c]]

\* The erase of region i, cut short.
CutErase(i) ==
    /\ \E left \in [SlotNumbers -> {"old", "erased", "garbage"}] :
         regions' = [regions EXCEPT ![i] = [k \in SlotNumbers |->
            IF left[k] = "old" \/ ~regions[i][k].used THEN regions[i][k]
            ELSE IF left[k] = "erased" THEN ErasedSlot ELSE Garbage]]
    /\ UNCHANGED cuts

AllErased == [k \in SlotNumbers |-> ErasedSlot]

\* write_timebase_state, in the region in use or, when it is full, in the other.
WriteState(high, attempt, completes) ==
    LET i == NewerRegion
        last == LastUsed(regions[i])
        other == 1 - i
        blank == IF LastUsed(regions[other]) > 0 THEN AllErased ELSE regions[other]
    IN  IF last < SlotsPerRegion
        THEN IF completes THEN WriteSlot(i, last + 1, regions[i], high, attempt)
             ELSE CutSlot(i, last + 1, regions[i], high, attempt)
        ELSE IF completes THEN WriteSlot(other, 1, blank, high, attempt)
             ELSE \/ CutSlot(other, 1, blank, high, attempt)
                  \/ LastUsed(regions[other]) > 0 /\ CutErase(other)

\* record_timebase
RecordTimebase(completes) ==
    LET value == SaturatingAdd(now, Headroom)
    IN  /\ IF HighWater(regions) >= value
           THEN completes /\ UNCHANGED <<regions, cuts>>
           ELSE WriteState(value, Attempt(regions), completes)
        /\ acked' = IF completes THEN [acked EXCEPT !.high = Max({@, value})] ELSE acked
        /\ UNCHANGED now

\* record_compaction_budget
RecordCompactionBudget(completes) ==
    LET rounded == RoundUp(now)
        high == Max({HighWater(regions), SaturatingAdd(now, Headroom)})
    IN  /\ IF Attempt(regions) >= rounded
           THEN completes /\ UNCHANGED <<regions, cuts>>
           ELSE WriteState(high, rounded, completes)
        /\ acked' = IF completes THEN [acked EXCEPT !.attempt = Max({@, now})] ELSE acked
        /\ UNCHANGED now

Tick ==
    /\ now < MaxMillis
    /\ now' = now + 1
    /\ UNCHANGED <<regions, cuts, acked>>

\* EmbeddedPersistence::restore: the logical clock resumes at the high-water mark
\* or at the raw clock, whichever is later.
Restart ==
    /\ \E raw \in 1..now : now' = Max({raw, HighWater(regions)})
    /\ UNCHANGED <<regions, cuts, acked>>

TNext ==
    \/ \E completes \in BOOLEAN :
         RecordTimebase(completes) \/ RecordCompactionBudget(completes)
    \/ Tick
    \/ Restart

TSpec == TInit /\ [][TNext]_tbVars

-----------------------------------------------------------------------------
(* Properties *)

\* Every variable keeps its type.
TTypeOK ==
    /\ regions \in [Regions -> [SlotNumbers -> SlotStates]]
    /\ now \in 1..MaxMillis
    /\ cuts \in 0..MaxCuts
    /\ acked \in [high : Instants, attempt : Instants]

\* The regions keep their type, and what record_timebase and record_compaction_budget reported as stored is what a
\* restart finds, or less than it: the clock does not run back behind a recorded
\* instant, and no compaction starts before its budget allows.
AckedIsRestored ==
    TTypeOK /\ HighWater(regions) >= acked.high /\ Attempt(regions) >= acked.attempt
=============================================================================
