------------------------ MODULE EmbeddedPersistence ------------------------
(***************************************************************************)
(* The persistence owner of an embedded node (prns-runtime/impls/embassy/  *)
(* src/runtime/embedded_persistence/mod.rs): it queues what the engine     *)
(* reports as changed, writes it to the flash journal in batches, stores   *)
(* critical snapshots on request, and compacts the journal step by step.   *)
(*                                                                         *)
(* The manifold calls progress when the owner's deadline has passed and    *)
(* lends it the engine until it returns, so a call is one action.  It      *)
(* makes at most one journal call, whose outcome is the parameter:         *)
(*   ok, failed, lost (CommitUnconfirmed), cut (the future was dropped)    *)
(*                                                                         *)
(* The journal is as FlashJournal specifies it: a log replayed at restart, *)
(* a staged snapshot, and an arena that takes no more records once a write *)
(* has failed.  What the log holds about an item is compared with what is  *)
(* in memory: none, stale or fresh.  Every deadline is a timer that is     *)
(* off, waiting, or ready once its time has passed.                        *)
(***************************************************************************)
EXTENDS Naturals, FiniteSets

CONSTANTS
    Routes,         \* destinations with routes
    Ratchets,       \* own destinations with ratchets
    AuthKinds,      \* the remote-control authorization snapshots
    Stores,         \* the kinds whose snapshot store is in use
    Pending,        \* capacity of the pending queues
    Sectors         \* erase sectors of an arena

ConfigKinds == {"groups", "name"}
Kinds == AuthKinds \cup ConfigKinds
Items == Routes \cup Ratchets \cup Kinds

ASSUME PersistenceConstants ==
    /\ Pending \in Nat \ {0} /\ Sectors \in Nat \ {0}
    /\ IsFiniteSet(Items)
    /\ Routes \cap Ratchets = {} /\ (Routes \cup Ratchets) \cap Kinds = {}
    /\ AuthKinds \cap ConfigKinds = {} /\ Stores \subseteq Kinds

VARIABLES
    present,        \* the items the engine or the stores hold a value of
    log,            \* what a restart would restore
    room,           \* what the active arena can still take
    landed,         \* the append or the commit in doubt is on flash
    request,        \* the snapshot stores' mailboxes
    authReady,      \* PendingRemoteControlAuthorizationStore::ready_at
    own             \* EmbeddedFlashPersistence

vars == <<present, log, room, landed, request, authReady, own>>

Saves == {"none", "stale", "fresh"}
Nothing == [x \in Items |-> "none"]
Timers == {"off", "waiting", "ready"}
Phases == {"none", "budget", "erase", "inflight", "routes", "ratchets", "snapshots",
           "commit", "confirm"}
Outcomes == {"ok", "failed", "lost", "cut"}

\* An authorization request is the first store or the rollback of one, and is
\* ready at once, after the retry interval or after the compaction cooldown.
Requests == {"idle", "pending", "processing", "initial", "rollback"}

FreshOwner ==
    [routes |-> {}, ratchets |-> {}, routeTimer |-> "off", ratchetTimer |-> "off",
     retry |-> FALSE, cooling |-> FALSE, timebaseDue |-> TRUE, snapshot |-> "none",
     landing |-> "none", confirm |-> "none", phase |-> "none", target |-> "routes",
     sector |-> 0, todo |-> {}, staged |-> Nothing, copyRoom |-> FALSE]

\* No compaction: abort_compaction drops the arena being written.
Ended(s) == [s EXCEPT !.phase = "none", !.target = "routes", !.sector = 0, !.todo = {},
                      !.staged = Nothing, !.copyRoom = FALSE]

Started(timer) == IF timer = "off" THEN "waiting" ELSE timer

Right(saves, x) == IF x \in present THEN saves[x] = "fresh" ELSE saves[x] = "none"

Changed(saves, x) == [saves EXCEPT ![x] = IF @ = "none" THEN "none" ELSE "stale"]

-----------------------------------------------------------------------------
(* The owner's helpers *)

\* require_snapshot
RequireSnapshot(s, target) ==
    [s EXCEPT !.snapshot = IF "critical" \in {@, target} THEN "critical" ELSE "routes",
              !.routes = {},
              !.ratchets = IF target = "critical" THEN {} ELSE @]


\* note_write_failure
NoteWriteFailure(s) ==
    LET failed == [s EXCEPT !.retry = TRUE]
        aborted == RequireSnapshot(Ended(failed), s.target)
    IN  IF s.phase \in {"none", "confirm"} THEN failed
        ELSE IF s.target = "routes"
             THEN [aborted EXCEPT !.routeTimer = Started(@)]
             ELSE [aborted EXCEPT !.ratchetTimer = Started(@)]

\* try_start_compaction
TryStartCompaction(s) ==
    IF s.cooling THEN RequireSnapshot(s, s.snapshot)
    ELSE IF Cardinality(Ratchets \cap present) > Pending THEN NoteWriteFailure(s)
    ELSE [s EXCEPT !.routes = {}, !.ratchets = {},
                   !.routeTimer = "off", !.ratchetTimer = "off",
                   !.snapshot = "none", !.target = s.snapshot,
                   !.phase = "budget", !.todo = present \cap (Routes \cup Ratchets),
                   !.landing = "none"]

\* complete_compaction
CompleteCompaction(s) ==
    LET done == [Ended(s) EXCEPT !.retry = FALSE]
        owed == IF s.snapshot # "none" THEN RequireSnapshot(done, s.snapshot) ELSE done
    IN  IF s.snapshot = "none" /\ s.routes = {} /\ s.ratchets = {}
        THEN [owed EXCEPT !.landing = "compaction"]
        ELSE owed
-----------------------------------------------------------------------------
(* What the engine reports (observe_journaled, queue_route, queue_ratchet) *)

QueueRoute(s, d) ==
    IF s.snapshot # "none" THEN s
    ELSE IF d \in s.routes \/ Cardinality(s.routes) < Pending
    THEN [s EXCEPT !.routes = @ \cup {d}]
    ELSE RequireSnapshot(s, "routes")

QueueRatchet(s, d) ==
    IF d \in s.ratchets \/ Cardinality(s.ratchets) < Pending
    THEN [s EXCEPT !.ratchets = @ \cup {d}]
    ELSE RequireSnapshot(s, "critical")

\* AnnounceHeard upserts the route, RouteRemoved drops it.
RouteChanges(d) ==
    /\ present' \in {present \cup {d}, present \ {d}}
    /\ log' = Changed(log, d)
    /\ own' = [QueueRoute(own, d) EXCEPT !.routeTimer = Started(@), !.staged = Changed(@, d)]
    /\ UNCHANGED <<room, landed, request, authReady>>

SelfRatchetRotated(d) ==
    /\ present' = present \cup {d}
    /\ log' = Changed(log, d)
    /\ own' = [QueueRatchet(own, d) EXCEPT !.ratchetTimer = Started(@), !.staged = Changed(@, d)]
    /\ UNCHANGED <<room, landed, request, authReady>>

\* submit, and the authorization store's request signal
Submit(k) ==
    /\ request[k] = "idle"
    /\ \E r \in IF k \in ConfigKinds THEN {"pending"} ELSE {"initial", "rollback"} :
         request' = [request EXCEPT ![k] = r]
    /\ k \in AuthKinds => \A j \in AuthKinds : request[j] = "idle"
    /\ authReady' = IF k \in AuthKinds THEN "now" ELSE authReady
    /\ UNCHANGED <<present, log, room, landed, own>>

\* A deadline passes.
Elapse(timer) ==
    /\ \/ timer \in {"routeTimer", "ratchetTimer"} /\ own[timer] = "waiting"
          /\ own' = [own EXCEPT ![timer] = "ready"]
       \/ timer \in {"retry", "cooling"} /\ own[timer] /\ own' = [own EXCEPT ![timer] = FALSE]
       \/ timer = "timebaseDue" /\ ~own[timer] /\ own' = [own EXCEPT ![timer] = TRUE]
    /\ UNCHANGED <<present, log, room, landed, request, authReady>>

-----------------------------------------------------------------------------
(* When progress is due (next_deadline, and deadline of the authorization *)
(* store around it)                                                       *)

ConfigPending == \E k \in ConfigKinds : request[k] = "pending"

SnapshotDue ==
    /\ ~own.cooling
    /\ \/ own.routeTimer = "ready"
       \/ own.snapshot = "critical" /\ own.ratchetTimer = "ready"
       \/ own.snapshot = "critical" /\ own.routeTimer = "off" /\ own.ratchetTimer = "off"

OwnerDue ==
    /\ ~own.retry
    /\ \/ own.confirm # "none"
       \/ own.phase # "none" \/ own.landing # "none" \/ ConfigPending
       \/ own.ratchetTimer = "ready"
       \/ IF own.snapshot # "none" THEN SnapshotDue ELSE own.routeTimer = "ready"
       \/ own.timebaseDue

AuthDue(k) ==
    /\ request[k] \in {"initial", "rollback"}
    /\ CASE authReady = "now" -> TRUE
         [] authReady = "retry" -> ~own.retry
         [] OTHER -> ~own.cooling

Due == OwnerDue \/ \E k \in AuthKinds : AuthDue(k)
-----------------------------------------------------------------------------
(* Journal calls *)

\* A record more leaves the arena with less room or none.
Shrunk(r) ==
    CASE r = "plenty" -> {"plenty", "reserve", "none"}
      [] r = "reserve" -> {"reserve", "none"}
      [] OTHER -> {r}

Written(saves, x) == [saves EXCEPT ![x] = IF x \in present THEN "fresh" ELSE "none"]

\* append of a route or ratchet, which is not confirmed if its outcome is lost.
AppendItem(x, outcome) ==
    /\ IF outcome = "ok"
       THEN log' = Written(log, x) /\ room' \in Shrunk(room)
       ELSE /\ log' \in {log} \cup (IF outcome = "failed" THEN {} ELSE {Written(log, x)})
            /\ room' = "none"
    /\ UNCHANGED landed

NoJournalCall == UNCHANGED <<log, room, landed>>

\* The copied arena takes over.
TakeOver ==
    /\ log' = own.staged
    /\ room' \in {"plenty", "reserve", "none"}
    /\ landed' = FALSE

-----------------------------------------------------------------------------
(* progress_compaction *)

After(outcome, ok, cut) ==
    own' = CASE outcome = "ok" -> ok
             [] outcome = "cut" -> cut
             [] OTHER -> NoteWriteFailure(own)

RecordBudget(outcome) ==
    /\ own.phase = "budget"
    /\ NoJournalCall
    /\ After(outcome, [own EXCEPT !.phase = "erase", !.sector = 0, !.cooling = TRUE,
                                  !.timebaseDue = FALSE], own)

\* The last sector's erase is followed by begin_compaction.
EraseSector(outcome) ==
    LET begun == [own EXCEPT !.phase = "routes", !.sector = 0, !.copyRoom = TRUE]
    IN  /\ own.phase = "erase"
        /\ NoJournalCall
        /\ After(outcome, IF own.sector + 1 = Sectors THEN begun ELSE [own EXCEPT !.sector = @ + 1],
                 [own EXCEPT !.phase = "inflight"])

EraseInFlight(outcome) ==
    /\ own.phase = "inflight"
    /\ outcome = "ok"
    /\ NoJournalCall
    /\ own' = NoteWriteFailure(own)

\* Mutant of CopyNext: the snapshots are not copied.
CopyNextNoSnapshots(outcome) ==
    /\ outcome = "ok"
    /\ own.phase \in {"routes", "ratchets", "snapshots"}
    /\ NoJournalCall
    /\ own' = [own EXCEPT !.phase = "commit"]

\* The Routes, Ratchets and snapshot phases: one key, or on to the next phase.
\* append_compacted writes no more after a write that did not complete.
CopyNext(outcome) ==
    \E step \in {<<"routes", Routes, "ratchets">>, <<"ratchets", Ratchets, "snapshots">>,
                 <<"snapshots", Kinds, "commit">>} :
      /\ own.phase = step[1]
      /\ NoJournalCall
      /\ \/ /\ own.todo \cap step[2] = {}
            /\ outcome = "ok"
            /\ own' = [own EXCEPT !.phase = step[3],
                                  !.todo = IF step[3] = "snapshots" THEN Kinds \cap present ELSE @]
         \/ \E x \in own.todo \cap step[2] :
              LET skipped == [own EXCEPT !.todo = @ \ {x}]
              IN  \/ x \notin present /\ outcome = "ok" /\ own' = skipped
                  \/ /\ x \in present
                     /\ outcome = "ok" => own.copyRoom
                     /\ After(outcome, [skipped EXCEPT !.staged[x] = "fresh"],
                              [own EXCEPT !.copyRoom = FALSE])

\* commit_compaction first closes the active arena to appends.
Commit(outcome) ==
    LET confirming == [own EXCEPT !.phase = "confirm", !.copyRoom = FALSE]
    IN  /\ own.phase = "commit"
        /\ outcome # "failed" => own.copyRoom
        /\ IF outcome = "ok" THEN TakeOver
           ELSE /\ room' = IF room = "uninit" THEN room ELSE "none"
                /\ landed' \in IF outcome = "failed" THEN {FALSE} ELSE BOOLEAN
                /\ UNCHANGED log
        /\ own' = CASE outcome = "ok" -> CompleteCompaction(own)
                    [] outcome = "lost" -> NoteWriteFailure(confirming)
                    [] outcome = "cut" -> confirming
                    [] OTHER -> NoteWriteFailure(own)

ConfirmCommit(outcome) ==
    /\ own.phase = "confirm"
    /\ outcome # "lost"
    /\ IF outcome = "ok" /\ landed THEN TakeOver ELSE NoJournalCall
    /\ After(outcome, IF landed THEN CompleteCompaction(own)
                      ELSE NoteWriteFailure([own EXCEPT !.phase = "commit"]), own)

ProgressCompaction(outcome) ==
    \/ RecordBudget(outcome)
    \/ EraseSector(outcome)
    \/ EraseInFlight(outcome)
    \/ CopyNext(outcome)
    \/ Commit(outcome)
    \/ ConfirmCommit(outcome)
-----------------------------------------------------------------------------
(* store_critical_snapshot, and what its callers do with the answer *)

Answer(k, a) ==
    IF k \in ConfigKinds
    THEN /\ request' = [request EXCEPT ![k] = CASE a \in {"compacting", "unconfirmed"} -> "pending"
                                                [] a = "dropped" -> "processing"
                                                [] OTHER -> "idle"]
         /\ UNCHANGED authReady
    ELSE /\ request' = IF a = "stored" \/ (a \in {"failed", "full"} /\ request[k] = "initial")
                       THEN [request EXCEPT ![k] = "idle"] ELSE request
         /\ authReady' = CASE a = "compacting" -> "now"
                           [] a \in {"unconfirmed", "failed"} -> "retry"
                           [] a = "full" -> "cooldown"
                           [] OTHER -> authReady

Stored(k) ==
    /\ present' = present \cup {k}
    /\ log' = [log EXCEPT ![k] = "fresh"]
    /\ landed' = FALSE
    /\ Answer(k, "stored")

NotStored(k, a) == UNCHANGED <<present, log>> /\ Answer(k, a)

\* confirm_append of the record in doubt
ResolveAppend(k, outcome) ==
    /\ own.confirm = k /\ ~own.retry
    /\ outcome # "lost"
    /\ UNCHANGED room
    /\ CASE outcome = "ok" /\ landed ->
              Stored(k) /\ own' = [own EXCEPT !.confirm = "none"]
         [] outcome = "ok" /\ ~landed ->
              NotStored(k, "failed") /\ UNCHANGED landed
              /\ own' = NoteWriteFailure([own EXCEPT !.confirm = "none"])
         [] outcome = "failed" ->
              NotStored(k, "unconfirmed") /\ UNCHANGED landed /\ own' = NoteWriteFailure(own)
         [] OTHER -> NotStored(k, "dropped") /\ UNCHANGED <<landed, own>>

AppendSnapshot(k, outcome) ==
    LET sealed == "none"
    IN  /\ room \in {"plenty", "reserve"}
        /\ CASE outcome = "ok" ->
                  /\ Stored(k) /\ UNCHANGED own
                  /\ room' \in Shrunk(room)
             [] outcome = "failed" ->
                  /\ NotStored(k, "failed") /\ own' = NoteWriteFailure(own)
                  /\ room' = sealed /\ UNCHANGED landed
             [] outcome = "lost" ->
                  /\ NotStored(k, "unconfirmed") /\ own' = NoteWriteFailure([own EXCEPT !.confirm = k])
                  /\ room' = sealed /\ landed' \in BOOLEAN
             [] OTHER ->
                  /\ NotStored(k, "dropped") /\ own' = [own EXCEPT !.confirm = k]
                  /\ room' = sealed /\ landed' \in BOOLEAN

\* The append answers ArenaFull, or that the journal has no arena.
AppendRefused(k) ==
    LET owed == RequireSnapshot(own, "critical")
        started == IF own.cooling THEN owed ELSE TryStartCompaction(owed)
    IN  /\ NoJournalCall
        /\ UNCHANGED present
        /\ \/ /\ room = "none"
              /\ own' = started
              /\ Answer(k, IF own.cooling THEN "full"
                           ELSE IF started.phase # "none" THEN "compacting" ELSE "failed")
           \/ /\ room = "uninit"
              /\ own' = NoteWriteFailure(own)
              /\ Answer(k, "failed")

StoreCritical(k, outcome) ==
    \/ /\ own.confirm # "none" /\ (own.retry \/ own.confirm # k)
       /\ outcome = "ok"
       /\ NoJournalCall /\ NotStored(k, "unconfirmed") /\ UNCHANGED own
    \/ ResolveAppend(k, outcome)
    \/ /\ own.confirm = "none" /\ own.retry
       /\ outcome = "ok"
       /\ NoJournalCall /\ NotStored(k, "failed") /\ UNCHANGED own
    \/ /\ own.confirm = "none" /\ ~own.retry /\ own.phase # "none"
       /\ ProgressCompaction(outcome)
       /\ UNCHANGED present
       /\ Answer(k, IF outcome = "cut" THEN "dropped" ELSE "compacting")
    \/ /\ own.confirm = "none" /\ ~own.retry /\ own.phase = "none"
       /\ AppendSnapshot(k, outcome) \/ (outcome = "ok" /\ AppendRefused(k))
-----------------------------------------------------------------------------
(* progress *)

\* record_timebase writes only when the interval has passed.
RecordTimebase(s, outcome) ==
    IF ~s.timebaseDue \/ outcome = "cut" THEN s
    ELSE IF outcome = "ok" THEN [s EXCEPT !.timebaseDue = FALSE, !.retry = FALSE]
    ELSE NoteWriteFailure(s)

NewWork ==
    CASE own.landing = "routes" -> own.routes # {} \/ own.snapshot # "none"
      [] own.landing = "ratchets" -> own.ratchets # {}
      [] OTHER -> own.routes # {} \/ own.ratchets # {} \/ own.snapshot # "none"

\* land_timebase: the batch is done once the clock is recorded.
LandTimebase(outcome) ==
    LET recorded == RecordTimebase(own, outcome)
        off == CASE own.landing = "routes" -> {"routeTimer"}
                 [] own.landing = "ratchets" -> {"ratchetTimer"}
                 [] OTHER -> {"routeTimer", "ratchetTimer"}
        done == [f \in DOMAIN own |-> IF f \in off THEN "off" ELSE recorded[f]]
    IN  /\ own.landing # "none" /\ ~NewWork
        /\ ~own.timebaseDue => outcome = "ok"
        /\ NoJournalCall
        /\ own' = IF outcome = "ok" THEN [done EXCEPT !.retry = FALSE, !.landing = "none"]
                  ELSE recorded

\* append_route, append_ratchet: the queue empties into a batch to land.
Appended(s, queue, x) ==
    LET rest == s[queue] \ {x}
    IN  [s EXCEPT ![queue] = rest, !.landing = IF rest = {} THEN queue ELSE @]

AppendQueued(s, queue, x, outcome) ==
    /\ AppendItem(x, outcome)
    /\ own' = CASE outcome = "ok" -> Appended(s, queue, x)
                [] outcome = "cut" -> s
                [] OTHER -> NoteWriteFailure(s)

StartCompaction(s) == NoJournalCall /\ own' = TryStartCompaction(s)

\* Mutant of AppendRoute: a full arena is retried and not compacted.
AppendRouteRetries(s, d, outcome) ==
    \/ room = "plenty" /\ AppendQueued(s, "routes", d, outcome)
    \/ room # "plenty" /\ NoJournalCall /\ own' = NoteWriteFailure(s)

AppendRoute(s, d, outcome) ==
    \/ /\ room = "plenty"
       /\ AppendQueued(s, "routes", d, outcome)
    \/ /\ room # "plenty"
       /\ outcome = "ok"
       /\ StartCompaction(RequireSnapshot(s, "routes"))

AppendRatchet(s, d, outcome) ==
    \/ /\ room \in {"plenty", "reserve"}
       /\ AppendQueued(s, "ratchets", d, outcome)
    \/ /\ room = "none"
       /\ outcome = "ok"
       /\ StartCompaction(RequireSnapshot(s, "critical"))
    \/ /\ room = "uninit"
       /\ outcome = "failed"
       /\ NoJournalCall /\ own' = NoteWriteFailure(s)

\* The batches, once a landing with new work has been given up.
Batch(s, outcome) ==
    LET ratchetTurn == s.ratchetTimer = "ready" /\ (s.ratchets # {} \/ s.snapshot = "critical")
    IN  \/ /\ ratchetTurn
           /\ \/ \E d \in s.ratchets : AppendRatchet(s, d, outcome)
              \/ s.ratchets = {} /\ outcome = "ok" /\ StartCompaction(s)
        \/ /\ ~ratchetTurn /\ s.routeTimer # "ready"
           /\ ~s.timebaseDue => outcome = "ok"
           /\ NoJournalCall
           /\ own' = RecordTimebase(s, outcome)
        \/ /\ ~ratchetTurn /\ s.routeTimer = "ready"
           /\ \/ s.snapshot # "none" /\ outcome = "ok" /\ StartCompaction(s)
              \/ s.snapshot = "none" /\ \E d \in s.routes : AppendRoute(s, d, outcome)

Background(outcome) ==
    /\ own.confirm = "none" /\ ~own.retry
    /\ UNCHANGED <<present, request, authReady>>
    /\ \/ own.phase # "none" /\ ProgressCompaction(outcome)
       \/ own.phase = "none" /\ LandTimebase(outcome)
       \/ /\ own.phase = "none" /\ (own.landing = "none" \/ NewWork)
          /\ Batch([own EXCEPT !.landing = "none"], outcome)

\* EmbeddedFlashPersistence::progress
OwnerProgress(outcome) ==
    LET groups == request["groups"] = "pending" /\ own.confirm # "name"
    IN  /\ own.confirm \notin AuthKinds
        /\ \/ groups /\ StoreCritical("groups", outcome)
           \/ ~groups /\ request["name"] = "pending" /\ StoreCritical("name", outcome)
           \/ ~groups /\ request["name"] # "pending" /\ Background(outcome)

\* The progress around it: settings first, then the authorization store.
Progress(outcome) ==
    LET settings == ConfigPending /\ own.confirm \notin AuthKinds
        ready == {k \in AuthKinds : AuthDue(k)}
    IN  /\ Due
        /\ IF settings \/ ready = {} THEN OwnerProgress(outcome)
           ELSE \E k \in ready : StoreCritical(k, outcome)

\* Power fails and the node restores what the log holds.
Restart ==
    LET inDoubt == IF own.phase = "confirm" /\ landed THEN own.staged ELSE log
        kept == {x \in Items : inDoubt[x] # "none"} \cup
                (IF own.confirm # "none" /\ landed THEN {own.confirm} ELSE {})
    IN  /\ present' = kept
        /\ log' = [x \in Items |-> IF x \in kept THEN "fresh" ELSE "none"]
        /\ room' \in IF room = "uninit" /\ ~landed THEN {"plenty", "uninit"}
                     ELSE {"plenty", "reserve", "none"}
        /\ landed' = FALSE
        /\ request' = [k \in Kinds |-> "idle"]
        /\ authReady' = "now"
        /\ \E c \in BOOLEAN :
             own' = [FreshOwner EXCEPT !.cooling = c, !.retry = (room' = "uninit")]

Init ==
    /\ present = {} /\ log = Nothing
    /\ room \in {"plenty", "uninit"}
    /\ landed = FALSE
    /\ request = [k \in Kinds |-> "idle"]
    /\ authReady = "now"
    /\ own = [FreshOwner EXCEPT !.retry = (room = "uninit")]

TimerNames == {"routeTimer", "ratchetTimer", "retry", "cooling", "timebaseDue"}

Next ==
    \/ \E d \in Routes : RouteChanges(d)
    \/ \E d \in Ratchets : SelfRatchetRotated(d)
    \/ \E k \in Stores : Submit(k)
    \/ \E timer \in TimerNames : Elapse(timer)
    \/ \E outcome \in Outcomes : Progress(outcome)
    \/ Restart

Spec == Init /\ [][Next]_vars
-----------------------------------------------------------------------------
(* Properties *)

\* Every variable of the owner and of the journal it writes has its type.
TypeOK ==
    /\ present \subseteq Items
    /\ log \in [Items -> Saves] /\ own.staged \in [Items -> Saves]
    /\ room \in {"plenty", "reserve", "none", "uninit"} /\ own.copyRoom \in BOOLEAN
    /\ landed \in BOOLEAN
    /\ request \in [Kinds -> Requests]
    /\ authReady \in {"now", "retry", "cooldown"}
    /\ DOMAIN own = DOMAIN FreshOwner
    /\ own.routes \subseteq Routes /\ Cardinality(own.routes) <= Pending
    /\ own.ratchets \subseteq Ratchets /\ Cardinality(own.ratchets) <= Pending
    /\ own.routeTimer \in Timers /\ own.ratchetTimer \in Timers
    /\ own.retry \in BOOLEAN /\ own.cooling \in BOOLEAN /\ own.timebaseDue \in BOOLEAN
    /\ own.snapshot \in {"none", "routes", "critical"}
    /\ own.landing \in {"none", "routes", "ratchets", "compaction"}
    /\ own.phase \in Phases /\ own.target \in {"routes", "critical"}
    /\ own.todo \subseteq Items /\ own.sector \in 0..(Sectors - 1)
    /\ own.confirm \in Kinds \cup {"none"}

\* The running compaction has copied x as it is now, or still will.
Copying(x) ==
    CASE own.phase = "none" -> FALSE
      [] own.phase \in {"budget", "erase", "inflight"} -> x \in present => x \in own.todo
      [] OTHER -> x \in own.todo \/ Right(own.staged, x)


\* A snapshot that was acknowledged is what a restart restores, through every
\* later failed append, compaction and aborted compaction.
CriticalSurvives == \A k \in Kinds \cap present : log[k] = "fresh"

\* The manifold keeps calling progress while it is due, and time passes.
FairSpec ==
    /\ Spec
    /\ \A timer \in TimerNames : WF_vars(Elapse(timer))
    /\ WF_vars(\E outcome \in Outcomes : Progress(outcome))

\* From some point on nothing changes any more and flash works.
Quiet == \/ \E timer \in TimerNames : Elapse(timer)
         \/ Progress("ok")
Settled == <>[][Quiet]_vars

\* The change whose append is in doubt was dropped with the call that took it.
Wedged == own.confirm \in ConfigKinds /\ request[own.confirm] # "pending"

\* Every route change reaches flash once flash works again, also from a journal
\* that could not be initialised.
RoutesJournaled == Settled /\ []~Wedged => \A d \in Routes : <>[]Right(log, d)

\* Every rotated ratchet of a running journal reaches flash once flash works.
RatchetsJournaled ==
    Settled /\ []~Wedged /\ [](room # "uninit") => \A d \in Ratchets : <>[]Right(log, d)

\* An append of the node name whose outcome is in doubt is finished once flash
\* works again.
UncertainNameFinished == Settled => [](own.confirm = "name" => <>(own.confirm # "name"))
=============================================================================
