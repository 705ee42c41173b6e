------------------------- MODULE HostAuthorization -------------------------
(***************************************************************************)
(* How a host keeps its remote-control authorizations in files.  Two       *)
(* regions are involved: the grants a target gave to controllers, and the  *)
(* accesses a controller holds to targets.  Each is one file, replaced     *)
(* whole by a rename.  Two tasks write them: the router, which runs every  *)
(* authorization as a transaction (begin, store, confirm, activate,        *)
(* settle, finish), and the persistence worker, which flushes snapshots of *)
(* all regions now and then.  A transaction may fail, be dropped with its  *)
(* write still queued, or be cut by a crash; a flush may hold a snapshot   *)
(* older than a transaction.                                               *)
(***************************************************************************)
EXTENDS FiniteSets

CONSTANTS Images,      \* what the authorization table of a region can be
          Unknown      \* the fingerprint of a region no flush has landed

ASSUME ImagesAssumption == Images # {} /\ Unknown \notin Images

AuthRegions == {"grants", "accesses"}

VARIABLES mem,         \* the live tables, owned by the router
          files,       \* what a reader of the directory sees now
          disk,        \* what each file may hold after a power loss
          mark,        \* FlushMark: the image of the last landed flush
          owned,       \* a transaction owns the storage
          router,      \* the router task runs
          tx,          \* the router's transaction
          flush,       \* the worker's flush
          owed,        \* ghost: what a restart may restore
          loose        \* ghost: changed since without a transaction

hVars == <<mem, files, disk, mark, owned, router, tx, flush, owed, loose>>

NoTx == [pc |-> "idle", region |-> "grants", next |-> CHOOSE i \in Images : TRUE,
         pairing |-> FALSE]
NoFlush == [pc |-> "idle", current |-> FALSE, image |-> [r \in {} |-> Unknown]]

HInit ==
    /\ \E i \in Images : mem = [r \in AuthRegions |-> i]
    /\ files = mem
    /\ disk = [r \in AuthRegions |-> {files[r]}]
    /\ mark = [r \in AuthRegions |-> Unknown]
    /\ owned = FALSE /\ router = TRUE
    /\ tx = NoTx /\ flush = NoFlush
    /\ owed = disk
    /\ loose = [r \in AuthRegions |-> FALSE]

----------------------------------------------------------------------------
(* The file store.  A write is staged and synced, then renamed over the     *)
(* file, and last the directory is synced, which settles every earlier      *)
(* rename in it as well.                                                    *)

StoreOutcomes == {"failed", "unconfirmed", "stored"}

sync_directory(f) == [r \in AuthRegions |-> {f[r]}]

StoreResult(fs, r, image, outcome) ==
    LET renamed == [fs.files EXCEPT ![r] = image]
    IN  CASE outcome = "failed" -> fs
          [] outcome = "unconfirmed" ->
                [files |-> renamed, disk |-> [fs.disk EXCEPT ![r] = @ \cup {image}]]
          [] outcome = "stored" ->
                [files |-> renamed, disk |-> sync_directory(renamed)]

Put(fs) == files' = fs.files /\ disk' = fs.disk
Store == [files |-> files, disk |-> disk]

----------------------------------------------------------------------------
(* Transactions of the router.                                              *)

RouterIdle == router /\ tx.pc = "idle"

(* A grant command or a pairing's authorization begins.  A grant command    *)
(* that changes nothing is answered without a write.                        *)
begin(r, image, pairing) ==
    /\ RouterIdle
    /\ r = "accesses" => pairing
    /\ ~owned
    /\ owned' = TRUE
    /\ flush' = [flush EXCEPT !.current = FALSE]
    /\ tx' = [pc |-> IF ~pairing /\ image = mem[r] THEN "finish" ELSE "store",
              region |-> r, next |-> image, pairing |-> pairing]
    /\ owed' = [owed EXCEPT ![r] = @ \cup {image}]
    /\ UNCHANGED <<mem, files, disk, mark, router, loose>>

(* What the router does with the outcome of its write. *)
AfterStore(outcome) == CASE outcome = "stored" -> "activate"
                         [] outcome = "failed" -> "restore"
                         [] outcome = "unconfirmed" -> "confirm"

(* The blocking write of a transaction.  It also runs when the router was   *)
(* dropped after queueing it; nobody then takes its result.                 *)
store_with ==
    /\ tx.pc = "store"
    /\ owned
    /\ \E o \in StoreOutcomes :
         /\ Put(StoreResult(Store, tx.region, tx.next, o))
         /\ tx' = [tx EXCEPT !.pc = IF router THEN AfterStore(o) ELSE "dropped"]
    /\ UNCHANGED <<mem, mark, owned, router, flush, owed, loose>>

(* After a failed write the table's present image is written back.  If that *)
(* fails too the router ends and the storage stays owned.                   *)
restore_snapshot ==
    /\ tx.pc = "restore"
    /\ owned
    /\ \E o \in StoreOutcomes :
         /\ Put(StoreResult(Store, tx.region, mem[tx.region], o))
         /\ router' = (router /\ o # "failed")
         /\ tx' = [tx EXCEPT !.pc = IF ~router' THEN "dropped"
                                   ELSE IF o = "stored" THEN "refuse" ELSE "confirm_restore"]
    /\ UNCHANGED <<mem, mark, owned, flush, owed, loose>>

(* One round of the confirmation loop, for the image last written.  A       *)
(* failed round changes nothing and is tried again.                         *)
confirm_store ==
    /\ tx.pc \in {"confirm", "confirm_restore"}
    /\ owned
    /\ files[tx.region] = IF tx.pc = "confirm" THEN tx.next ELSE mem[tx.region]
    /\ disk' = sync_directory(files)
    /\ tx' = [tx EXCEPT !.pc = IF ~router THEN "dropped"
                               ELSE IF tx.pc = "confirm" THEN "activate" ELSE "refuse"]
    /\ UNCHANGED <<mem, files, mark, owned, router, flush, owed, loose>>

activate ==
    /\ router /\ tx.pc = "activate"
    /\ mem' = [mem EXCEPT ![tx.region] = tx.next]
    /\ tx' = [tx EXCEPT !.pc = "settle"]
    /\ UNCHANGED <<files, disk, mark, owned, router, flush, owed, loose>>

(* The caller, or the pairing state machine, is told the outcome.           *)
settle(image) ==
    /\ tx' = [tx EXCEPT !.pc = "finish"]
    /\ owed' = [owed EXCEPT ![tx.region] = {image}]
    /\ loose' = [loose EXCEPT ![tx.region] = FALSE]
    /\ UNCHANGED <<mem, files, disk, mark, owned, router, flush>>

SettlePersisted == router /\ tx.pc = "settle" /\ settle(tx.next)
SettleFailed == router /\ tx.pc = "refuse" /\ settle(mem[tx.region])

(* A pairing's settlement may be refused by the engine, or its completion   *)
(* not be delivered: the router ends and the storage stays owned.           *)
SettlementRefused ==
    /\ router /\ tx.pc \in {"settle", "refuse"} /\ tx.pairing
    /\ router' = FALSE
    /\ tx' = [tx EXCEPT !.pc = "dropped"]
    /\ UNCHANGED <<mem, files, disk, mark, owned, flush, owed, loose>>

finish ==
    /\ router /\ tx.pc = "finish"
    /\ owned
    /\ owned' = FALSE
    /\ tx' = NoTx
    /\ UNCHANGED <<mem, files, disk, mark, router, flush, owed, loose>>

(* The router task is dropped where it waits.  A write it queued still runs. *)
DropRouter ==
    /\ router
    /\ router' = FALSE
    /\ tx' = [tx EXCEPT !.pc = IF @ \in {"store", "restore", "confirm", "confirm_restore"}
                               THEN @ ELSE "dropped"]
    /\ UNCHANGED <<mem, files, disk, mark, owned, flush, owed, loose>>

(* SetTargetAccess and ForgetTarget change the live table and nothing else. *)
SetOrForgetTarget(image) ==
    /\ RouterIdle
    /\ image # mem["accesses"]
    /\ mem' = [mem EXCEPT !["accesses"] = image]
    /\ owed' = [owed EXCEPT !["accesses"] = @ \cup {image}]
    /\ loose' = [loose EXCEPT !["accesses"] = TRUE]
    /\ UNCHANGED <<files, disk, mark, owned, router, tx, flush>>

----------------------------------------------------------------------------
(* The flush of the persistence worker.                                     *)

flush_revision ==
    /\ flush.pc = "idle"
    /\ ~owned
    /\ flush' = [NoFlush EXCEPT !.pc = "grants", !.current = TRUE]
    /\ UNCHANGED <<mem, files, disk, mark, owned, router, tx, owed, loose>>

(* One snapshot after the other is taken by the router between commands; a  *)
(* router that has ended answers NodeStopped.                               *)
prepare_flush ==
    /\ flush.pc \in AuthRegions
    /\ router => tx.pc = "idle"
    /\ flush' = IF ~router THEN NoFlush
                ELSE [flush EXCEPT !.pc = IF @ = "grants" THEN "accesses" ELSE "commit",
                                   !.image = [r \in DOMAIN @ \cup {flush.pc} |->
                                                IF r = flush.pc THEN mem[r] ELSE @[r]]]
    /\ UNCHANGED <<mem, files, disk, mark, owned, router, tx, owed, loose>>

(* A flush that asks only whether a transaction is running now. *)
accepts_old_flush == ~owned

accepts_flush == ~owned /\ flush.current

(* A region is written unless the mark says its image is the one that       *)
(* landed last; the mark moves only with a write that is confirmed.         *)
store_changed_region(w, r) ==
    IF flush.image[r] = w.mark[r] THEN {w}
    ELSE {LET fs == StoreResult([files |-> w.files, disk |-> w.disk], r, flush.image[r], o)
          IN  [files |-> fs.files, disk |-> fs.disk, ok |-> o = "stored",
               mark |-> IF o = "stored" THEN [w.mark EXCEPT ![r] = flush.image[r]]
                                        ELSE w.mark] : o \in StoreOutcomes}

(* The timebase is always written first and its confirmation settles the    *)
(* directory; then the regions in order, up to the first error.             *)
commit_to_store ==
    LET timebase == {[files |-> files, disk |-> disk, mark |-> mark, ok |-> FALSE],
                     [files |-> files, disk |-> sync_directory(files), mark |-> mark,
                      ok |-> TRUE]}
        after(ws, r) == UNION {IF w.ok THEN store_changed_region(w, r) ELSE {w} : w \in ws}
    IN  after(after(timebase, "grants"), "accesses")

commit_flush ==
    /\ flush.pc = "commit"
    /\ flush' = NoFlush
    /\ IF accepts_flush
       THEN \E w \in commit_to_store :
              /\ Put(w)
              /\ mark' = w.mark
              /\ owed' = IF w.ok
                         THEN [r \in AuthRegions |-> IF loose[r] THEN {flush.image[r], mem[r]}
                                                                  ELSE owed[r]]
                         ELSE owed
       ELSE UNCHANGED <<files, disk, mark, owed>>
    /\ UNCHANGED <<mem, owned, router, tx, loose>>

----------------------------------------------------------------------------
(* The process ends, or the power is lost, and the node starts again from   *)
(* the files.  Only a power loss can undo a rename.                         *)
HostRestart ==
    /\ \/ files' = files /\ disk' = disk
       \/ /\ files' \in [AuthRegions -> Images]
          /\ \A r \in AuthRegions : files'[r] \in disk[r]
          /\ disk' = sync_directory(files')
    /\ mem' = files'
    /\ owed' = disk'
    /\ mark' = [r \in AuthRegions |-> Unknown]
    /\ owned' = FALSE /\ router' = TRUE
    /\ tx' = NoTx /\ flush' = NoFlush
    /\ loose' = [r \in AuthRegions |-> FALSE]

RouterStep ==
    \/ \E r \in AuthRegions, i \in Images, p \in BOOLEAN : begin(r, i, p)
    \/ store_with \/ restore_snapshot \/ confirm_store
    \/ activate \/ SettlePersisted \/ SettleFailed \/ SettlementRefused \/ finish
    \/ DropRouter
    \/ \E i \in Images : SetOrForgetTarget(i)

WorkerStep == flush_revision \/ prepare_flush \/ commit_flush

HNext == RouterStep \/ WorkerStep \/ HostRestart
HSpec == HInit /\ [][HNext]_hVars

----------------------------------------------------------------------------
HTypeOK ==
    /\ mem \in [AuthRegions -> Images] /\ files \in [AuthRegions -> Images]
    /\ disk \in [AuthRegions -> SUBSET Images]
    /\ mark \in [AuthRegions -> Images \cup {Unknown}]
    /\ owned \in BOOLEAN /\ router \in BOOLEAN
    /\ tx.pc \in {"idle", "store", "restore", "confirm", "confirm_restore", "activate",
                  "settle", "refuse", "finish", "dropped"}
    /\ flush.pc \in AuthRegions \cup {"idle", "commit"}

(* An authorization that was settled is what a restart restores: persisted  *)
(* ones survive power loss and every later flush, refused ones never come   *)
(* back, and while no transaction owns the storage the live grants are the  *)
(* stored ones.  (authorization/mod.rs: "Dropping an unresolved owner must  *)
(* not permit a stale flush or another transaction.")  Accesses changed     *)
(* outside a transaction wait for the next flush and are left out.          *)
SettledAuthorizationKept ==
    /\ HTypeOK
    /\ \A r \in AuthRegions : ~loose[r] => disk[r] \subseteq owed[r]
    /\ ~owned => mem["grants"] = files["grants"]

(* What a flush reports as landed is what a restart restores, also for the  *)
(* accesses that SetTargetAccess and ForgetTarget changed.  FileStoreError  *)
(* (persistence/impls/file/mod.rs:23): "Replacement has occurred; this      *)
(* error must not be treated as a failed write."                            *)
LandedFlushIsRestored == \A r \in AuthRegions : disk[r] \subseteq owed[r]
============================================================================
