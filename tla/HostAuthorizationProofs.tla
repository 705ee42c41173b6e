---------------------- MODULE HostAuthorizationProofs ----------------------
(***************************************************************************)
(* An authorization that was settled is what a restart restores, for any   *)
(* set of images.                                                          *)
(*                                                                         *)
(* The argument joins the transaction and the flush: while a transaction   *)
(* owns the storage only its own region may differ between the live tables *)
(* and the files (AtRest), each of its stages says what its file holds     *)
(* (TxInv), and a flush that may still be committed holds the live image   *)
(* of every region that no command changed outside a transaction           *)
(* (FlushInv), because begin makes the revision of every older flush stale.*)
(***************************************************************************)
EXTENDS HostAuthorization, TLAPS

TxPcs == {"idle", "store", "restore", "confirm", "confirm_restore", "activate",
          "settle", "refuse", "finish", "dropped"}
Txs == [pc : TxPcs, region : AuthRegions, next : Images, pairing : BOOLEAN]
FlushPcs == AuthRegions \cup {"idle", "commit"}
Snapshots == UNION {[D -> Images] : D \in SUBSET AuthRegions}
Flushes == [pc : FlushPcs, current : BOOLEAN, image : Snapshots]

HostTypes ==
    /\ HTypeOK
    /\ tx \in Txs /\ flush \in Flushes
    /\ owed \in [AuthRegions -> SUBSET Images]
    /\ loose \in [AuthRegions -> BOOLEAN] /\ ~loose["grants"]
    /\ \A r \in AuthRegions : files[r] \in disk[r]

(* What a restart may restore, and the live image, are owed. *)
KeptOwed == \A r \in AuthRegions : ~loose[r] => disk[r] \subseteq owed[r] /\ mem[r] \in owed[r]

(* Outside the region of the running transaction the live image is stored. *)
AtRest == \A r \in AuthRegions : ~loose[r] /\ (owned => tx.region # r) => mem[r] = files[r]

(* What each stage of a transaction knows of its region. *)
TxInv ==
    LET r == tx.region
    IN  /\ tx.pc \notin {"idle", "dropped"} => owned
        /\ tx.pc \in {"store", "confirm", "activate", "settle"} => tx.next \in owed[r]
        /\ tx.pc \in {"activate", "settle"} => files[r] = tx.next /\ disk[r] = {tx.next}
        /\ tx.pc = "settle" => mem[r] = tx.next
        /\ tx.pc = "refuse" => files[r] = mem[r] /\ disk[r] = {mem[r]}
        /\ tx.pc = "finish" => files[r] = mem[r] /\ ~loose[r]

(* A flush whose revision is current holds the live images. *)
FlushInv ==
    /\ flush.current => /\ ~owned
                        /\ \A r \in DOMAIN flush.image : ~loose[r] => flush.image[r] = mem[r]
    /\ flush.pc = "grants" => DOMAIN flush.image = {}
    /\ flush.pc = "accesses" => DOMAIN flush.image = {"grants"}
    /\ flush.pc = "commit" => DOMAIN flush.image = AuthRegions

HostInv == HostTypes /\ KeptOwed /\ AtRest /\ TxInv /\ FlushInv

----------------------------------------------------------------------------
(* The file store *)

(* A file of each region is among the images a power loss may leave. *)
StoreOK(fs) ==
    /\ fs.files \in [AuthRegions -> Images]
    /\ fs.disk \in [AuthRegions -> SUBSET Images]
    /\ \A q \in AuthRegions : fs.files[q] \in fs.disk[q]

(* What a write of region r changes, whichever way it ends: other regions  *)
(* keep their file and may only lose what a power loss could bring back.   *)
LEMMA StoreFacts ==
  ASSUME NEW fs, StoreOK(fs), NEW r \in AuthRegions, NEW image \in Images,
         NEW o \in StoreOutcomes, NEW s, s = StoreResult(fs, r, image, o)
  PROVE  /\ StoreOK(s)
         /\ \A q \in AuthRegions : q # r => s.files[q] = fs.files[q] /\ s.disk[q] \subseteq fs.disk[q]
         /\ s.files[r] \in {fs.files[r], image}
         /\ s.disk[r] \subseteq fs.disk[r] \cup {image}
         /\ o # "failed" => s.files[r] = image
         /\ o = "stored" => s.disk[r] = {image}
<1> DEFINE renamed == [fs.files EXCEPT ![r] = image]
<1>1. /\ renamed \in [AuthRegions -> Images] /\ renamed[r] = image
      /\ \A q \in AuthRegions : q # r => renamed[q] = fs.files[q]
  BY DEF StoreOK
<1> HIDE DEF renamed
<1>2. CASE o = "failed"
  <2>1. s = fs
    BY <1>2 DEF StoreResult
  <2> QED
    BY <1>2, <2>1 DEF StoreOK
<1>3. CASE o = "unconfirmed"
  <2> DEFINE d == [fs.disk EXCEPT ![r] = fs.disk[r] \cup {image}]
  <2>1. s.files = renamed /\ s.disk = d
    BY <1>3, Zenon DEF StoreResult, renamed
  <2>2. /\ d \in [AuthRegions -> SUBSET Images] /\ d[r] = fs.disk[r] \cup {image}
        /\ \A q \in AuthRegions : q # r => d[q] = fs.disk[q]
    BY DEF StoreOK
  <2> HIDE DEF d
  <2> QED
    BY <1>1, <1>3, <2>1, <2>2 DEF StoreOK
<1>4. CASE o = "stored"
  <2>1. s.files = renamed /\ s.disk = sync_directory(renamed)
    BY <1>4 DEF StoreResult, renamed
  <2>2. /\ sync_directory(renamed) \in [AuthRegions -> SUBSET Images]
        /\ \A q \in AuthRegions : sync_directory(renamed)[q] = {renamed[q]}
    BY <1>1 DEF sync_directory
  <2> QED
    BY <1>1, <1>4, <2>1, <2>2 DEF StoreOK
<1> QED
  BY <1>2, <1>3, <1>4 DEF StoreOutcomes

(* Syncing the directory leaves the files as they are and nothing else. *)
LEMMA SyncFacts ==
  ASSUME NEW f \in [AuthRegions -> Images]
  PROVE  /\ sync_directory(f) \in [AuthRegions -> SUBSET Images]
         /\ \A q \in AuthRegions : sync_directory(f)[q] = {f[q]}
BY DEF sync_directory

(* The resting records of the router and of the worker. *)
LEMMA RestingTypes ==
  /\ NoTx \in Txs /\ NoTx.pc = "idle"
  /\ NoFlush \in Flushes /\ NoFlush.pc = "idle" /\ NoFlush.current = FALSE
  /\ DOMAIN NoFlush.image = {}
<1>1. (CHOOSE i \in Images : TRUE) \in Images
  BY ImagesAssumption
<1>2. NoTx \in Txs /\ NoTx.pc = "idle"
  BY <1>1 DEF NoTx, Txs, TxPcs, AuthRegions
<1>3. [r \in {} |-> Unknown] \in [{} -> Images]
  OBVIOUS
<1>4. [r \in {} |-> Unknown] \in Snapshots
  BY <1>3 DEF Snapshots
<1> QED
  BY <1>2, <1>4 DEF NoFlush, Flushes, FlushPcs

\* A freshly started host has nothing in flight, and its files hold its tables.
LEMMA InitHost == HInit => HostInv
<1> SUFFICES ASSUME HInit PROVE HostInv
  OBVIOUS
<1>1. PICK i \in Images : mem = [r \in AuthRegions |-> i]
  BY DEF HInit
<1>2. /\ files = mem /\ disk = [r \in AuthRegions |-> {files[r]}] /\ owed = disk
      /\ mark = [r \in AuthRegions |-> Unknown] /\ owned = FALSE /\ router = TRUE
      /\ tx = NoTx /\ flush = NoFlush /\ loose = [r \in AuthRegions |-> FALSE]
  BY DEF HInit
<1>3. HostTypes
  <2>1. mem \in [AuthRegions -> Images] /\ files \in [AuthRegions -> Images]
    BY <1>1, <1>2
  <2>2. disk \in [AuthRegions -> SUBSET Images] /\ owed \in [AuthRegions -> SUBSET Images]
    BY <1>2, <2>1
  <2>3. /\ mark \in [AuthRegions -> Images \cup {Unknown}]
        /\ loose \in [AuthRegions -> BOOLEAN] /\ ~loose["grants"]
    BY <1>2 DEF AuthRegions
  <2>4. \A r \in AuthRegions : files[r] \in disk[r]
    BY <1>2
  <2>5. tx \in Txs /\ flush \in Flushes /\ tx.pc = "idle" /\ flush.pc = "idle"
    BY <1>2, RestingTypes
  <2> QED
    BY <1>2, <2>1, <2>2, <2>3, <2>4, <2>5, Zenon DEF HostTypes, HTypeOK
<1>4. KeptOwed /\ AtRest
  BY <1>1, <1>2 DEF KeptOwed, AtRest
<1>5. TxInv /\ FlushInv
  BY <1>2, RestingTypes DEF TxInv, FlushInv
<1> QED
  BY <1>3, <1>4, <1>5 DEF HostInv

----------------------------------------------------------------------------
(* Transactions *)

(* A step to the next stage of the transaction changes only the stage. *)
LEMMA TxMoves ==
  ASSUME tx \in Txs, NEW p \in TxPcs, tx' = [tx EXCEPT !.pc = p]
  PROVE  /\ tx' \in Txs /\ tx'.pc = p
         /\ tx'.region = tx.region /\ tx'.next = tx.next /\ tx'.pairing = tx.pairing
BY DEF Txs

(* The fields of the two records. *)
LEMMA HostFields ==
  ASSUME HostTypes
  PROVE  /\ tx.pc \in TxPcs /\ tx.region \in AuthRegions /\ tx.next \in Images
         /\ tx.pairing \in BOOLEAN
         /\ flush.pc \in FlushPcs /\ flush.current \in BOOLEAN /\ flush.image \in Snapshots
BY DEF HostTypes, Txs, Flushes

(* The store as a record satisfies what its variables do. *)
LEMMA StoreIsOK ==
  ASSUME HostTypes
  PROVE  StoreOK(Store) /\ Store.files = files /\ Store.disk = disk
BY DEF HostTypes, HTypeOK, StoreOK, Store

(* What a write of the region of the running transaction must show. *)
LEMMA WriteKeeps ==
  ASSUME HostInv, owned, NEW image \in Images, NEW o \in StoreOutcomes,
         ~loose[tx.region] => image \in owed[tx.region],
         Put(StoreResult(Store, tx.region, image, o)),
         NEW p \in {"dropped", "activate", "restore", "confirm", "refuse", "confirm_restore"},
         tx' = [tx EXCEPT !.pc = p],
         p = "activate" => o = "stored" /\ image = tx.next /\ tx.next \in owed[tx.region],
         p = "confirm" => tx.next \in owed[tx.region],
         p = "refuse" => o = "stored" /\ image = mem[tx.region],
         router' \in BOOLEAN,
         UNCHANGED <<mem, mark, owned, flush, owed, loose>>
  PROVE  HostInv'
<1> DEFINE s == StoreResult(Store, tx.region, image, o)
           r == tx.region
<1>0. HostTypes /\ KeptOwed /\ AtRest /\ TxInv /\ FlushInv
  BY DEF HostInv
<1>1. r \in AuthRegions /\ StoreOK(Store) /\ Store.files = files /\ Store.disk = disk
  BY <1>0, HostFields, StoreIsOK
<1>2. /\ StoreOK(s)
      /\ \A q \in AuthRegions : q # r => s.files[q] = files[q] /\ s.disk[q] \subseteq disk[q]
      /\ s.disk[r] \subseteq disk[r] \cup {image}
      /\ o # "failed" => s.files[r] = image
      /\ o = "stored" => s.disk[r] = {image}
  BY <1>1, StoreFacts
<1>3. files' = s.files /\ disk' = s.disk
  BY DEF Put
<1> HIDE DEF s
<1>4. /\ tx' \in Txs /\ tx'.pc = p /\ tx'.region = r /\ tx'.next = tx.next
  <2>1. p \in TxPcs
    BY DEF TxPcs
  <2> QED
    BY <1>0, <2>1, TxMoves DEF HostTypes
<1>5. HostTypes'
  <2>1. files' \in [AuthRegions -> Images] /\ disk' \in [AuthRegions -> SUBSET Images]
    BY <1>2, <1>3 DEF StoreOK
  <2>2. \A q \in AuthRegions : files'[q] \in disk'[q]
    BY <1>2, <1>3 DEF StoreOK
  <2>3. tx'.pc \in TxPcs
    BY <1>4 DEF TxPcs
  <2> QED
    BY <1>0, <1>4, <2>1, <2>2, <2>3 DEF HostTypes, HTypeOK, TxPcs
<1>6. KeptOwed'
  BY <1>0, <1>2, <1>3 DEF KeptOwed
<1>7. AtRest'
  BY <1>0, <1>2, <1>3, <1>4 DEF AtRest
<1>8. TxInv'
  BY <1>0, <1>2, <1>3, <1>4 DEF TxInv
<1>9. FlushInv'
  BY <1>0 DEF FlushInv
<1> QED
  BY <1>5, <1>6, <1>7, <1>8, <1>9 DEF HostInv

(* The transaction's own write, run by the router or left in its queue. *)
LEMMA StoreWithKeeps ==
  ASSUME HostInv, store_with
  PROVE  HostInv'
<1>1. PICK o \in StoreOutcomes :
        /\ Put(StoreResult(Store, tx.region, tx.next, o))
        /\ tx' = [tx EXCEPT !.pc = IF router THEN AfterStore(o) ELSE "dropped"]
  BY DEF store_with
<1> DEFINE p == IF router THEN AfterStore(o) ELSE "dropped"
<1>2. /\ p \in {"dropped", "activate", "restore", "confirm", "refuse", "confirm_restore"}
      /\ p = "activate" => o = "stored"
      /\ p # "refuse"
  <2>1. CASE ~router
    BY <2>1
  <2>2. CASE router /\ o = "stored"
    BY <2>2 DEF AfterStore
  <2>3. CASE router /\ o = "failed"
    BY <2>3 DEF AfterStore
  <2>4. CASE router /\ o = "unconfirmed"
    BY <2>4 DEF AfterStore
  <2> QED
    BY <2>1, <2>2, <2>3, <2>4 DEF StoreOutcomes
<1>3. tx' = [tx EXCEPT !.pc = p]
  BY <1>1
<1> HIDE DEF p
<1>4. /\ owned /\ tx.next \in Images /\ tx.next \in owed[tx.region] /\ router' \in BOOLEAN
      /\ UNCHANGED <<mem, mark, owned, flush, owed, loose>>
  BY HostFields DEF store_with, HostInv, TxInv, HostTypes, HTypeOK
<1> QED
  BY <1>1, <1>2, <1>3, <1>4, WriteKeeps

(* Writing the live image back after a failed write. *)
LEMMA RestoreKeeps ==
  ASSUME HostInv, restore_snapshot
  PROVE  HostInv'
<1>1. PICK o \in StoreOutcomes :
        /\ Put(StoreResult(Store, tx.region, mem[tx.region], o))
        /\ router' = (router /\ o # "failed")
        /\ tx' = [tx EXCEPT !.pc = IF ~router' THEN "dropped"
                                  ELSE IF o = "stored" THEN "refuse" ELSE "confirm_restore"]
  BY DEF restore_snapshot
<1> DEFINE p == IF ~router' THEN "dropped"
                ELSE IF o = "stored" THEN "refuse" ELSE "confirm_restore"
<1>0. router \in BOOLEAN
  BY DEF HostInv, HostTypes, HTypeOK
<1>2. /\ p \in {"dropped", "activate", "restore", "confirm", "refuse", "confirm_restore"}
      /\ p = "refuse" => o = "stored"
      /\ p # "activate" /\ p # "confirm"
  BY <1>1 DEF StoreOutcomes
<1>3. tx' = [tx EXCEPT !.pc = p]
  BY <1>1
<1>4. router' \in BOOLEAN
  BY <1>0, <1>1
<1> HIDE DEF p
<1>5. /\ owned /\ mem[tx.region] \in Images
      /\ ~loose[tx.region] => mem[tx.region] \in owed[tx.region]
      /\ UNCHANGED <<mem, mark, owned, flush, owed, loose>>
  BY HostFields DEF restore_snapshot, HostInv, KeptOwed, HostTypes, HTypeOK
<1> QED
  BY <1>1, <1>2, <1>3, <1>4, <1>5, WriteKeeps

(* A transaction begins: the revision of every flush under way is stale. *)
LEMMA BeginKeeps ==
  ASSUME HostInv, NEW r \in AuthRegions, NEW image \in Images, NEW pairing \in BOOLEAN,
         begin(r, image, pairing)
  PROVE  HostInv'
<1> DEFINE p == IF ~pairing /\ image = mem[r] THEN "finish" ELSE "store"
<1>0. HostTypes /\ KeptOwed /\ AtRest /\ TxInv /\ FlushInv
  BY DEF HostInv
<1>1. /\ r = "accesses" => pairing
      /\ ~owned /\ owned' = TRUE /\ flush' = [flush EXCEPT !.current = FALSE]
      /\ tx' = [pc |-> p, region |-> r, next |-> image, pairing |-> pairing]
      /\ owed' = [owed EXCEPT ![r] = owed[r] \cup {image}]
      /\ UNCHANGED <<mem, files, disk, mark, router, loose>>
  BY DEF begin
<1>2. p \in TxPcs /\ p \in {"finish", "store"}
  BY DEF TxPcs
<1>3. p = "finish" => files[r] = mem[r] /\ ~loose[r]
  <2>1. p = "finish" => r = "grants"
    BY <1>1 DEF AuthRegions
  <2> QED
    BY <1>0, <1>1, <2>1 DEF HostTypes, AtRest
<1> HIDE DEF p
<1>4. tx' \in Txs /\ tx'.pc = p /\ tx'.region = r /\ tx'.next = image
  BY <1>1, <1>2 DEF Txs
<1>5. /\ flush' \in Flushes /\ flush'.current = FALSE
      /\ flush'.pc = flush.pc /\ flush'.image = flush.image
  BY <1>0, <1>1, Zenon DEF HostTypes, Flushes
<1>6. /\ owed' \in [AuthRegions -> SUBSET Images] /\ image \in owed'[r]
      /\ \A q \in AuthRegions : owed[q] \subseteq owed'[q]
  BY <1>0, <1>1 DEF HostTypes
<1>7. HostTypes'
  BY <1>0, <1>1, <1>2, <1>4, <1>5, <1>6, HostFields DEF HostTypes, HTypeOK, TxPcs, FlushPcs
<1>8. KeptOwed' /\ AtRest'
  BY <1>0, <1>1, <1>4, <1>6 DEF KeptOwed, AtRest
<1>9. TxInv'
  BY <1>1, <1>2, <1>3, <1>4, <1>6 DEF TxInv
<1>10. FlushInv'
  BY <1>0, <1>5 DEF FlushInv
<1> QED
  BY <1>7, <1>8, <1>9, <1>10 DEF HostInv

(* A step that only moves the transaction on, with the files as they are.  *)
LEMMA StageKeeps ==
  ASSUME HostInv, NEW p \in TxPcs, tx' = [tx EXCEPT !.pc = p],
         p \notin {"idle", "dropped"} => owned,
         p \in {"store", "confirm"} => tx.next \in owed[tx.region],
         p \notin {"activate", "settle", "refuse", "finish"},
         router' \in BOOLEAN,
         UNCHANGED <<mem, files, disk, mark, owned, flush, owed, loose>>
  PROVE  HostInv'
<1>0. HostTypes /\ KeptOwed /\ AtRest /\ TxInv /\ FlushInv
  BY DEF HostInv
<1>1. tx' \in Txs /\ tx'.pc = p /\ tx'.region = tx.region /\ tx'.next = tx.next
  BY <1>0, TxMoves DEF HostTypes
<1>2. HostTypes'
  BY <1>0, <1>1 DEF HostTypes, HTypeOK, TxPcs
<1>3. KeptOwed' /\ AtRest' /\ FlushInv'
  BY <1>0, <1>1 DEF KeptOwed, AtRest, FlushInv
<1>4. TxInv'
  BY <1>0, <1>1 DEF TxInv
<1> QED
  BY <1>2, <1>3, <1>4 DEF HostInv

(* A round of the confirmation loop settles the directory. *)
LEMMA ConfirmKeeps ==
  ASSUME HostInv, confirm_store
  PROVE  HostInv'
<1> DEFINE p == IF ~router THEN "dropped" ELSE IF tx.pc = "confirm" THEN "activate" ELSE "refuse"
           r == tx.region
<1>0. HostTypes /\ KeptOwed /\ AtRest /\ TxInv /\ FlushInv
  BY DEF HostInv
<1>1. /\ owned /\ tx.pc \in {"confirm", "confirm_restore"}
      /\ files[r] = (IF tx.pc = "confirm" THEN tx.next ELSE mem[r])
      /\ disk' = sync_directory(files) /\ tx' = [tx EXCEPT !.pc = p]
      /\ UNCHANGED <<mem, files, mark, owned, router, flush, owed, loose>>
  BY DEF confirm_store
<1>2. /\ p \in TxPcs /\ p \in {"dropped", "activate", "refuse"}
      /\ p = "activate" => tx.pc = "confirm"
      /\ p = "refuse" => tx.pc = "confirm_restore"
      /\ p = "activate" => files[r] = tx.next
      /\ p = "refuse" => files[r] = mem[r]
  BY <1>1 DEF TxPcs
<1> HIDE DEF p
<1>3. tx' \in Txs /\ tx'.pc = p /\ tx'.region = r /\ tx'.next = tx.next
  BY <1>0, <1>1, <1>2, TxMoves DEF HostTypes
<1>4. /\ disk' \in [AuthRegions -> SUBSET Images]
      /\ \A q \in AuthRegions : disk'[q] = {files[q]}
  BY <1>0, <1>1, SyncFacts DEF HostTypes, HTypeOK
<1>5. r \in AuthRegions /\ \A q \in AuthRegions : files[q] \in disk[q]
  BY <1>0, HostFields DEF HostTypes
<1>6. HostTypes'
  BY <1>0, <1>1, <1>2, <1>3, <1>4 DEF HostTypes, HTypeOK, TxPcs
<1>7. KeptOwed' /\ AtRest' /\ FlushInv'
  BY <1>0, <1>1, <1>3, <1>4, <1>5 DEF KeptOwed, AtRest, FlushInv
<1>8. TxInv'
  BY <1>0, <1>1, <1>2, <1>3, <1>4, <1>5 DEF TxInv
<1> QED
  BY <1>6, <1>7, <1>8 DEF HostInv

(* The confirmed image becomes the live one. *)
LEMMA ActivateKeeps ==
  ASSUME HostInv, activate
  PROVE  HostInv'
<1> DEFINE r == tx.region
<1>0. HostTypes /\ KeptOwed /\ AtRest /\ TxInv /\ FlushInv
  BY DEF HostInv
<1>1. /\ tx.pc = "activate" /\ mem' = [mem EXCEPT ![r] = tx.next]
      /\ tx' = [tx EXCEPT !.pc = "settle"]
      /\ UNCHANGED <<files, disk, mark, owned, router, flush, owed, loose>>
  BY DEF activate
<1>2. "settle" \in TxPcs /\ r \in AuthRegions /\ tx.next \in Images
  BY <1>0, HostFields DEF TxPcs
<1>3. tx' \in Txs /\ tx'.pc = "settle" /\ tx'.region = r /\ tx'.next = tx.next
  BY <1>0, <1>1, <1>2, TxMoves DEF HostTypes
<1>4. /\ mem' \in [AuthRegions -> Images] /\ mem'[r] = tx.next
      /\ \A q \in AuthRegions : q # r => mem'[q] = mem[q]
  BY <1>0, <1>1, <1>2 DEF HostTypes, HTypeOK
<1>5. /\ owned /\ tx.next \in owed[r] /\ files[r] = tx.next /\ disk[r] = {tx.next}
      /\ ~flush.current
  BY <1>0, <1>1 DEF TxInv, FlushInv
<1>6. HostTypes'
  BY <1>0, <1>1, <1>3, <1>4 DEF HostTypes, HTypeOK
<1>7. KeptOwed' /\ AtRest'
  BY <1>0, <1>1, <1>3, <1>4, <1>5 DEF KeptOwed, AtRest
<1>8. TxInv' /\ FlushInv'
  BY <1>0, <1>1, <1>3, <1>4, <1>5 DEF TxInv, FlushInv
<1> QED
  BY <1>6, <1>7, <1>8 DEF HostInv

(* The outcome is told: from here only the told image may be restored. *)
LEMMA SettleKeeps ==
  ASSUME HostInv, NEW image \in Images, settle(image), owned,
         files[tx.region] = image, mem[tx.region] = image, disk[tx.region] = {image}
  PROVE  HostInv'
<1> DEFINE r == tx.region
<1>0. HostTypes /\ KeptOwed /\ AtRest /\ TxInv /\ FlushInv
  BY DEF HostInv
<1>1. /\ tx' = [tx EXCEPT !.pc = "finish"] /\ owed' = [owed EXCEPT ![r] = {image}]
      /\ loose' = [loose EXCEPT ![r] = FALSE]
      /\ UNCHANGED <<mem, files, disk, mark, owned, router, flush>>
  BY DEF settle
<1>2. "finish" \in TxPcs /\ r \in AuthRegions
  BY <1>0, HostFields DEF TxPcs
<1>3. tx' \in Txs /\ tx'.pc = "finish" /\ tx'.region = r
  BY <1>0, <1>1, <1>2, TxMoves DEF HostTypes
<1>4. /\ owed' \in [AuthRegions -> SUBSET Images] /\ owed'[r] = {image}
      /\ loose' \in [AuthRegions -> BOOLEAN] /\ loose'[r] = FALSE /\ ~loose'["grants"]
      /\ \A q \in AuthRegions : q # r => owed'[q] = owed[q] /\ loose'[q] = loose[q]
  BY <1>0, <1>1, <1>2, Zenon DEF HostTypes, AuthRegions
<1>5. ~flush.current
  BY <1>0 DEF FlushInv
<1>6. HostTypes'
  BY <1>0, <1>1, <1>3, <1>4 DEF HostTypes, HTypeOK
<1>7. KeptOwed' /\ AtRest'
  BY <1>0, <1>1, <1>3, <1>4 DEF KeptOwed, AtRest
<1>8. TxInv' /\ FlushInv'
  BY <1>0, <1>1, <1>3, <1>4, <1>5 DEF TxInv, FlushInv
<1> QED
  BY <1>6, <1>7, <1>8 DEF HostInv

\* A settlement, whether of a stored image or of a failed one, reports what the
\* file and the table already agree on.
LEMMA SettlesKeep ==
  ASSUME HostInv, SettlePersisted \/ SettleFailed
  PROVE  HostInv'
<1>0. HostTypes /\ TxInv
  BY DEF HostInv
<1>1. tx.next \in Images /\ mem[tx.region] \in Images
  BY <1>0, HostFields DEF HostTypes, HTypeOK
<1>2. CASE SettlePersisted
  <2>1. tx.pc = "settle" /\ settle(tx.next)
    BY <1>2 DEF SettlePersisted
  <2>2. /\ owned /\ files[tx.region] = tx.next /\ mem[tx.region] = tx.next
        /\ disk[tx.region] = {tx.next}
    BY <1>0, <2>1 DEF TxInv
  <2> QED
    BY <1>1, <2>1, <2>2, SettleKeeps
<1>3. CASE SettleFailed
  <2>1. tx.pc = "refuse" /\ settle(mem[tx.region])
    BY <1>3 DEF SettleFailed
  <2>2. owned /\ files[tx.region] = mem[tx.region] /\ disk[tx.region] = {mem[tx.region]}
    BY <1>0, <2>1 DEF TxInv
  <2> QED
    BY <1>1, <2>1, <2>2, SettleKeeps
<1> QED
  BY <1>2, <1>3

(* The router ends on a settlement it could not deliver, or is dropped. *)
LEMMA RouterEndsKeeps ==
  ASSUME HostInv, SettlementRefused \/ DropRouter
  PROVE  HostInv'
<1>0. HostTypes /\ TxInv
  BY DEF HostInv
<1>1. CASE SettlementRefused
  <2>1. "dropped" \in TxPcs
    BY DEF TxPcs
  <2> QED
    BY <1>1, <2>1, StageKeeps, Zenon DEF SettlementRefused
<1>2. CASE DropRouter
  <2> DEFINE p == IF tx.pc \in {"store", "restore", "confirm", "confirm_restore"}
                  THEN tx.pc ELSE "dropped"
  <2>1. tx' = [tx EXCEPT !.pc = p]
    BY <1>2 DEF DropRouter
  <2>2. p \in {"store", "restore", "confirm", "confirm_restore", "dropped"} /\ p \in TxPcs
    BY DEF TxPcs
  <2>3. /\ p \notin {"idle", "dropped"} => owned
        /\ p \in {"store", "confirm"} => tx.next \in owed[tx.region]
    BY <1>0 DEF TxInv
  <2> HIDE DEF p
  <2>4. /\ router' \in BOOLEAN
        /\ UNCHANGED <<mem, files, disk, mark, owned, flush, owed, loose>>
    BY <1>2, Zenon DEF DropRouter
  <2>5. p \notin {"activate", "settle", "refuse", "finish"}
    BY <2>2
  <2> QED
    BY <2>1, <2>2, <2>3, <2>4, <2>5, StageKeeps
<1> QED
  BY <1>1, <1>2

(* The storage is given back with the live image on file. *)
LEMMA FinishKeeps ==
  ASSUME HostInv, finish
  PROVE  HostInv'
<1>0. HostTypes /\ KeptOwed /\ AtRest /\ TxInv /\ FlushInv
  BY DEF HostInv
<1>1. /\ tx.pc = "finish" /\ owned /\ owned' = FALSE /\ tx' = NoTx
      /\ UNCHANGED <<mem, files, disk, mark, router, flush, owed, loose>>
  BY DEF finish
<1>2. tx' \in Txs /\ tx'.pc = "idle"
  BY <1>1, RestingTypes
<1>3. HostTypes'
  BY <1>0, <1>1, <1>2, Zenon DEF HostTypes, HTypeOK
<1>4. \A r \in AuthRegions : ~loose[r] => mem[r] = files[r]
  BY <1>0, <1>1 DEF AtRest, TxInv
<1>5. KeptOwed' /\ AtRest' /\ TxInv' /\ FlushInv'
  BY <1>0, <1>1, <1>2, <1>4 DEF KeptOwed, AtRest, TxInv, FlushInv
<1> QED
  BY <1>3, <1>5 DEF HostInv

(* A command changes the live accesses outside any transaction. *)
LEMMA SetOrForgetKeeps ==
  ASSUME HostInv, NEW image \in Images, SetOrForgetTarget(image)
  PROVE  HostInv'
<1>0. HostTypes /\ KeptOwed /\ AtRest /\ TxInv /\ FlushInv
  BY DEF HostInv
<1>1. /\ tx.pc = "idle" /\ mem' = [mem EXCEPT !["accesses"] = image]
      /\ owed' = [owed EXCEPT !["accesses"] = owed["accesses"] \cup {image}]
      /\ loose' = [loose EXCEPT !["accesses"] = TRUE]
      /\ UNCHANGED <<files, disk, mark, owned, router, tx, flush>>
  BY DEF SetOrForgetTarget, RouterIdle
<1>2. "accesses" \in AuthRegions /\ "grants" \in AuthRegions /\ "grants" # "accesses"
  BY DEF AuthRegions
<1>3. /\ mem' \in [AuthRegions -> Images]
      /\ owed' \in [AuthRegions -> SUBSET Images]
      /\ loose' \in [AuthRegions -> BOOLEAN] /\ loose'["accesses"]
      /\ \A q \in AuthRegions : q # "accesses" =>
           mem'[q] = mem[q] /\ owed'[q] = owed[q] /\ loose'[q] = loose[q]
  BY <1>0, <1>1, <1>2 DEF HostTypes, HTypeOK
<1>4. HostTypes'
  BY <1>0, <1>1, <1>2, <1>3 DEF HostTypes, HTypeOK
<1>5. KeptOwed' /\ AtRest'
  BY <1>0, <1>1, <1>3 DEF KeptOwed, AtRest
<1>6. TxInv'
  BY <1>1 DEF TxInv
<1>7. FlushInv'
  <2>1. flush.image \in Snapshots
    BY <1>0, HostFields
  <2>2. DOMAIN flush.image \subseteq AuthRegions
    BY <2>1 DEF Snapshots
  <2> QED
    BY <1>0, <1>1, <1>3, <2>2 DEF FlushInv
<1> QED
  BY <1>4, <1>5, <1>6, <1>7 DEF HostInv

----------------------------------------------------------------------------
(* The flush *)

(* A flush starts, only while no transaction owns the storage. *)
LEMMA RevisionKeeps ==
  ASSUME HostInv, flush_revision
  PROVE  HostInv'
<1>0. HostTypes /\ KeptOwed /\ AtRest /\ TxInv /\ FlushInv
  BY DEF HostInv
<1>1. /\ ~owned /\ flush' = [NoFlush EXCEPT !.pc = "grants", !.current = TRUE]
      /\ UNCHANGED <<mem, files, disk, mark, owned, router, tx, owed, loose>>
  BY DEF flush_revision
<1>2. /\ flush' \in Flushes /\ flush'.pc = "grants" /\ flush'.image = NoFlush.image
      /\ DOMAIN flush'.image = {}
  <2>1. "grants" \in FlushPcs
    BY DEF FlushPcs, AuthRegions
  <2> QED
    BY <1>1, <2>1, RestingTypes, Zenon DEF Flushes
<1>3. HostTypes'
  BY <1>0, <1>1, <1>2 DEF HostTypes, HTypeOK, FlushPcs, AuthRegions
<1>4. KeptOwed' /\ AtRest' /\ TxInv'
  BY <1>0, <1>1 DEF KeptOwed, AtRest, TxInv
<1>5. FlushInv'
  BY <1>1, <1>2 DEF FlushInv
<1> QED
  BY <1>3, <1>4, <1>5 DEF HostInv

(* One more snapshot: the live image of its region. *)
LEMMA PrepareKeeps ==
  ASSUME HostInv, prepare_flush
  PROVE  HostInv'
<1> DEFINE p == IF flush.pc = "grants" THEN "accesses" ELSE "commit"
           D == DOMAIN flush.image \cup {flush.pc}
           im == [r \in D |-> IF r = flush.pc THEN mem[r] ELSE flush.image[r]]
<1>0. HostTypes /\ KeptOwed /\ AtRest /\ TxInv /\ FlushInv
  BY DEF HostInv
<1>1. /\ flush.pc \in AuthRegions
      /\ flush' = IF ~router THEN NoFlush ELSE [flush EXCEPT !.pc = p, !.image = im]
      /\ UNCHANGED <<mem, files, disk, mark, owned, router, tx, owed, loose>>
  BY DEF prepare_flush
<1>2. KeptOwed' /\ AtRest' /\ TxInv'
  BY <1>0, <1>1 DEF KeptOwed, AtRest, TxInv
<1>3. CASE ~router
  <2>1. flush' = NoFlush
    BY <1>1, <1>3
  <2>2. HostTypes'
    BY <1>0, <1>1, <2>1, RestingTypes, Zenon DEF HostTypes, HTypeOK
  <2>3. FlushInv'
    BY <2>1, RestingTypes DEF FlushInv
  <2> QED
    BY <1>2, <2>2, <2>3 DEF HostInv
<1>4. CASE router
  <2>1. flush.image \in Snapshots /\ mem \in [AuthRegions -> Images]
    BY <1>0, HostFields DEF HostTypes, HTypeOK
  <2>2. /\ DOMAIN flush.image \subseteq AuthRegions
        /\ \A r \in DOMAIN flush.image : flush.image[r] \in Images
    BY <2>1 DEF Snapshots
  <2>3. /\ D \subseteq AuthRegions /\ im \in [D -> Images] /\ DOMAIN im = D
        /\ \A r \in D : im[r] = IF r = flush.pc THEN mem[r] ELSE flush.image[r]
    BY <1>1, <2>1, <2>2
  <2>4. im \in Snapshots
    BY <2>3 DEF Snapshots
  <2>5. p \in FlushPcs /\ p \in {"accesses", "commit"}
    BY DEF FlushPcs, AuthRegions
  <2>6. /\ p = "accesses" => D = {"grants"}
        /\ p = "commit" => D = AuthRegions
    BY <1>0, <1>1 DEF FlushInv, AuthRegions
  <2> HIDE DEF p, D, im
  <2>7. flush' = [flush EXCEPT !.pc = p, !.image = im]
    BY <1>1, <1>4
  <2>8. /\ flush' \in Flushes /\ flush'.pc = p /\ flush'.image = im
        /\ flush'.current = flush.current
    BY <1>0, <2>4, <2>5, <2>7, Zenon DEF HostTypes, Flushes
  <2>9. HostTypes'
    BY <1>0, <1>1, <2>5, <2>8 DEF HostTypes, HTypeOK, FlushPcs
  <2>10. \A r \in D : ~loose[r] /\ flush.current => im[r] = mem[r]
    BY <1>0, <2>3 DEF FlushInv, D
  <2>11. FlushInv'
    <3>1. DOMAIN flush'.image = D
      BY <2>3, <2>8
    <3> QED
      BY <1>0, <1>1, <2>5, <2>6, <2>8, <2>10, <3>1 DEF FlushInv
  <2> QED
    BY <1>2, <2>9, <2>11 DEF HostInv
<1>5. router \in BOOLEAN
  BY <1>0 DEF HostTypes, HTypeOK
<1> QED
  BY <1>3, <1>4, <1>5

(* A point of the commit of a flush: the live image of every region that   *)
(* is not loose is on file, and only owed images may be restored.          *)
CommitOK(w) ==
    /\ StoreOK(w) /\ w.ok \in BOOLEAN
    /\ w.mark \in [AuthRegions -> Images \cup {Unknown}]
    /\ \A r \in AuthRegions : ~loose[r] => w.files[r] = mem[r] /\ w.disk[r] \subseteq owed[r]

(* A current flush that is about to be committed. *)
Committing == flush.pc = "commit" /\ flush.current

(* Writing one region of a current flush. *)
LEMMA RegionCommits ==
  ASSUME HostInv, Committing, NEW w, CommitOK(w), NEW r \in AuthRegions,
         NEW v \in store_changed_region(w, r)
  PROVE  CommitOK(v)
<1>0. HostTypes /\ KeptOwed /\ FlushInv
  BY DEF HostInv
<1>1. /\ flush.image[r] \in Images
      /\ ~loose[r] => flush.image[r] = mem[r] /\ mem[r] \in owed[r]
  <2>1. DOMAIN flush.image = AuthRegions /\ flush.image \in Snapshots
    BY <1>0, HostFields DEF FlushInv, Committing
  <2>2. flush.image[r] \in Images
    BY <2>1 DEF Snapshots
  <2> QED
    BY <1>0, <2>1, <2>2 DEF FlushInv, Committing, KeptOwed
<1>2. CASE flush.image[r] = w.mark[r]
  BY <1>2 DEF store_changed_region
<1>3. CASE flush.image[r] # w.mark[r]
  <2> DEFINE b == [files |-> w.files, disk |-> w.disk]
  <2>1. PICK o \in StoreOutcomes :
          v = LET fs == StoreResult(b, r, flush.image[r], o)
              IN  [files |-> fs.files, disk |-> fs.disk, ok |-> o = "stored",
                   mark |-> IF o = "stored" THEN [w.mark EXCEPT ![r] = flush.image[r]]
                                            ELSE w.mark]
    BY <1>3 DEF store_changed_region
  <2> DEFINE fs == StoreResult(b, r, flush.image[r], o)
  <2>2. StoreOK(b) /\ b.files = w.files /\ b.disk = w.disk
    BY DEF CommitOK, StoreOK
  <2> HIDE DEF b
  <2>3. /\ StoreOK(fs)
        /\ \A q \in AuthRegions : q # r => fs.files[q] = w.files[q] /\ fs.disk[q] \subseteq w.disk[q]
        /\ fs.files[r] \in {w.files[r], flush.image[r]}
        /\ fs.disk[r] \subseteq w.disk[r] \cup {flush.image[r]}
    BY <1>1, <2>2, StoreFacts
  <2>4. /\ v.files = fs.files /\ v.disk = fs.disk /\ v.ok \in BOOLEAN
        /\ v.mark = IF o = "stored" THEN [w.mark EXCEPT ![r] = flush.image[r]] ELSE w.mark
    BY <2>1
  <2> HIDE DEF fs
  <2>5. v.mark \in [AuthRegions -> Images \cup {Unknown}]
    BY <1>1, <2>4 DEF CommitOK
  <2>6. StoreOK(v)
    BY <2>3, <2>4 DEF StoreOK
  <2>7. \A q \in AuthRegions : ~loose[q] => v.files[q] = mem[q] /\ v.disk[q] \subseteq owed[q]
    <3> SUFFICES ASSUME NEW q \in AuthRegions, ~loose[q]
                 PROVE  v.files[q] = mem[q] /\ v.disk[q] \subseteq owed[q]
      OBVIOUS
    <3>1. w.files[q] = mem[q] /\ w.disk[q] \subseteq owed[q]
      BY DEF CommitOK
    <3>2. CASE q = r
      BY <1>1, <2>3, <2>4, <3>1, <3>2
    <3>3. CASE q # r
      BY <2>3, <2>4, <3>1, <3>3
    <3> QED
      BY <3>2, <3>3
  <2> QED
    BY <2>4, <2>5, <2>6, <2>7 DEF CommitOK
<1> QED
  BY <1>2, <1>3

(* Wherever the commit of a current flush ends, what was settled is kept. *)
LEMMA CommitFacts ==
  ASSUME HostInv, Committing, ~owned, NEW w \in commit_to_store
  PROVE  CommitOK(w)
<1> DEFINE t1 == [files |-> files, disk |-> disk, mark |-> mark, ok |-> FALSE]
           t2 == [files |-> files, disk |-> sync_directory(files), mark |-> mark, ok |-> TRUE]
           after(ws, r) == UNION {IF v.ok THEN store_changed_region(v, r) ELSE {v} : v \in ws}
<1>0. HostTypes /\ KeptOwed /\ AtRest
  BY DEF HostInv
<1>1. CommitOK(t1)
  BY <1>0 DEF CommitOK, StoreOK, HostTypes, HTypeOK, KeptOwed, AtRest
<1>2. CommitOK(t2)
  <2>1. /\ sync_directory(files) \in [AuthRegions -> SUBSET Images]
        /\ \A q \in AuthRegions : sync_directory(files)[q] = {files[q]}
    BY <1>0, SyncFacts DEF HostTypes, HTypeOK
  <2>2. \A q \in AuthRegions : ~loose[q] => files[q] = mem[q] /\ {files[q]} \subseteq owed[q]
    BY <1>0 DEF AtRest, KeptOwed
  <2>3. StoreOK(t2)
    BY <1>0, <2>1 DEF StoreOK, HostTypes, HTypeOK
  <2> QED
    BY <1>0, <2>1, <2>2, <2>3 DEF CommitOK, HostTypes, HTypeOK
<1>3. ASSUME NEW ws, \A v \in ws : CommitOK(v), NEW r \in AuthRegions
      PROVE  \A v \in after(ws, r) : CommitOK(v)
  BY <1>3, RegionCommits
<1>4. commit_to_store = after(after({t1, t2}, "grants"), "accesses")
  BY DEF commit_to_store
<1>5. \A v \in {t1, t2} : CommitOK(v)
  BY <1>1, <1>2, Zenon
<1> HIDE DEF t1, t2, after
<1>6. "grants" \in AuthRegions /\ "accesses" \in AuthRegions
  BY DEF AuthRegions
<1>7. \A v \in after({t1, t2}, "grants") : CommitOK(v)
  BY <1>3, <1>5, <1>6
<1>8. \A v \in after(after({t1, t2}, "grants"), "accesses") : CommitOK(v)
  BY <1>3, <1>6, <1>7
<1> QED
  BY <1>4, <1>8

(* The worker commits its flush, or finds it stale. *)
LEMMA CommitKeeps ==
  ASSUME HostInv, commit_flush
  PROVE  HostInv'
<1>0. HostTypes /\ KeptOwed /\ AtRest /\ TxInv /\ FlushInv
  BY DEF HostInv
<1>1. /\ flush.pc = "commit" /\ flush' = NoFlush
      /\ UNCHANGED <<mem, owned, router, tx, loose>>
  BY DEF commit_flush
<1>2. FlushInv'
  BY <1>1, RestingTypes DEF FlushInv
<1>3. CASE ~accepts_flush
  <2>1. UNCHANGED <<files, disk, mark, owed>>
    BY <1>3 DEF commit_flush
  <2>2. HostTypes'
    BY <1>0, <1>1, <2>1, RestingTypes DEF HostTypes, HTypeOK
  <2>3. KeptOwed' /\ AtRest' /\ TxInv'
    BY <1>0, <1>1, <2>1 DEF KeptOwed, AtRest, TxInv
  <2> QED
    BY <1>2, <2>2, <2>3 DEF HostInv
<1>4. CASE accepts_flush
  <2>1. ~owned /\ Committing
    BY <1>1, <1>4 DEF accepts_flush, Committing
  <2>2. PICK w \in commit_to_store :
          /\ Put(w) /\ mark' = w.mark
          /\ owed' = IF w.ok
                     THEN [r \in AuthRegions |-> IF loose[r] THEN {flush.image[r], mem[r]}
                                                              ELSE owed[r]]
                     ELSE owed
    BY <1>4 DEF commit_flush
  <2>3. CommitOK(w)
    BY <2>1, CommitFacts
  <2>4. files' = w.files /\ disk' = w.disk
    BY <2>2 DEF Put
  <2>5. \A r \in AuthRegions : {flush.image[r], mem[r]} \in SUBSET Images
    <3>1. DOMAIN flush.image = AuthRegions /\ flush.image \in Snapshots
      BY <1>0, <2>1, HostFields DEF FlushInv, Committing
    <3>2. \A r \in AuthRegions : flush.image[r] \in Images
      BY <3>1 DEF Snapshots
    <3> QED
      BY <1>0, <3>2 DEF HostTypes, HTypeOK
  <2>6. /\ owed' \in [AuthRegions -> SUBSET Images]
        /\ \A r \in AuthRegions : ~loose[r] => owed'[r] = owed[r]
    <3>1. CASE w.ok
      BY <1>0, <2>2, <2>5, <3>1 DEF HostTypes
    <3>2. CASE ~w.ok
      BY <1>0, <2>2, <3>2 DEF HostTypes
    <3> QED
      BY <3>1, <3>2
  <2>7. HostTypes'
    <3>1. /\ files' \in [AuthRegions -> Images] /\ disk' \in [AuthRegions -> SUBSET Images]
          /\ mark' \in [AuthRegions -> Images \cup {Unknown}]
          /\ \A q \in AuthRegions : files'[q] \in disk'[q]
      BY <2>2, <2>3, <2>4 DEF CommitOK, StoreOK
    <3> QED
      BY <1>0, <1>1, <2>6, <3>1, RestingTypes DEF HostTypes, HTypeOK
  <2>8. KeptOwed' /\ AtRest'
    BY <1>0, <1>1, <2>3, <2>4, <2>6 DEF CommitOK, KeptOwed, AtRest
  <2>9. TxInv'
    BY <1>0, <1>1, <2>1 DEF TxInv
  <2> QED
    BY <1>2, <2>7, <2>8, <2>9 DEF HostInv
<1> QED
  BY <1>3, <1>4

(* The node starts again from what the files hold. *)
LEMMA RestartKeeps ==
  ASSUME HostInv, HostRestart
  PROVE  HostInv'
<1>0. HostTypes
  BY DEF HostInv
<1>1. /\ mem' = files' /\ owed' = disk' /\ mark' = [r \in AuthRegions |-> Unknown]
      /\ owned' = FALSE /\ router' = TRUE /\ tx' = NoTx /\ flush' = NoFlush
      /\ loose' = [r \in AuthRegions |-> FALSE]
  BY DEF HostRestart
<1>2. /\ files' \in [AuthRegions -> Images] /\ disk' \in [AuthRegions -> SUBSET Images]
      /\ \A q \in AuthRegions : files'[q] \in disk'[q]
  <2>1. CASE files' = files /\ disk' = disk
    BY <1>0, <2>1 DEF HostTypes, HTypeOK
  <2>2. CASE files' \in [AuthRegions -> Images] /\ disk' = sync_directory(files')
    BY <2>2, SyncFacts
  <2> QED
    BY <2>1, <2>2 DEF HostRestart
<1>3. /\ mark' \in [AuthRegions -> Images \cup {Unknown}]
      /\ loose' \in [AuthRegions -> BOOLEAN] /\ ~loose'["grants"]
  BY <1>1 DEF AuthRegions
<1>4. HostTypes'
  BY <1>1, <1>2, <1>3, RestingTypes, Zenon DEF HostTypes, HTypeOK
<1>5. KeptOwed' /\ AtRest'
  BY <1>1, <1>2 DEF KeptOwed, AtRest
<1>6. TxInv' /\ FlushInv'
  BY <1>1, RestingTypes DEF TxInv, FlushInv
<1> QED
  BY <1>4, <1>5, <1>6 DEF HostInv

----------------------------------------------------------------------------

(* Every step of the router, the worker and the power keeps the invariant. *)
LEMMA NextHost == HostInv /\ [HNext]_hVars => HostInv'
<1> SUFFICES ASSUME HostInv, [HNext]_hVars PROVE HostInv'
  OBVIOUS
<1>1. CASE RouterStep
  BY <1>1, BeginKeeps, StoreWithKeeps, RestoreKeeps, ConfirmKeeps, ActivateKeeps, SettlesKeep,
     RouterEndsKeeps, FinishKeeps, SetOrForgetKeeps DEF RouterStep
<1>2. CASE WorkerStep
  BY <1>2, RevisionKeeps, PrepareKeeps, CommitKeeps DEF WorkerStep
<1>3. CASE HostRestart
  BY <1>3, RestartKeeps
<1>4. CASE UNCHANGED hVars
  BY <1>4 DEF hVars, HostInv, HostTypes, HTypeOK, KeptOwed, AtRest, TxInv, FlushInv
<1> QED
  BY <1>1, <1>2, <1>3, <1>4 DEF HNext

(* A settled authorization survives power loss, dropped transactions and   *)
(* every flush, a refused one never comes back, and the live grants are    *)
(* the stored ones while no transaction owns the storage.                  *)
THEOREM AuthorizationKept == HSpec => []SettledAuthorizationKept
<1>1. HInit => HostInv
  BY InitHost
<1>2. HostInv /\ [HNext]_hVars => HostInv'
  BY NextHost
<1>3. HostInv => SettledAuthorizationKept
  BY DEF HostInv, HostTypes, KeptOwed, AtRest, SettledAuthorizationKept, AuthRegions
<1> QED
  BY <1>1, <1>2, <1>3, PTL DEF HSpec
============================================================================
