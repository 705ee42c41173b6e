--------------------------- MODULE RouteEvidence ---------------------------
(***************************************************************************)
(* The rows of the routing table and the handles that links keep to them   *)
(* (prns-core: routing/table, routing/routes, engine/route_evidence.rs).   *)
(*                                                                         *)
(* A link remembers the route it was opened over as a handle: the route's  *)
(* evidence id and a hint of its row.  When the link proves that the route *)
(* works, or fails to come up, the engine resolves the handle and marks    *)
(* that row.  Meanwhile rows are swap-removed, a row's path is replaced    *)
(* (which gives it a new id) and ids wrap around and are issued again.     *)
(*                                                                         *)
(* Rows count from 1; an id or a row of 0 is "none".  What a row holds     *)
(* beside its destination and id is left out: no operation here reads it   *)
(* except to tell whether an announce keeps the row's path, which is a     *)
(* free choice.  Which row expires, is nearest expiry or is dropped by a   *)
(* command is a free choice too.  The engine runs one handler at a time,   *)
(* so a handler with a loop is a sequence of steps with "learning" set.    *)
(***************************************************************************)
EXTENDS Integers, Sequences, FiniteSets

CONSTANTS
  Dests,      \* destinations that announce themselves
  Holders,    \* slots for links, own and transported
  RouteSlots, \* capacity of the table
  MaxId,      \* the largest evidence id (u32::MAX)
  MaxHint     \* the largest row hint (u16::MAX), which stands for "the tail"

ASSUME EvidenceAssumption ==
  /\ RouteSlots \in Nat \ {0}
  /\ MaxId \in Nat \ {0}
  /\ MaxHint \in Nat \ {0}

VARIABLES
  rows,       \* the table: a sequence of [dest, id]
  issuer,     \* [next, barrier]: RouteEvidenceIdIssuer
  learning,   \* the accepted announce being entered, or NotLearning
  handles,    \* handles[h]: the handle of the link in slot h, or NoHandle
  at          \* ghost: the row that handles[h] was taken from, 0 once it is gone

evVars == <<rows, issuer, learning, handles, at>>

NoHandle == [id |-> 0, hint |-> 0]
NotLearning == [dest |-> "none", id |-> 0]

Ids == 1 .. MaxId
Rows == 1 .. Len(rows)

----------------------------------------------------------------------------
(* Handles *)

route_evidence_row_hint(row) == IF row < MaxHint THEN row ELSE MaxHint

(* A scan that takes the largest hint for a row. *)
scan_start_at_hint(hint) == IF hint > Len(rows) THEN Len(rows) ELSE hint

(* Where the downward scan of resolve_route_evidence begins. *)
route_evidence_scan_start(hint) ==
  IF hint = MaxHint \/ hint > Len(rows) THEN Len(rows) ELSE hint

(* The row whose id the handle carries, looking from the hint down to row 1. *)
resolve_route_evidence(handle) ==
  LET found == {row \in 1 .. route_evidence_scan_start(handle.hint) :
                  rows[row].id = handle.id}
  IN IF found = {} THEN 0 ELSE CHOOSE row \in found : \A other \in found : other <= row

(* Ids that the holder scan of mint_route_evidence_id sees. *)
HeldIds == {rows[row].id : row \in Rows} \cup
           {handles[h].id : h \in {g \in Holders : handles[g] # NoHandle}}

----------------------------------------------------------------------------
EInit ==
  /\ rows = <<>>
  /\ issuer = [next |-> 1, barrier |-> 0]
  /\ learning = NotLearning
  /\ handles = [h \in Holders |-> NoHandle]
  /\ at = [h \in Holders |-> 0]

Idle == learning = NotLearning

(* An announce that keeps the row's interface and next hop: the row keeps  *)
(* its id and nothing here changes but the row's contents.  An announce    *)
(* over another path, or of an unknown destination, asks for a fresh id.   *)
route_evidence_id_for_update(d) ==
  /\ Idle
  /\ learning' = [dest |-> d, id |-> 0]
  /\ UNCHANGED <<rows, issuer, handles, at>>

(* The smallest held id above id, or 0. *)
NextInUse(id) ==
  LET above == {held \in HeldIds : held > id}
  IN IF above = {} THEN 0 ELSE CHOOSE held \in above : \A other \in above : held <= other

Wrapped == issuer.next = MaxId
Advanced == IF Wrapped THEN 1 ELSE issuer.next + 1

(* One turn of the issuer's loop: at the barrier it looks who holds ids,   *)
(* steps over an id in use, and otherwise issues it.  A lap that ends sets *)
(* the barrier to its first id.                                            *)
issue ==
  LET scans == issuer.barrier = issuer.next
      inUse == issuer.next \in HeldIds
      ahead == IF scans THEN NextInUse(issuer.next) ELSE issuer.barrier
  IN /\ ~Idle
     /\ learning.id = 0
     /\ issuer' = [next |-> Advanced, barrier |-> IF Wrapped THEN 1 ELSE ahead]
     /\ learning' = IF scans /\ inUse THEN learning
                    ELSE [learning EXCEPT !.id = issuer.next]
     /\ UNCHANGED <<rows, handles, at>>

(* The table without row i: the last row moves into the hole. *)
SwapRemoved(i) ==
  [row \in 1 .. Len(rows) - 1 |-> IF row = i THEN rows[Len(rows)] ELSE rows[row]]

(* Where a row is after row i was swap-removed. *)
MovedTo(row, i) ==
  IF row = i THEN 0 ELSE IF row = Len(rows) THEN i ELSE row

remove_route_at(i) ==
  /\ rows' = SwapRemoved(i)
  /\ at' = [h \in Holders |-> MovedTo(at[h], i)]
  /\ UNCHANGED <<issuer, handles>>

(* cull_expired_routes, drop_route, drop_routes_via and                    *)
(* drop_routes_for_identity remove rows one at a time.  So does an insert  *)
(* that finds the table or the arena of announce data full.                *)
RemoveRoute(i) ==
  /\ Idle \/ (learning.id # 0 /\ \A row \in Rows : rows[row].dest # learning.dest)
  /\ remove_route_at(i)
  /\ UNCHANGED learning

(* A row for a new destination goes to the end of the table. *)
insert_new_route ==
  /\ learning.id # 0
  /\ \A row \in Rows : rows[row].dest # learning.dest
  /\ Len(rows) < RouteSlots
  /\ rows' = Append(rows, [dest |-> learning.dest, id |-> learning.id])
  /\ learning' = NotLearning
  /\ UNCHANGED <<issuer, handles, at>>

(* A known destination's row takes the new path, and with it the new id. *)
refresh_existing_route ==
  /\ learning.id # 0
  /\ \E i \in Rows :
       /\ rows[i].dest = learning.dest
       /\ rows' = [rows EXCEPT ![i].id = learning.id]
       /\ at' = [h \in Holders |-> IF at[h] = i THEN 0 ELSE at[h]]
  /\ learning' = NotLearning
  /\ UNCHANGED <<issuer, handles>>

(* No room for the announce's data: the id that was issued is not used. *)
Dropped ==
  /\ learning.id # 0
  /\ learning' = NotLearning
  /\ UNCHANGED <<rows, issuer, handles, at>>

----------------------------------------------------------------------------
(* A link is requested, or a request is transported, over row i. *)
TakeHandle(h, i) ==
  /\ Idle
  /\ handles[h] = NoHandle
  /\ handles' = [handles EXCEPT ![h] = [id |-> rows[i].id, hint |-> route_evidence_row_hint(i)]]
  /\ at' = [at EXCEPT ![h] = i]
  /\ UNCHANGED <<rows, issuer, learning>>

(* reconcile_pending_route_evidence: a link that heard authenticated       *)
(* traffic marks its route, and keeps the hint that resolving repaired.    *)
ReconcileEvidence(h) ==
  LET row == resolve_route_evidence(handles[h])
  IN /\ Idle
     /\ handles[h] # NoHandle
     /\ row # 0
     /\ handles' = [handles EXCEPT ![h].hint = route_evidence_row_hint(row)]
     /\ UNCHANGED <<rows, issuer, learning, at>>

(* The link closes, times out or is culled. *)
ReleaseHandle(h) ==
  /\ Idle
  /\ handles[h] # NoHandle
  /\ handles' = [handles EXCEPT ![h] = NoHandle]
  /\ at' = [at EXCEPT ![h] = 0]
  /\ UNCHANGED <<rows, issuer, learning>>

ENext ==
  \/ \E d \in Dests : route_evidence_id_for_update(d)
  \/ issue
  \/ \E i \in Rows : RemoveRoute(i)
  \/ insert_new_route
  \/ refresh_existing_route
  \/ Dropped
  \/ \E h \in Holders, i \in Rows : TakeHandle(h, i)
  \/ \E h \in Holders : ReconcileEvidence(h) \/ ReleaseHandle(h)

ESpec == EInit /\ [][ENext]_evVars

----------------------------------------------------------------------------
(* Properties *)

ETypeOK ==
  /\ rows \in Seq([dest : Dests, id : Ids])
  /\ Len(rows) <= RouteSlots
  /\ issuer \in [next : Ids, barrier : 0 .. MaxId]
  /\ learning \in [dest : Dests, id : 0 .. MaxId] \cup {NotLearning}
  /\ handles \in [Holders -> [id : 0 .. MaxId, hint : 0 .. MaxHint]]
  /\ at \in [Holders -> 0 .. RouteSlots]

(* A link's handle resolves to the row it was taken from wherever that row *)
(* has moved to, and to no row once that route is gone or its path was     *)
(* replaced: resolve_route_evidence scans only downward from a hint of 16  *)
(* bits, and the id it looks for may have been issued again since.         *)
HandleFindsItsRoute ==
  /\ ETypeOK
  /\ \A h \in Holders :
       handles[h] # NoHandle => resolve_route_evidence(handles[h]) = at[h]
=============================================================================
