------------------------ MODULE RouteEvidenceProofs ------------------------
(***************************************************************************)
(* A handle that a link keeps to its route resolves to that route's row,   *)
(* for every size of the table, of the id space and of the hint.           *)
(*                                                                         *)
(* The handle's id identifies the row only because the issuer never issues *)
(* an id that some row or handle still carries.  That rests on a fact      *)
(* about the issuer's barrier (BarrierAhead): no id in use lies between    *)
(* the next id and the barrier, and without a barrier none lies above.     *)
(***************************************************************************)
EXTENDS RouteEvidence, WellFoundedInduction, SequenceTheorems, TLAPS

(* The ids that rows, handles and the announce being entered carry. *)
InUse == HeldIds \cup ({learning.id} \ {0})

(* The rows of the table carry different ids. *)
RowsDistinct == \A i, j \in Rows : rows[i].id = rows[j].id => i = j

(* An id in use is behind the next id, or at or beyond the barrier. *)
BarrierAhead ==
  \A id \in InUse :
    id >= issuer.next => /\ issuer.barrier # 0
                         /\ issuer.next <= issuer.barrier
                         /\ issuer.barrier <= id

(* The id issued for the announce being entered is on no row or handle. *)
IssuedIsFresh == learning.id # 0 => learning.id \notin HeldIds

(* The row a handle was taken from carries its id and is at or below its   *)
(* hint; once that row is gone, no row carries the id.                     *)
HandleHolds(h) ==
  /\ handles[h] = NoHandle => at[h] = 0
  /\ handles[h] # NoHandle =>
       /\ handles[h].id # 0
       /\ at[h] # 0 => /\ at[h] \in Rows
                       /\ rows[at[h]].id = handles[h].id
                       /\ handles[h].hint = MaxHint \/ at[h] <= handles[h].hint
       /\ at[h] = 0 => \A i \in Rows : rows[i].id # handles[h].id

EvidenceInv ==
  /\ ETypeOK
  /\ RowsDistinct
  /\ BarrierAhead
  /\ IssuedIsFresh
  /\ \A h \in Holders : HandleHolds(h)

----------------------------------------------------------------------------
(* Operators *)

(* A set of naturals that is not empty has a least element. *)
LEMMA LeastNatural ==
  ASSUME NEW T, T \subseteq Nat, T # {}
  PROVE  \E x \in T : \A y \in T : x <= y
<1> DEFINE R == OpToRel(<, Nat)
<1>1. IsWellFoundedOn(R, Nat)
  BY NatLessThanWellFounded
<1>2. \A x, y \in Nat : y < x => <<y, x>> \in R
  BY DEF OpToRel
<1> HIDE DEF R
<1>3. PICK x \in T : \A y \in T : <<y, x>> \notin R
  BY <1>1, WFMin, Zenon
<1>4. \A y \in T : ~(y < x)
  BY <1>2, <1>3, Zenon
<1> QED
  BY <1>4

(* A row of the table is a record of a destination and an id. *)
LEMMA RowsHaveIds ==
  ASSUME ETypeOK
  PROVE  /\ Len(rows) \in Nat
         /\ \A row \in Rows : rows[row] \in [dest : Dests, id : Ids] /\ rows[row].id \in Ids
<1> DEFINE Row == [dest : Dests, id : Ids]
<1>1. rows \in Seq(Row)
  BY DEF ETypeOK
<1>2. \A r \in Row : r.id \in Ids
  OBVIOUS
<1> HIDE DEF Row
<1>3. Len(rows) \in Nat /\ \A row \in Rows : rows[row] \in Row
  BY <1>1 DEF Rows
<1>4. \A row \in Rows : rows[row].id \in Ids
  BY <1>2, <1>3
<1> QED
  BY <1>3, <1>4 DEF Row

(* The holder scan sees ids only. *)
LEMMA HeldAreIds ==
  ASSUME ETypeOK, \A h \in Holders : HandleHolds(h)
  PROVE  HeldIds \subseteq Ids
<1>1. \A row \in Rows : rows[row].id \in Ids
  BY RowsHaveIds
<1>2. \A h \in Holders : handles[h] # NoHandle => handles[h].id \in Ids
  BY EvidenceAssumption DEF ETypeOK, HandleHolds, Ids
<1> QED
  BY <1>1, <1>2 DEF HeldIds

(* What the scan at the barrier returns: the first held id beyond it. *)
LEMMA NextInUseIsFirst ==
  ASSUME HeldIds \subseteq Ids, NEW id \in Ids, NEW held \in HeldIds, held > id
  PROVE  NextInUse(id) \in HeldIds /\ NextInUse(id) > id /\ NextInUse(id) <= held
<1> DEFINE above == {x \in HeldIds : x > id}
<1>1. above \subseteq Nat /\ above # {}
  <2>1. Ids \subseteq Nat
    BY EvidenceAssumption DEF Ids
  <2>2. held \in above
    OBVIOUS
  <2> QED
    BY <2>1, <2>2, Zenon
<1>2. \E x \in above : \A y \in above : x <= y
  <2> HIDE DEF above
  <2> QED
    BY <1>1, LeastNatural, Zenon
<1>3. NextInUse(id) = CHOOSE x \in above : \A y \in above : x <= y
  BY <1>1 DEF NextInUse
<1>4. NextInUse(id) \in above /\ \A y \in above : NextInUse(id) <= y
  <2> HIDE DEF above
  <2> QED
    BY <1>2, <1>3
<1> QED
  BY <1>4

(* A handle resolves to the only row that carries its id, if that row is   *)
(* within the scan, and to no row when none carries it.                    *)
LEMMA ResolveExact ==
  ASSUME EvidenceInv, NEW h \in Holders, handles[h] # NoHandle
  PROVE  resolve_route_evidence(handles[h]) = at[h]
<1> DEFINE start == route_evidence_scan_start(handles[h].hint)
           found == {row \in 1 .. start : rows[row].id = handles[h].id}
<1>1. /\ Len(rows) \in Nat /\ MaxHint \in Nat /\ handles[h].hint \in 0 .. MaxHint
      /\ HandleHolds(h) /\ at[h] \in Nat
  BY EvidenceAssumption DEF EvidenceInv, ETypeOK
<1>2. /\ start \in Nat /\ start <= Len(rows)
      /\ handles[h].hint # MaxHint /\ handles[h].hint <= Len(rows) => start = handles[h].hint
      /\ ~(handles[h].hint # MaxHint /\ handles[h].hint <= Len(rows)) => start = Len(rows)
  BY <1>1 DEF route_evidence_scan_start
<1>3. found \subseteq Rows
  BY <1>1, <1>2 DEF Rows
<1>4. resolve_route_evidence(handles[h]) =
        IF found = {} THEN 0 ELSE CHOOSE row \in found : \A other \in found : other <= row
  BY DEF resolve_route_evidence
<1>5. CASE at[h] = 0
  <2>1. found = {}
    BY <1>1, <1>3, <1>5 DEF HandleHolds
  <2> QED
    BY <1>4, <1>5, <2>1
<1>6. CASE at[h] # 0
  <2>1. /\ at[h] \in Rows /\ rows[at[h]].id = handles[h].id
        /\ handles[h].hint = MaxHint \/ at[h] <= handles[h].hint
    BY <1>1, <1>6 DEF HandleHolds
  <2>2. at[h] \in 1 .. start
    BY <1>1, <1>2, <2>1 DEF Rows
  <2>3. \A row \in found : row = at[h]
    BY <1>3, <2>1 DEF EvidenceInv, RowsDistinct
  <2>4. found = {at[h]}
    BY <2>1, <2>2, <2>3
  <2> HIDE DEF found
  <2>5. (CHOOSE row \in found : \A other \in found : other <= row) = at[h]
    BY <1>1, <2>4
  <2> QED
    BY <1>4, <2>4, <2>5, Zenon
<1> QED
  BY <1>5, <1>6

(* The scan of the next state sees the ids on its rows and handles. *)
LEMMA HeldNext ==
  ASSUME NEW STATE S,
         \A row \in Rows' : rows'[row].id \in S,
         \A h \in Holders : handles'[h] # NoHandle => handles'[h].id \in S
  PROVE  HeldIds' \subseteq S
BY DEF HeldIds, NoHandle

(* While the issuer rests, ids that fall out of use keep the barrier right. *)
LEMMA BarrierStays ==
  ASSUME BarrierAhead, UNCHANGED issuer, InUse' \subseteq InUse
  PROVE  BarrierAhead'
BY DEF BarrierAhead

----------------------------------------------------------------------------
(* The actions *)

\* An empty table, with every id free and no handle out.
LEMMA InitEvidence == EInit => EvidenceInv
<1> SUFFICES ASSUME EInit PROVE EvidenceInv
  OBVIOUS
<1> USE EvidenceAssumption DEF EInit, NoHandle
<1>1. rows = <<>> /\ Rows = {} /\ Len(rows) = 0
  BY DEF Rows
<1>2. learning.id = 0 /\ HeldIds = {}
  BY <1>1 DEF HeldIds, NotLearning
<1>3. ETypeOK
  <2>1. rows \in Seq([dest : Dests, id : Ids]) /\ Len(rows) <= RouteSlots
    BY <1>1
  <2>2. issuer \in [next : Ids, barrier : 0 .. MaxId]
    BY DEF Ids
  <2>3. handles \in [Holders -> [id : 0 .. MaxId, hint : 0 .. MaxHint]]
    OBVIOUS
  <2>4. at \in [Holders -> 0 .. RouteSlots]
    OBVIOUS
  <2> QED
    BY <2>1, <2>2, <2>3, <2>4 DEF ETypeOK
<1>4. RowsDistinct /\ BarrierAhead /\ IssuedIsFresh
  BY <1>1, <1>2 DEF RowsDistinct, BarrierAhead, InUse, IssuedIsFresh
<1>5. \A h \in Holders : HandleHolds(h)
  BY DEF HandleHolds
<1> QED
  BY <1>3, <1>4, <1>5 DEF EvidenceInv

(* The types of the issuer and of the announce being entered. *)
LEMMA IssuerTypes ==
  ASSUME ETypeOK
  PROVE  /\ issuer.next \in Ids /\ issuer.barrier \in 0 .. MaxId
         /\ learning.id \in 0 .. MaxId
         /\ learning.id # 0 => learning.dest \in Dests
<1>1. issuer.next \in Ids /\ issuer.barrier \in 0 .. MaxId
  BY DEF ETypeOK
<1>2. NotLearning.id = 0
  BY DEF NotLearning
<1>3. \A r \in [dest : Dests, id : 0 .. MaxId] : r.id \in 0 .. MaxId /\ r.dest \in Dests
  OBVIOUS
<1>4. learning \in [dest : Dests, id : 0 .. MaxId] \/ learning = NotLearning
  BY DEF ETypeOK
<1> QED
  BY EvidenceAssumption, <1>1, <1>2, <1>3, <1>4

(* An announce asks for an id: none is issued yet. *)
LEMMA UpdateKeeps ==
  ASSUME EvidenceInv, NEW d \in Dests, route_evidence_id_for_update(d)
  PROVE  EvidenceInv'
<1> USE DEF route_evidence_id_for_update
<1>1. learning'.id = 0
  OBVIOUS
<1>2. learning' \in [dest : Dests, id : 0 .. MaxId]
  BY EvidenceAssumption
<1>3. ETypeOK'
  BY <1>2 DEF EvidenceInv, ETypeOK
<1>4. HeldIds' = HeldIds /\ Rows' = Rows
  BY DEF HeldIds, Rows
<1>5. BarrierAhead'
  BY <1>1, <1>4, BarrierStays DEF EvidenceInv, InUse
<1>6. RowsDistinct' /\ IssuedIsFresh'
  BY <1>1, <1>4 DEF EvidenceInv, RowsDistinct, IssuedIsFresh
<1>7. \A h \in Holders : HandleHolds(h)'
  BY <1>4 DEF EvidenceInv, HandleHolds
<1> QED
  BY <1>3, <1>5, <1>6, <1>7 DEF EvidenceInv

(* The announce is dropped or has entered the table: what it asked for ends. *)
LEMMA DroppedKeeps ==
  ASSUME EvidenceInv, Dropped
  PROVE  EvidenceInv'
<1> USE DEF Dropped
<1>1. learning'.id = 0
  BY DEF NotLearning
<1>3. ETypeOK'
  BY DEF EvidenceInv, ETypeOK
<1>4. HeldIds' = HeldIds /\ Rows' = Rows
  BY DEF HeldIds, Rows
<1>5. BarrierAhead'
  BY <1>1, <1>4, BarrierStays DEF EvidenceInv, InUse
<1>6. RowsDistinct' /\ IssuedIsFresh'
  BY <1>1, <1>4 DEF EvidenceInv, RowsDistinct, IssuedIsFresh
<1>7. \A h \in Holders : HandleHolds(h)'
  BY <1>4 DEF EvidenceInv, HandleHolds
<1> QED
  BY <1>3, <1>5, <1>6, <1>7 DEF EvidenceInv

(* A turn of the issuer's loop issues no id in use, and moves the barrier  *)
(* to the first id in use beyond it, or to 1 when a lap ends.              *)
LEMMA IssueKeeps ==
  ASSUME EvidenceInv, issue
  PROVE  EvidenceInv'
<1> USE EvidenceAssumption
<1> DEFINE scans == issuer.barrier = issuer.next
           used == issuer.next \in HeldIds
           ahead == IF scans THEN NextInUse(issuer.next) ELSE issuer.barrier
<1>0. /\ learning.id = 0 /\ ~Idle /\ rows' = rows /\ handles' = handles /\ at' = at
      /\ issuer' = [next |-> Advanced, barrier |-> IF Wrapped THEN 1 ELSE ahead]
      /\ learning' = IF scans /\ used THEN learning
                     ELSE [learning EXCEPT !.id = issuer.next]
  BY DEF issue
<1>1. /\ issuer.next \in Ids /\ issuer.barrier \in 0 .. MaxId /\ HeldIds \subseteq Ids
      /\ learning \in [dest : Dests, id : 0 .. MaxId]
      /\ Ids \subseteq Nat /\ MaxId \in Nat
  BY <1>0, IssuerTypes, HeldAreIds DEF EvidenceInv, ETypeOK, Idle, Ids
<1>2. HeldIds' = HeldIds /\ Rows' = Rows
  BY <1>0 DEF HeldIds, Rows
<1>3. used => scans
  BY <1>1 DEF EvidenceInv, BarrierAhead, InUse, Ids
<1>4. learning'.id \in {0, issuer.next} /\ learning' \in [dest : Dests, id : 0 .. MaxId]
  <2>1. CASE scans /\ used
    BY <1>0, <1>1, <2>1
  <2>2. CASE ~(scans /\ used)
    <3>1. learning' = [learning EXCEPT !.id = issuer.next]
      BY <1>0, <2>2
    <3> QED
      BY <1>1, <3>1 DEF Ids
  <2> QED
    BY <2>1, <2>2
<1>5. learning'.id # 0 => ~used
  BY <1>0, <1>3
<1> HIDE DEF used
<1>5a. \A id \in HeldIds : id > issuer.next =>
        /\ NextInUse(issuer.next) \in Ids
        /\ NextInUse(issuer.next) > issuer.next /\ NextInUse(issuer.next) <= id
  BY <1>1, NextInUseIsFirst, Zenon
<1>5b. scans => ahead = NextInUse(issuer.next)
  OBVIOUS
<1>5c. ~scans => ahead = issuer.barrier
  OBVIOUS
<1> HIDE DEF scans, ahead
<1>6. \A id \in HeldIds : id > issuer.next /\ scans => /\ ahead # 0 /\ ahead \in Nat
                                                     /\ ahead > issuer.next /\ ahead <= id
  BY <1>1, <1>5a, <1>5b DEF Ids
<1>7. ahead \in 0 .. MaxId
  <2>1. CASE ~scans
    BY <1>1, <1>5c, <2>1
  <2>2. CASE scans /\ NextInUse(issuer.next) = 0
    BY <1>1, <1>5b, <2>2
  <2>3. CASE scans /\ NextInUse(issuer.next) # 0
    <3>1. PICK held \in HeldIds : held > issuer.next
      BY <2>3 DEF NextInUse
    <3> QED
      BY <1>1, <1>5a, <1>5b, <2>3, <3>1 DEF Ids
  <2> QED
    BY <2>1, <2>2, <2>3
<1>8. /\ issuer'.next = Advanced /\ issuer'.next \in Ids
      /\ issuer'.barrier = (IF Wrapped THEN 1 ELSE ahead)
      /\ issuer' \in [next : Ids, barrier : 0 .. MaxId]
  BY <1>0, <1>1, <1>7 DEF Advanced, Wrapped, Ids
<1>9. ETypeOK'
  BY <1>0, <1>4, <1>8 DEF EvidenceInv, ETypeOK
<1>10. BarrierAhead'
  <2> SUFFICES ASSUME NEW id \in InUse', id >= issuer'.next
               PROVE  /\ issuer'.barrier # 0 /\ issuer'.next <= issuer'.barrier
                      /\ issuer'.barrier <= id
    BY DEF BarrierAhead
  <2>1. id \in Ids /\ (id \in HeldIds \/ id = issuer.next)
    BY <1>1, <1>2, <1>4 DEF InUse
  <2>2. CASE Wrapped
    BY <1>8, <2>1, <2>2 DEF Advanced, Ids
  <2>3. CASE ~Wrapped
    <3>1. issuer'.next = issuer.next + 1 /\ issuer'.barrier = ahead
      BY <1>8, <2>3 DEF Advanced
    <3>2. id \in HeldIds /\ id > issuer.next
      BY <1>1, <2>1, <3>1 DEF Ids
    <3>3. CASE scans
      BY <1>1, <1>6, <3>1, <3>2, <3>3 DEF Ids
    <3>4. CASE ~scans
      <4>1. ahead = issuer.barrier /\ issuer.barrier # issuer.next
        BY <1>5c, <3>4 DEF scans
      <4>2. issuer.barrier # 0 /\ issuer.next <= issuer.barrier /\ issuer.barrier <= id
        BY <1>1, <3>2 DEF EvidenceInv, BarrierAhead, InUse, Ids
      <4> QED
        BY <1>1, <3>1, <4>1, <4>2 DEF Ids
    <3> QED
      BY <3>3, <3>4
  <2> QED
    BY <2>2, <2>3
<1>11. IssuedIsFresh'
  BY <1>2, <1>4, <1>5 DEF IssuedIsFresh, used
<1>12. RowsDistinct' /\ \A h \in Holders : HandleHolds(h)'
  BY <1>0, <1>2 DEF EvidenceInv, RowsDistinct, HandleHolds
<1> QED
  BY <1>9, <1>10, <1>11, <1>12 DEF EvidenceInv

(* Swap-removing row i: the other rows stay, the last one in its place. *)
LEMMA SwapRemovedRows ==
  ASSUME ETypeOK, NEW i \in Rows, rows' = SwapRemoved(i)
  PROVE  /\ rows' \in Seq([dest : Dests, id : Ids]) /\ Len(rows') = Len(rows) - 1
         /\ Rows' = 1 .. Len(rows) - 1
         /\ \A j \in Rows' : rows'[j] = IF j = i THEN rows[Len(rows)] ELSE rows[j]
<1> DEFINE Row == [dest : Dests, id : Ids]
<1>1. Len(rows) \in Nat /\ \A j \in Rows : rows[j] \in Row
  BY RowsHaveIds
<1>2. i \in 1 .. Len(rows) /\ i \in Nat
  BY <1>1 DEF Rows
<1> HIDE DEF Row
<1>3. Len(rows) - 1 \in Nat
  BY <1>1, <1>2
<1>4. \A j \in 1 .. Len(rows) - 1 : (IF j = i THEN rows[Len(rows)] ELSE rows[j]) \in Row
  BY <1>1, <1>2 DEF Rows
<1>5. rows' = [j \in 1 .. Len(rows) - 1 |-> IF j = i THEN rows[Len(rows)] ELSE rows[j]]
  BY DEF SwapRemoved
<1>6. rows' \in Seq(Row) /\ Len(rows') = Len(rows) - 1
  BY <1>3, <1>4, <1>5
<1>7. Rows' = 1 .. Len(rows) - 1
  BY <1>6 DEF Rows
<1> QED
  BY <1>5, <1>6, <1>7, Zenon DEF Row

(* A row is removed: its handles find nothing, those of the row that moves *)
(* into its place find it there, still at or below their hint.             *)
LEMMA RemoveKeeps ==
  ASSUME EvidenceInv, NEW i \in Rows, RemoveRoute(i)
  PROVE  EvidenceInv'
<1> USE EvidenceAssumption
<1>0. /\ rows' = SwapRemoved(i) /\ at' = [h \in Holders |-> MovedTo(at[h], i)]
      /\ issuer' = issuer /\ handles' = handles /\ learning' = learning
  BY DEF RemoveRoute, remove_route_at
<1> DEFINE n == Len(rows)
<1>1. /\ rows' \in Seq([dest : Dests, id : Ids]) /\ Len(rows') = n - 1
      /\ Rows' = 1 .. n - 1
      /\ \A j \in Rows' : rows'[j] = IF j = i THEN rows[n] ELSE rows[j]
  BY <1>0, SwapRemovedRows, Zenon DEF EvidenceInv
<1>2. /\ n \in Nat /\ i \in Nat /\ i >= 1 /\ i <= n /\ n <= RouteSlots /\ RouteSlots \in Nat
      /\ Rows = 1 .. n
  BY RowsHaveIds DEF EvidenceInv, ETypeOK, Rows
<1> HIDE DEF n
<1>3. \A j \in Rows' : j \in Rows /\ rows'[j].id = (IF j = i THEN rows[n].id ELSE rows[j].id)
  BY <1>1, <1>2
<1>4. \A h \in Holders : at[h] \in 0 .. RouteSlots /\ at'[h] = MovedTo(at[h], i)
  BY <1>0 DEF EvidenceInv, ETypeOK
<1>5. \A h \in Holders : at[h] \in 0 .. n
  BY <1>2, <1>4 DEF EvidenceInv, HandleHolds
<1>6. \A h \in Holders :
         at'[h] = IF at[h] = i THEN 0 ELSE IF at[h] = n THEN i ELSE at[h]
  BY <1>4 DEF MovedTo, n
<1>7. ETypeOK'
  <2>1. at' \in [Holders -> 0 .. RouteSlots]
    <3>1. \A h \in Holders : MovedTo(at[h], i) \in 0 .. RouteSlots
      BY <1>2, <1>4, <1>6
    <3> QED
      BY <1>0, <3>1
  <2> QED
    BY <1>0, <1>1, <1>2, <2>1 DEF EvidenceInv, ETypeOK
<1>8. RowsDistinct'
  <2> SUFFICES ASSUME NEW j \in Rows', NEW k \in Rows', rows'[j].id = rows'[k].id
               PROVE  j = k
    BY DEF RowsDistinct
  <2>1. \A a, b \in 1 .. n : rows[a].id = rows[b].id => a = b
    BY <1>2 DEF EvidenceInv, RowsDistinct
  <2>2. j \in 1 .. n - 1 /\ k \in 1 .. n - 1 /\ n \in 1 .. n
    BY <1>1, <1>2
  <2> QED
    BY <1>2, <1>3, <2>1, <2>2
<1>9. HeldIds' \subseteq HeldIds
  <2>1. \A j \in Rows' : \E k \in Rows : rows'[j].id = rows[k].id
    BY <1>2, <1>3
  <2> QED
    BY <1>0, <2>1 DEF HeldIds
<1>10. BarrierAhead' /\ IssuedIsFresh'
  BY <1>0, <1>9, BarrierStays DEF EvidenceInv, InUse, IssuedIsFresh
<1>11. ASSUME NEW h \in Holders PROVE HandleHolds(h)'
  <2>1. HandleHolds(h)
    BY DEF EvidenceInv
  <2>2. at[h] = 0 => at'[h] = 0
    BY <1>2, <1>6
  <2>3. CASE handles[h] = NoHandle
    BY <1>0, <2>1, <2>2, <2>3 DEF HandleHolds, NoHandle
  <2>4. CASE handles[h] # NoHandle
    <3>1. handles[h].id # 0 /\ handles[h].hint \in 0 .. MaxHint
      BY <2>1, <2>4 DEF HandleHolds, EvidenceInv, ETypeOK
    <3>2. CASE at[h] = 0
      <4>1. \A j \in Rows' : rows'[j].id # handles[h].id
        BY <1>2, <1>3, <2>1, <2>4, <3>2 DEF HandleHolds
      <4> QED
        BY <1>0, <2>2, <2>4, <3>1, <3>2, <4>1 DEF HandleHolds, NoHandle
    <3>3. CASE at[h] # 0
      <4>1. /\ at[h] \in 1 .. n /\ rows[at[h]].id = handles[h].id
            /\ handles[h].hint = MaxHint \/ at[h] <= handles[h].hint
        BY <1>2, <2>1, <2>4, <3>3 DEF HandleHolds
      <4>2. \A a \in 1 .. n : rows[a].id = handles[h].id => a = at[h]
        BY <1>2, <4>1 DEF EvidenceInv, RowsDistinct
      <4>3. CASE at[h] = i
        <5>1. \A j \in Rows' : rows'[j].id # handles[h].id
          BY <1>1, <1>2, <1>3, <4>2, <4>3
        <5> QED
          BY <1>0, <1>6, <2>4, <3>1, <4>3, <5>1 DEF HandleHolds, NoHandle
      <4>4. CASE at[h] # i
        <5>1. at'[h] \in Rows' /\ at'[h] # 0 /\ at'[h] <= at[h] /\ at'[h] \in Nat
          BY <1>1, <1>2, <1>6, <4>1, <4>4
        <5>2. rows'[at'[h]].id = handles[h].id
          BY <1>2, <1>3, <1>6, <4>1, <4>4, <5>1
        <5>3. handles[h].hint = MaxHint \/ at'[h] <= handles[h].hint
          BY <1>2, <3>1, <4>1, <5>1
        <5> QED
          BY <1>0, <2>4, <3>1, <5>1, <5>2, <5>3 DEF HandleHolds, NoHandle
      <4> QED
        BY <4>3, <4>4
    <3> QED
      BY <3>2, <3>3
  <2> QED
    BY <2>3, <2>4
<1> QED
  BY <1>7, <1>8, <1>10, <1>11 DEF EvidenceInv

(* A new row at the end carries the issued id, which nothing else does. *)
LEMMA InsertKeeps ==
  ASSUME EvidenceInv, insert_new_route
  PROVE  EvidenceInv'
<1> USE EvidenceAssumption
<1> DEFINE n == Len(rows)
           new == [dest |-> learning.dest, id |-> learning.id]
<1>0. /\ learning.id # 0 /\ n < RouteSlots /\ learning' = NotLearning
      /\ rows' = Append(rows, new)
      /\ issuer' = issuer /\ handles' = handles /\ at' = at
  BY DEF insert_new_route
<1>1. new \in [dest : Dests, id : Ids] /\ new.id = learning.id /\ new.id \in Nat
  BY <1>0, IssuerTypes DEF EvidenceInv, Ids
<1>2. rows \in Seq([dest : Dests, id : Ids]) /\ n \in Nat /\ Rows = 1 .. n
  BY RowsHaveIds DEF EvidenceInv, ETypeOK, Rows
<1> HIDE DEF new, n
<1>3. /\ rows' \in Seq([dest : Dests, id : Ids]) /\ Len(rows') = n + 1
      /\ rows'[n + 1] = new /\ \A j \in 1 .. n : rows'[j] = rows[j]
  BY <1>0, <1>1, <1>2, AppendProperties DEF n
<1>4. Rows' = 1 .. n + 1 /\ \A j \in Rows' : j = n + 1 \/ j \in Rows
  BY <1>2, <1>3 DEF Rows
<1>5. \A j \in Rows : j \in Rows' /\ rows'[j].id = rows[j].id /\ rows[j].id # new.id /\ j # n + 1
  BY <1>0, <1>1, <1>2, <1>3, <1>4 DEF EvidenceInv, IssuedIsFresh, HeldIds
<1>6. ETypeOK'
  BY <1>0, <1>2, <1>3 DEF EvidenceInv, ETypeOK, n
<1>7. RowsDistinct'
  BY <1>3, <1>4, <1>5 DEF EvidenceInv, RowsDistinct
<1>8. learning'.id = 0 /\ HeldIds' \subseteq InUse
  <2>1. learning'.id = 0
    BY <1>0 DEF NotLearning
  <2>2. \A j \in Rows' : rows'[j].id \in InUse
    BY <1>0, <1>1, <1>3, <1>4, <1>5 DEF InUse, HeldIds
  <2>3. \A h \in Holders : handles'[h] # NoHandle => handles'[h].id \in InUse
    BY <1>0 DEF InUse, HeldIds
  <2> QED
    BY <2>1, <2>2, <2>3, HeldNext
<1>9. BarrierAhead' /\ IssuedIsFresh'
  BY <1>0, <1>8, BarrierStays DEF EvidenceInv, InUse, IssuedIsFresh
<1>10. ASSUME NEW h \in Holders PROVE HandleHolds(h)'
  <2>1. HandleHolds(h)
    BY DEF EvidenceInv
  <2>2. handles[h] # NoHandle => handles[h].id # new.id
    BY <1>0, <1>1 DEF EvidenceInv, IssuedIsFresh, HeldIds
  <2>3. at[h] = 0 /\ handles[h] # NoHandle => \A j \in Rows' : rows'[j].id # handles[h].id
    BY <1>3, <1>4, <1>5, <2>1, <2>2 DEF HandleHolds
  <2>4. at[h] \in Rows => at[h] \in Rows' /\ rows'[at[h]].id = rows[at[h]].id
    BY <1>5
  <2> QED
    BY <1>0, <2>1, <2>3, <2>4, Zenon DEF HandleHolds, NoHandle
<1> QED
  BY <1>6, <1>7, <1>9, <1>10 DEF EvidenceInv

(* A row that takes a new path takes the issued id: its handles find       *)
(* nothing from then on, and no other handle finds it.                     *)
LEMMA RefreshKeeps ==
  ASSUME EvidenceInv, refresh_existing_route
  PROVE  EvidenceInv'
<1> USE EvidenceAssumption
<1>0. PICK i \in Rows :
        /\ rows' = [rows EXCEPT ![i].id = learning.id]
        /\ at' = [h \in Holders |-> IF at[h] = i THEN 0 ELSE at[h]]
        /\ learning.id # 0 /\ learning' = NotLearning
        /\ issuer' = issuer /\ handles' = handles
  BY Zenon DEF refresh_existing_route
<1> DEFINE n == Len(rows)
           Row == [dest : Dests, id : Ids]
           new == [rows[i] EXCEPT !.id = learning.id]
<1>1. learning.id \in Ids
  BY <1>0, IssuerTypes DEF EvidenceInv, Ids
<1>2. /\ rows \in Seq(Row) /\ n \in Nat /\ Rows = 1 .. n
      /\ rows[i] \in Row
  BY RowsHaveIds DEF EvidenceInv, ETypeOK, Rows
<1>3. new \in Row /\ new.id = learning.id
  BY <1>1, <1>2
<1>4. rows' = [rows EXCEPT ![i] = new]
  BY <1>0
<1> HIDE DEF new, n, Row
<1>5. /\ rows' \in Seq(Row) /\ Len(rows') = n /\ Rows' = Rows
      /\ \A j \in Rows : rows'[j] = IF j = i THEN new ELSE rows[j]
  BY <1>2, <1>3, <1>4 DEF Rows, n
<1>6. \A j \in Rows : /\ rows'[j].id = (IF j = i THEN learning.id ELSE rows[j].id)
                      /\ rows[j].id # learning.id
  BY <1>0, <1>3, <1>5 DEF EvidenceInv, IssuedIsFresh, HeldIds
<1>7. at' \in [Holders -> 0 .. RouteSlots] /\ \A h \in Holders : at'[h] = IF at[h] = i THEN 0 ELSE at[h]
  BY <1>0 DEF EvidenceInv, ETypeOK
<1>8. ETypeOK'
  BY <1>0, <1>5, <1>7 DEF EvidenceInv, ETypeOK, Row, n
<1>9. RowsDistinct'
  BY <1>5, <1>6 DEF EvidenceInv, RowsDistinct
<1>10. learning'.id = 0 /\ HeldIds' \subseteq InUse
  <2>1. learning'.id = 0
    BY <1>0 DEF NotLearning
  <2>2. \A j \in Rows' : rows'[j].id \in InUse
    BY <1>0, <1>5, <1>6 DEF InUse, HeldIds
  <2>3. \A h \in Holders : handles'[h] # NoHandle => handles'[h].id \in InUse
    BY <1>0 DEF InUse, HeldIds
  <2> QED
    BY <2>1, <2>2, <2>3, HeldNext
<1>11. BarrierAhead' /\ IssuedIsFresh'
  BY <1>0, <1>10, BarrierStays DEF EvidenceInv, InUse, IssuedIsFresh
<1>12. ASSUME NEW h \in Holders PROVE HandleHolds(h)'
  <2>1. HandleHolds(h)
    BY DEF EvidenceInv
  <2>2. CASE handles[h] = NoHandle
    BY <1>0, <1>7, <2>1, <2>2 DEF HandleHolds, NoHandle
  <2>3. CASE handles[h] # NoHandle
    <3>1. handles[h].id # 0 /\ handles[h].id # learning.id
      BY <1>0, <2>1, <2>3 DEF EvidenceInv, IssuedIsFresh, HeldIds, HandleHolds
    <3>2. CASE at[h] = 0 \/ at[h] = i
      <4>1. at'[h] = 0
        BY <1>7, <3>2
      <4>2. \A j \in Rows : j # i => rows[j].id # handles[h].id
        BY <1>0, <2>1, <2>3, <3>2 DEF HandleHolds, EvidenceInv, RowsDistinct
      <4>3. \A j \in Rows' : rows'[j].id # handles[h].id
        BY <1>5, <1>6, <3>1, <4>2
      <4> QED
        BY <1>0, <2>3, <3>1, <4>1, <4>3 DEF HandleHolds, NoHandle
    <3>3. CASE at[h] # 0 /\ at[h] # i
      <4>1. at'[h] = at[h]
        BY <1>7, <3>3
      <4>2. /\ at[h] \in Rows /\ rows[at[h]].id = handles[h].id
            /\ handles[h].hint = MaxHint \/ at[h] <= handles[h].hint
        BY <2>1, <2>3, <3>3 DEF HandleHolds
      <4>3. at[h] \in Rows' /\ rows'[at[h]].id = handles[h].id
        BY <1>5, <1>6, <3>3, <4>2
      <4> QED
        BY <1>0, <2>3, <3>1, <3>3, <4>1, <4>2, <4>3 DEF HandleHolds, NoHandle
    <3> QED
      BY <3>2, <3>3
  <2> QED
    BY <2>2, <2>3
<1> QED
  BY <1>8, <1>9, <1>11, <1>12 DEF EvidenceInv

(* What a step that only changes handles must show, the rows being as they *)
(* were: the handles that changed hold, and carry ids that were in use.    *)
LEMMA HandleStep ==
  ASSUME EvidenceInv, UNCHANGED <<rows, issuer, learning>>,
         handles' \in [Holders -> [id : 0 .. MaxId, hint : 0 .. MaxHint]],
         at' \in [Holders -> 0 .. RouteSlots],
         \A h \in Holders : handles'[h] # NoHandle => handles'[h].id \in HeldIds,
         \A h \in Holders : HandleHolds(h)'
  PROVE  EvidenceInv'
<1>1. Rows' = Rows
  BY DEF Rows
<1>2. HeldIds' \subseteq HeldIds
  BY <1>1 DEF HeldIds, NoHandle
<1>3. ETypeOK' /\ RowsDistinct'
  BY <1>1 DEF EvidenceInv, ETypeOK, RowsDistinct
<1>4. BarrierAhead' /\ IssuedIsFresh'
  BY <1>2, BarrierStays DEF EvidenceInv, InUse, IssuedIsFresh
<1> QED
  BY <1>3, <1>4 DEF EvidenceInv

(* The handle of another link is as it was. *)
LEMMA OtherHandle ==
  ASSUME EvidenceInv, rows' = rows, NEW g \in Holders,
         handles'[g] = handles[g], at'[g] = at[g]
  PROVE  HandleHolds(g)' /\ (handles'[g] # NoHandle => handles'[g].id \in HeldIds)
BY DEF EvidenceInv, HandleHolds, Rows, NoHandle, HeldIds

(* A hint names a row at or above the row it is made from. *)
LEMMA HintCovers ==
  ASSUME NEW row \in Nat, row >= 1
  PROVE  /\ route_evidence_row_hint(row) \in 0 .. MaxHint
         /\ route_evidence_row_hint(row) = MaxHint \/ row <= route_evidence_row_hint(row)
BY EvidenceAssumption DEF route_evidence_row_hint

(* A link takes a handle to row i. *)
LEMMA TakeKeeps ==
  ASSUME EvidenceInv, NEW h \in Holders, NEW i \in Rows, TakeHandle(h, i)
  PROVE  EvidenceInv'
<1> USE EvidenceAssumption
<1> DEFINE new == [id |-> rows[i].id, hint |-> route_evidence_row_hint(i)]
<1>0. /\ handles' = [handles EXCEPT ![h] = new] /\ at' = [at EXCEPT ![h] = i]
      /\ UNCHANGED <<rows, issuer, learning>>
  BY DEF TakeHandle
<1>1. /\ rows[i].id \in Ids /\ i \in Nat /\ i >= 1 /\ i \in 0 .. RouteSlots
      /\ rows[i].id \in HeldIds
  BY RowsHaveIds DEF EvidenceInv, ETypeOK, Rows, HeldIds
<1>2. /\ new \in [id : 0 .. MaxId, hint : 0 .. MaxHint] /\ new.id = rows[i].id /\ new.id # 0
      /\ new.hint = MaxHint \/ i <= new.hint
  BY <1>1, HintCovers DEF Ids
<1> HIDE DEF new
<1>3. /\ handles' \in [Holders -> [id : 0 .. MaxId, hint : 0 .. MaxHint]]
      /\ at' \in [Holders -> 0 .. RouteSlots]
      /\ handles'[h] = new /\ at'[h] = i
      /\ \A g \in Holders : g # h => handles'[g] = handles[g] /\ at'[g] = at[g]
  BY <1>0, <1>1, <1>2 DEF EvidenceInv, ETypeOK
<1>4. \A g \in Holders : g # h => /\ HandleHolds(g)'
                                  /\ handles'[g] # NoHandle => handles'[g].id \in HeldIds
  BY <1>0, <1>3, OtherHandle
<1>5. HandleHolds(h)'
  <2>1. new # NoHandle
    BY <1>2 DEF NoHandle
  <2>2. Rows' = Rows /\ rows' = rows
    BY <1>0 DEF Rows
  <2> QED
    BY <1>1, <1>2, <1>3, <2>1, <2>2 DEF HandleHolds, NoHandle
<1>6. handles'[h].id \in HeldIds
  BY <1>1, <1>2, <1>3
<1>7. \A g \in Holders : HandleHolds(g)'
  BY <1>4, <1>5
<1>8. \A g \in Holders : handles'[g] # NoHandle => handles'[g].id \in HeldIds
  BY <1>4, <1>6
<1> QED
  BY <1>0, <1>3, <1>7, <1>8, HandleStep

(* A link that resolves its handle keeps the hint of the row it found. *)
LEMMA ReconcileKeeps ==
  ASSUME EvidenceInv, NEW h \in Holders, ReconcileEvidence(h)
  PROVE  EvidenceInv'
<1> USE EvidenceAssumption
<1> DEFINE row == resolve_route_evidence(handles[h])
           new == [handles[h] EXCEPT !.hint = route_evidence_row_hint(row)]
<1>0. /\ handles[h] # NoHandle /\ row # 0
      /\ handles' = [handles EXCEPT ![h] = new] /\ at' = at
      /\ UNCHANGED <<rows, issuer, learning>>
  BY DEF ReconcileEvidence
<1>1. row = at[h]
  BY <1>0, ResolveExact
<1>2. /\ at[h] \in Rows /\ rows[at[h]].id = handles[h].id /\ handles[h].id # 0
      /\ at[h] \in Nat /\ at[h] >= 1
  BY <1>0, <1>1, RowsHaveIds DEF EvidenceInv, HandleHolds, Rows
<1>3. handles[h] \in [id : 0 .. MaxId, hint : 0 .. MaxHint]
  BY DEF EvidenceInv, ETypeOK
<1> HIDE DEF row
<1>4. /\ new \in [id : 0 .. MaxId, hint : 0 .. MaxHint] /\ new.id = handles[h].id
      /\ new.hint = MaxHint \/ at[h] <= new.hint
  BY <1>1, <1>2, <1>3, HintCovers
<1> HIDE DEF new
<1>5. /\ handles' \in [Holders -> [id : 0 .. MaxId, hint : 0 .. MaxHint]]
      /\ at' \in [Holders -> 0 .. RouteSlots]
      /\ handles'[h] = new
      /\ \A g \in Holders : g # h => handles'[g] = handles[g] /\ at'[g] = at[g]
  BY <1>0, <1>4 DEF EvidenceInv, ETypeOK
<1>6. \A g \in Holders : g # h => /\ HandleHolds(g)'
                                  /\ handles'[g] # NoHandle => handles'[g].id \in HeldIds
  BY <1>0, <1>5, OtherHandle
<1>7. HandleHolds(h)'
  <2>1. new # NoHandle
    BY <1>2, <1>4 DEF NoHandle
  <2>2. Rows' = Rows /\ rows' = rows
    BY <1>0 DEF Rows
  <2> QED
    BY <1>0, <1>2, <1>4, <1>5, <2>1, <2>2 DEF HandleHolds, NoHandle
<1>8. handles'[h].id \in HeldIds
  BY <1>2, <1>4, <1>5 DEF HeldIds
<1>9. \A g \in Holders : HandleHolds(g)'
  BY <1>6, <1>7
<1>10. \A g \in Holders : handles'[g] # NoHandle => handles'[g].id \in HeldIds
  BY <1>6, <1>8
<1> QED
  BY <1>0, <1>5, <1>9, <1>10, HandleStep

(* A link that ends drops its handle. *)
LEMMA ReleaseKeeps ==
  ASSUME EvidenceInv, NEW h \in Holders, ReleaseHandle(h)
  PROVE  EvidenceInv'
<1> USE EvidenceAssumption
<1>0. /\ handles' = [handles EXCEPT ![h] = NoHandle] /\ at' = [at EXCEPT ![h] = 0]
      /\ UNCHANGED <<rows, issuer, learning>>
  BY DEF ReleaseHandle
<1>1. NoHandle \in [id : 0 .. MaxId, hint : 0 .. MaxHint]
  BY DEF NoHandle
<1>2. /\ handles' \in [Holders -> [id : 0 .. MaxId, hint : 0 .. MaxHint]]
      /\ at' \in [Holders -> 0 .. RouteSlots]
      /\ handles'[h] = NoHandle /\ at'[h] = 0
      /\ \A g \in Holders : g # h => handles'[g] = handles[g] /\ at'[g] = at[g]
  BY <1>0, <1>1 DEF EvidenceInv, ETypeOK
<1>3. \A g \in Holders : g # h => /\ HandleHolds(g)'
                                  /\ handles'[g] # NoHandle => handles'[g].id \in HeldIds
  BY <1>0, <1>2, OtherHandle
<1>4. HandleHolds(h)'
  BY <1>2 DEF HandleHolds, NoHandle
<1>5. \A g \in Holders : HandleHolds(g)'
  BY <1>3, <1>4
<1>6. \A g \in Holders : handles'[g] # NoHandle => handles'[g].id \in HeldIds
  BY <1>2, <1>3
<1> QED
  BY <1>0, <1>2, <1>5, <1>6, HandleStep

----------------------------------------------------------------------------

(* Every step of the table, the issuer and the links keeps the invariant. *)
LEMMA NextEvidence == EvidenceInv /\ [ENext]_evVars => EvidenceInv'
<1> SUFFICES ASSUME EvidenceInv, [ENext]_evVars PROVE EvidenceInv'
  OBVIOUS
<1>1. CASE \E d \in Dests : route_evidence_id_for_update(d)
  BY <1>1, UpdateKeeps
<1>2. CASE issue
  BY <1>2, IssueKeeps
<1>3. CASE \E i \in Rows : RemoveRoute(i)
  BY <1>3, RemoveKeeps
<1>4. CASE insert_new_route
  BY <1>4, InsertKeeps
<1>5. CASE refresh_existing_route
  BY <1>5, RefreshKeeps
<1>6. CASE Dropped
  BY <1>6, DroppedKeeps
<1>7. CASE \E h \in Holders, i \in Rows : TakeHandle(h, i)
  BY <1>7, TakeKeeps
<1>8. CASE \E h \in Holders : ReconcileEvidence(h) \/ ReleaseHandle(h)
  BY <1>8, ReconcileKeeps, ReleaseKeeps
<1>9. CASE UNCHANGED evVars
  <2>1. ETypeOK' /\ RowsDistinct'
    BY <1>9 DEF evVars, EvidenceInv, ETypeOK, RowsDistinct, Rows
  <2>2. BarrierAhead' /\ IssuedIsFresh'
    BY <1>9 DEF evVars, EvidenceInv, BarrierAhead, InUse, HeldIds, Rows, IssuedIsFresh
  <2>3. \A h \in Holders : HandleHolds(h)'
    BY <1>9 DEF evVars, EvidenceInv, HandleHolds, NoHandle, Rows
  <2> QED
    BY <2>1, <2>2, <2>3 DEF EvidenceInv
<1> QED
  BY <1>1, <1>2, <1>3, <1>4, <1>5, <1>6, <1>7, <1>8, <1>9 DEF ENext

(* resolve_route_evidence takes a link's handle to the row the link was    *)
(* opened over, wherever swap_remove has moved it, and to no row once that *)
(* row is gone or took another path; ids may be issued again in between.   *)
THEOREM HandlesResolve == ESpec => []HandleFindsItsRoute
<1>1. EInit => EvidenceInv
  BY InitEvidence
<1>2. EvidenceInv /\ [ENext]_evVars => EvidenceInv'
  BY NextEvidence
<1>3. EvidenceInv => HandleFindsItsRoute
  BY ResolveExact DEF HandleFindsItsRoute, EvidenceInv
<1> QED
  BY <1>1, <1>2, <1>3, PTL DEF ESpec
=============================================================================
