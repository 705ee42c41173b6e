--------------------------- MODULE PairingProofs ---------------------------
(***************************************************************************)
(* What pairing leaves in the two durable tables: the other steps of the   *)
(* controllers, those of the target, and the theorems.                     *)
(***************************************************************************)
EXTENDS PairingInvariant

(* An exchange that has expired goes with its link. *)
LEMMA ExpiryKeeps ==
  ASSUME PairingInv, NEW c \in Controllers, ctl[c].phase \in Exchange, ControllerExpires(c),
         UNCHANGED <<tgt, asked, wire, tasks, grants, accesses, approved>>
  PROVE  PairingInv'
<1>1. ctl[c].phase # "idle"
  BY DEF Exchange
<1>2. ctl[c].link \in Exchanges /\ Owner[ctl[c].link] = c
  BY <1>1 DEF PairingInv, PairingTypes
<1> DEFINE l == ctl[c].link
<1>3. abort_for_link(c, l) /\ linkUp' = Retired("controller", l) /\ pending' \subseteq pending
  BY DEF ControllerExpires, WithoutLink
<1>4. l \in Exchanges /\ Owner[l] = c
  BY <1>2
<1> HIDE DEF l
<1> QED
  BY <1>3, <1>4, AbortKeeps

(* An answer advances its exchange, or aborts it. *)
LEMMA ResponseKeeps ==
  ASSUME PairingInv, NEW c \in Controllers, NEW r \in wire, admit_response(c, r)
  PROVE  PairingInv'
<1> DEFINE m == ctl[c]
           answered == {q \in pending : q.id # r.id}
           advances == \/ r.kind = "offered" /\ m.phase = "offer"
                       \/ r.kind = "completed" /\ m.phase = "completion"
<1>1. /\ r.kind \in {"offered", "completed"} /\ Owner[r.link] = c
      /\ \E q \in pending : q.id = r.id
      /\ UNCHANGED <<tgt, asked, wire, grants, accesses, approved>>
  BY DEF admit_response
<1>2. r.link \in Exchanges
  BY PairingFields DEF PairingInv
<1>3. CASE m.link = r.link /\ ExpiredController(c)
  <2>1. /\ ControllerExpires(c) /\ UNCHANGED tasks
    BY <1>3 DEF admit_response, ControllerExpires
  <2>2. ctl[c].phase \in Exchange
    BY <1>3 DEF ExpiredController
  <2> QED
    BY <1>1, <2>1, <2>2, ExpiryKeeps
<1>4. CASE ~(m.link = r.link /\ ExpiredController(c)) /\ m.link = r.link /\ advances
  <2>1. /\ pending' = answered /\ UNCHANGED <<linkUp, ended>>
        /\ ctl' = [ctl EXCEPT ![c].phase = IF r.kind = "offered" THEN "approval" ELSE "persisting",
                              ![c].due = FALSE]
        /\ tasks' = IF r.kind = "offered" THEN tasks
                    ELSE tasks \cup {Task("controller", r.link)}
    BY <1>4 DEF admit_response
  <2>2. pending' \subseteq pending /\ \A q \in pending' : q.id # r.id
    BY <2>1
  <2>3. ctl[c] \in Ctls
    BY PairingFields DEF PairingInv
  <2> DEFINE n == [ctl[c] EXCEPT !.phase = IF r.kind = "offered" THEN "approval" ELSE "persisting",
                                 !.due = FALSE]
  <2>4. /\ n \in Ctls /\ n.link = r.link /\ ctl' = [ctl EXCEPT ![c] = n]
        /\ n.phase = IF r.kind = "offered" THEN "approval" ELSE "persisting"
    BY <1>4, <2>1, <2>3, Zenon DEF Ctls, CtlPhases, Exchange
  <2> HIDE DEF n
  <2>5. CASE r.kind = "offered"
    <3>1. ctl[c].phase = "offer" /\ ctl[c].link = r.link /\ n.phase = "approval" /\ tasks' = tasks
      BY <1>4, <2>1, <2>4, <2>5
    <3>2. UNCHANGED <<tgt, linkUp, asked, wire, tasks, grants, accesses, approved, ended>>
      BY <1>1, <2>1, <3>1
    <3>3. n \in Ctls /\ n.link = r.link /\ ctl' = [ctl EXCEPT ![c] = n]
      BY <2>4
    <3> HIDE DEF answered, advances, m
    <3> QED
      BY <1>1, <2>2, <2>5, <3>1, <3>2, <3>3, OfferedKeeps, Zenon
  <2>6. CASE r.kind = "completed"
    <3>1. /\ ctl[c].phase = "completion" /\ ctl[c].link = r.link /\ n.phase = "persisting"
          /\ tasks' = tasks \cup {Task("controller", r.link)}
      BY <1>4, <2>1, <2>4, <2>6
    <3>2. UNCHANGED <<tgt, linkUp, asked, wire, grants, accesses, approved, ended>>
      BY <1>1, <2>1
    <3>3. n \in Ctls /\ n.link = r.link /\ ctl' = [ctl EXCEPT ![c] = n]
      BY <2>4
    <3> HIDE DEF answered, advances, m
    <3> QED
      BY <1>1, <2>2, <2>6, <3>1, <3>2, <3>3, CompletedKeeps, Zenon
  <2> QED
    BY <1>1, <2>5, <2>6
<1>5. CASE ~(m.link = r.link /\ ExpiredController(c)) /\ ~(m.link = r.link /\ advances)
  <2>1. pending' = answered /\ UNCHANGED <<linkUp, tasks>> /\ abort_for_link(c, r.link)
    BY <1>5 DEF admit_response
  <2> QED
    BY <1>1, <1>2, <2>1, AbortKeeps
<1> QED
  BY <1>3, <1>4, <1>5

(* The controller's user approves, in time or too late. *)
LEMMA ApproveKeeps ==
  ASSUME PairingInv, NEW c \in Controllers, controller_approve(c)
  PROVE  PairingInv'
<1>1. CASE ExpiredController(c)
  <2>1. ctl[c].phase \in Exchange
    BY <1>1 DEF ExpiredController
  <2>2. ControllerExpires(c) /\ UNCHANGED <<tgt, asked, wire, tasks, grants, accesses, approved>>
    BY <1>1 DEF controller_approve
  <2> QED
    BY <2>1, <2>2, ExpiryKeeps
<1>2. CASE ~ExpiredController(c)
  <2>1. /\ ctl[c].phase \in {"approval", "completion"}
        /\ SendRequest("commit", ctl[c].link) /\ ctl' = [ctl EXCEPT ![c].phase = "completion"]
        /\ approved' = [approved EXCEPT !.controller = @ \cup {ctl[c].link}]
        /\ UNCHANGED <<linkUp, ended, tgt, tasks, grants, accesses>>
    BY <1>2 DEF controller_approve
  <2> QED
    BY <2>1, CommitKeeps, Zenon
<1> QED
  BY <1>1, <1>2

(* The controller's user rejects, or its deadline is acted on. *)
LEMMA RejectExpireKeep ==
  ASSUME PairingInv, NEW c \in Controllers, controller_reject(c) \/ controller_expire(c)
  PROVE  PairingInv'
<1>1. ctl[c].phase \in Exchange
  BY DEF controller_reject, controller_expire, ExpiredController, Exchange
<1>2. ControllerExpires(c) /\ UNCHANGED <<tgt, asked, wire, tasks, grants, accesses, approved>>
  BY DEF controller_reject, controller_expire
<1> QED
  BY <1>1, <1>2, ExpiryKeeps

(* A request times out. *)
LEMMA RequestFailedKeeps ==
  ASSUME PairingInv, NEW q \in pending, request_failed(q)
  PROVE  PairingInv'
<1>1. q.link \in Exchanges /\ Owner[q.link] \in Controllers
  BY PairingFields, PairingAssumption DEF PairingInv, PairingTypes
<1>2. /\ pending' \subseteq pending /\ abort_for_link(Owner[q.link], q.link) /\ linkUp' = linkUp
      /\ UNCHANGED <<tgt, asked, wire, tasks, grants, accesses, approved>>
  BY DEF request_failed
<1> QED
  BY <1>1, <1>2, AbortKeeps

(* A link closes at its controller. *)
LEMMA ControllerCloseKeeps ==
  ASSUME PairingInv, NEW l \in Exchanges, controller_close_link(l)
  PROVE  PairingInv'
<1>1. Owner[l] \in Controllers
  BY PairingAssumption
<1>2. /\ pending' \subseteq pending /\ abort_for_link(Owner[l], l)
      /\ linkUp' = Retired("controller", l)
      /\ UNCHANGED <<tgt, asked, wire, tasks, grants, accesses, approved>>
  BY DEF controller_close_link, WithoutLink
<1> QED
  BY <1>1, <1>2, AbortKeeps

(* The controller's task writes the access of the attempt in hand. *)
LEMMA StoreAccessKeeps ==
  ASSUME PairingInv, NEW j \in tasks, StoreAccess(j)
  PROVE  PairingInv'
<1>0. PairingTypes /\ WireInv /\ TargetInv /\ ControllerInv
  BY DEF PairingInv
<1> DEFINE t == [j EXCEPT !.wrote = TRUE]
<1>1. /\ j.side = "controller" /\ ~j.wrote /\ accesses' = accesses \cup {j.link}
      /\ tasks' = (tasks \ {j}) \cup {t}
      /\ UNCHANGED <<ctl, tgt, linkUp, asked, pending, wire, grants, approved, ended>>
  BY DEF StoreAccess
<1>2. j \in StorageTasks /\ j.link \in Exchanges /\ j.wrote = FALSE
  BY <1>0, <1>1, PairingFields DEF PairingTypes
<1>3. t \in StorageTasks /\ t.side = "controller" /\ t.link = j.link /\ t.wrote = TRUE
  BY <1>1, <1>2, Zenon DEF StorageTasks
<1> HIDE DEF t
<1>4. PairingTypes'
  BY <1>0, <1>1, <1>2, <1>3 DEF PairingTypes
<1>5. WireInv'
  BY <1>0, <1>1, WireFrame
<1>6. /\ TasksOf("target")' = TasksOf("target") /\ j \in TasksOf("controller")
      /\ TasksOf("controller")' = (TasksOf("controller") \ {j}) \cup {t}
  BY <1>1, <1>3 DEF TasksOf
<1>7. \A k \in Exchanges : Offers(k)' = Offers(k)
  BY <1>1 DEF Offers
<1>8. TargetInv'
  BY <1>0, <1>1, <1>6, <1>7, TargetFrame
<1>9. /\ ctl[Owner[j.link]].phase = "persisting" /\ ctl[Owner[j.link]].link = j.link
      /\ j.link \in grants
  BY <1>0, <1>6 DEF ControllerInv
<1>10. InHand(j.link)
  BY <1>9 DEF InHand
<1>11. \A i \in TasksOf("controller") : i.link = j.link => i = j
  <2> SUFFICES ASSUME NEW i \in TasksOf("controller"), i.link = j.link
               PROVE  i = j
    OBVIOUS
  <2>1. i.wrote = j.wrote
    <3>1. i.wrote \in BOOLEAN
      BY <1>0, PairingFields DEF TasksOf
    <3> QED
      BY <1>0, <1>2, <1>6, <3>1, Zenon DEF ControllerInv
  <2>2. i \in StorageTasks /\ i.side = "controller"
    BY <1>0 DEF TasksOf, PairingTypes
  <2> QED
    BY <1>1, <1>2, <2>1, <2>2 DEF StorageTasks
<1>12. \A i \in TasksOf("controller")' :
         /\ ctl'[Owner[i.link]].phase = "persisting" /\ ctl'[Owner[i.link]].link = i.link
         /\ i.wrote <=> i.link \in accesses'
         /\ i.link \in grants'
  <2>1. /\ ctl'[Owner[t.link]].phase = "persisting" /\ ctl'[Owner[t.link]].link = t.link
        /\ t.wrote <=> t.link \in accesses'
        /\ t.link \in grants'
    BY <1>1, <1>3, <1>9
  <2>2. \A i \in TasksOf("controller") \ {j} :
          /\ ctl'[Owner[i.link]].phase = "persisting" /\ ctl'[Owner[i.link]].link = i.link
          /\ i.wrote <=> i.link \in accesses'
          /\ i.link \in grants'
    BY <1>0, <1>1, <1>11 DEF ControllerInv
  <2> QED
    BY <1>6, <2>1, <2>2
<1>13. \A k \in accesses' : /\ k \in grants'
                            /\ k \in linkUp'.controller =>
                                 ctl'[Owner[k]].phase = "persisting" /\ ctl'[Owner[k]].link = k
  BY <1>0, <1>1, <1>9 DEF ControllerInv
<1>14. /\ \A k \in Exchanges : InHand(k)' = InHand(k)
       /\ \A k \in Exchanges : OfferSpent(k)' = OfferSpent(k)
  BY <1>1 DEF InHand, OfferSpent, Offers
<1>15. ended.controller \subseteq Exchanges
  BY <1>0, PairingFields
<1>16. \A k \in Exchanges : k \in ended'.controller \/ InHand(k)' => OfferSpent(k)'
  BY <1>0, <1>1, <1>14 DEF ControllerInv
<1>17. \A k \in ended'.controller : k \notin accesses' /\ ~InHand(k)'
  BY <1>0, <1>1, <1>10, <1>14, <1>15 DEF ControllerInv
<1>18. \A d \in Controllers : ctl'[d].phase \in Exchange => ctl'[d].link \in linkUp'.controller
  BY <1>0, <1>1 DEF ControllerInv
<1> QED
  BY <1>4, <1>5, <1>8, <1>12, <1>13, <1>16, <1>17, <1>18 DEF PairingInv, ControllerInv

(* A controller goes idle and its task, if it had one, is over. *)
LEMMA ControllerLeaves ==
  ASSUME PairingInv, NEW c \in Controllers, ctl' = [ctl EXCEPT ![c] = IdleController],
         tasks' \subseteq tasks, TasksOf("target")' = TasksOf("target"),
         \A j \in TasksOf("controller")' : Owner[j.link] # c,
         pending' \subseteq pending, linkUp' \in Sides, linkUp'.target = linkUp.target,
         linkUp'.controller \subseteq linkUp.controller,
         \A k \in linkUp.controller : Owner[k] # c => k \in linkUp'.controller,
         \A k \in accesses : Owner[k] = c => k \notin linkUp'.controller,
         ended' \in Sides, ended'.target = ended.target,
         \A k \in ended'.controller :
            k \in ended.controller \/ (InHand(k) /\ k \notin accesses /\ Owner[k] = c),
         UNCHANGED <<tgt, asked, wire, grants, accesses, approved>>
  PROVE  PairingInv'
<1>0. PairingTypes /\ WireInv /\ TargetInv /\ ControllerInv
  BY DEF PairingInv
<1>1. /\ ctl' \in [Controllers -> Ctls] /\ ctl'[c].phase = "idle" /\ ctl'[c].link = NoLink
      /\ \A d \in Controllers : d # c => ctl'[d] = ctl[d]
  BY <1>0, CtlMove, IdleFacts, Zenon
<1>2. PairingTypes'
  BY <1>0, <1>1 DEF PairingTypes
<1>3. WireInv'
  BY <1>0, WireFrame
<1>4. \A k \in Exchanges : Offers(k)' = Offers(k)
  BY DEF Offers
<1>5. TargetInv'
  BY <1>0, <1>4, TargetFrame
<1>6. \A k \in Exchanges : Owner[k] \in Controllers
  BY PairingAssumption
<1>7. /\ \A k \in Exchanges : InHand(k)' => InHand(k) /\ Owner[k] # c
      /\ \A k \in Exchanges : OfferSpent(k) => OfferSpent(k)'
  BY <1>1, <1>4, <1>6 DEF InHand, OfferSpent
<1>8. /\ TasksOf("controller")' \subseteq TasksOf("controller")
      /\ \A j \in TasksOf("controller") : j.link \in Exchanges
  BY <1>0, PairingFields DEF TasksOf
<1>9. \A j \in TasksOf("controller")' :
        /\ ctl'[Owner[j.link]].phase = "persisting" /\ ctl'[Owner[j.link]].link = j.link
        /\ j.wrote <=> j.link \in accesses'
        /\ j.link \in grants'
  <2>1. \A j \in TasksOf("controller")' : ctl'[Owner[j.link]] = ctl[Owner[j.link]]
    BY <1>1, <1>6, <1>8
  <2>2. \A j \in TasksOf("controller") :
          /\ ctl[Owner[j.link]].phase = "persisting" /\ ctl[Owner[j.link]].link = j.link
          /\ j.wrote <=> j.link \in accesses
          /\ j.link \in grants
    BY <1>0 DEF ControllerInv
  <2> QED
    BY <1>8, <2>1, <2>2
<1>10. \A d \in Controllers : ctl'[d].phase \in Exchange => ctl'[d].link \in linkUp'.controller
  <2> SUFFICES ASSUME NEW d \in Controllers, ctl'[d].phase \in Exchange
               PROVE  ctl'[d].link \in linkUp'.controller
    OBVIOUS
  <2>1. d # c /\ ctl'[d] = ctl[d]
    BY <1>1 DEF Exchange
  <2>2. ctl[d].link \in linkUp.controller /\ ctl[d].phase # "idle"
    BY <1>0, <2>1 DEF ControllerInv, Exchange
  <2>3. Owner[ctl[d].link] = d
    BY <1>0, <2>2 DEF PairingTypes
  <2> QED
    BY <2>1, <2>2, <2>3
<1>11. accesses \subseteq Exchanges /\ ended'.controller \subseteq Exchanges
  BY <1>0, <1>2 DEF PairingTypes, Sides
<1>12. \A k \in accesses' : /\ k \in grants'
                            /\ k \in linkUp'.controller =>
                                 ctl'[Owner[k]].phase = "persisting" /\ ctl'[Owner[k]].link = k
  <2> SUFFICES ASSUME NEW k \in accesses
               PROVE  /\ k \in grants
                      /\ k \in linkUp'.controller =>
                           ctl'[Owner[k]].phase = "persisting" /\ ctl'[Owner[k]].link = k
    OBVIOUS
  <2>1. k \in linkUp'.controller => Owner[k] # c /\ ctl'[Owner[k]] = ctl[Owner[k]]
    BY <1>1, <1>6, <1>11
  <2>2. /\ k \in grants
        /\ k \in linkUp.controller => ctl[Owner[k]].phase = "persisting" /\ ctl[Owner[k]].link = k
    BY <1>0 DEF ControllerInv
  <2> QED
    BY <2>1, <2>2
<1>13. \A k \in Exchanges : k \in ended'.controller \/ InHand(k)' => OfferSpent(k)'
  <2>1. \A k \in Exchanges : k \in ended.controller \/ InHand(k) => OfferSpent(k)
    BY <1>0 DEF ControllerInv
  <2> QED
    BY <1>7, <2>1
<1>14. \A k \in ended'.controller : k \notin accesses' /\ ~InHand(k)'
  <2>1. \A k \in ended.controller : k \notin accesses /\ ~InHand(k)
    BY <1>0 DEF ControllerInv
  <2> QED
    BY <1>7, <1>11, <2>1
<1> QED
  BY <1>2, <1>3, <1>5, <1>9, <1>10, <1>12, <1>13, <1>14 DEF PairingInv, ControllerInv

(* The task is settled, written or not: its attempt is over with its link. *)
LEMMA SettledKeeps ==
  ASSUME PairingInv, NEW j \in tasks, persistence_settled(j)
  PROVE  PairingInv'
<1>0. PairingTypes /\ WireInv /\ TargetInv /\ ControllerInv
  BY DEF PairingInv
<1>1. /\ j.side = "controller" /\ tasks' = tasks \ {j}
      /\ UNCHANGED <<tgt, asked, wire, grants, accesses, approved>>
  BY DEF persistence_settled
<1>2. j \in TasksOf("controller") /\ j \in StorageTasks /\ j.link \in Exchanges /\ j.wrote \in BOOLEAN
  BY <1>0, <1>1, PairingFields DEF TasksOf, PairingTypes
<1>3. /\ ctl[Owner[j.link]].phase = "persisting" /\ ctl[Owner[j.link]].link = j.link
      /\ j.wrote <=> j.link \in accesses
  BY <1>0, <1>2 DEF ControllerInv
<1> DEFINE c == Owner[j.link]
<1>4. /\ ctl' = [ctl EXCEPT ![c] = IdleController] /\ linkUp' = Retired("controller", j.link)
      /\ pending' = WithoutLink(j.link)
      /\ ended' = IF j.wrote THEN ended ELSE [ended EXCEPT !.controller = @ \cup {j.link}]
  BY <1>3 DEF persistence_settled
<1>5. c \in Controllers /\ c = Owner[j.link]
  BY <1>2, PairingAssumption
<1>6. ctl[c].phase = "persisting" /\ ctl[c].link = j.link /\ InHand(j.link)
  BY <1>3 DEF InHand
<1> HIDE DEF c
<1>7. /\ linkUp' \in Sides /\ linkUp'.target = linkUp.target
      /\ linkUp'.controller = linkUp.controller \ {j.link}
  BY <1>0, <1>4, RetiredFacts
<1>8. /\ ended' \in Sides /\ ended'.target = ended.target
      /\ \A k \in ended'.controller : k \in ended.controller \/ (k = j.link /\ j.wrote = FALSE)
  <2>1. ended \in Sides
    BY <1>0 DEF PairingTypes
  <2>2. CASE j.wrote
    BY <1>4, <2>1, <2>2
  <2>3. CASE ~j.wrote
    <3>1. ended' = [ended EXCEPT !.controller = @ \cup {j.link}] /\ j.wrote = FALSE
      BY <1>2, <1>4, <2>3
    <3> QED
      BY <1>2, <2>1, <3>1 DEF Sides
  <2> QED
    BY <2>2, <2>3, Zenon
<1>9. \A k \in ended'.controller :
        k \in ended.controller \/ (InHand(k) /\ k \notin accesses /\ Owner[k] = c)
  BY <1>3, <1>5, <1>6, <1>8
<1>10. \A i \in TasksOf("controller")' : Owner[i.link] # c
  <2> SUFFICES ASSUME NEW i \in TasksOf("controller"), i # j, Owner[i.link] = c
               PROVE  FALSE
    BY <1>1 DEF TasksOf
  <2>1. i.link = j.link /\ (i.wrote <=> i.link \in accesses)
    BY <1>0, <1>6 DEF ControllerInv
  <2>2. i \in StorageTasks /\ i.side = "controller" /\ i.wrote \in BOOLEAN
    BY <1>0, PairingFields DEF TasksOf, PairingTypes
  <2>3. i.wrote = j.wrote
    BY <1>2, <1>3, <2>1, <2>2
  <2> QED
    BY <1>1, <1>2, <2>1, <2>2, <2>3 DEF StorageTasks
<1>11. TasksOf("target")' = TasksOf("target") /\ tasks' \subseteq tasks
  BY <1>1 DEF TasksOf
<1>12. \A k \in accesses : Owner[k] = c => k \notin linkUp'.controller
  BY <1>0, <1>6, <1>7 DEF ControllerInv
<1>13. /\ linkUp'.controller \subseteq linkUp.controller
       /\ \A k \in linkUp.controller : Owner[k] # c => k \in linkUp'.controller
  BY <1>5, <1>7
<1>14. pending' \subseteq pending
  BY <1>4 DEF WithoutLink
<1> QED
  BY <1>1, <1>4, <1>5, <1>7, <1>8, <1>9, <1>10, <1>11, <1>12, <1>13, <1>14, ControllerLeaves, Zenon

(* A restart forgets the machine, the tasks and the links of a controller. *)
LEMMA RestartControllerKeeps ==
  ASSUME PairingInv, NEW c \in Controllers, RestartController(c)
  PROVE  PairingInv'
<1>1. /\ ctl' = [ctl EXCEPT ![c] = IdleController]
      /\ linkUp' = [linkUp EXCEPT !.controller = {l \in @ : Owner[l] # c}]
      /\ pending' \subseteq pending
      /\ tasks' = {j \in tasks : j.side = "target" \/ Owner[j.link] # c}
      /\ UNCHANGED <<tgt, asked, wire, grants, accesses, approved, ended>>
  BY DEF RestartController
<1>2. linkUp \in Sides /\ ended \in Sides
  BY DEF PairingInv, PairingTypes
<1> DEFINE S == {l \in linkUp.controller : Owner[l] # c}
<1>3. S \subseteq Exchanges /\ linkUp' = [linkUp EXCEPT !.controller = S]
  BY <1>1, <1>2 DEF Sides
<1>4. S \subseteq linkUp.controller /\ \A k \in linkUp.controller : k \in S <=> Owner[k] # c
  OBVIOUS
<1> HIDE DEF S
<1>5. linkUp' \in Sides /\ linkUp'.target = linkUp.target /\ linkUp'.controller = S
  BY <1>2, <1>3 DEF Sides
<1>6. /\ tasks' \subseteq tasks /\ TasksOf("target")' = TasksOf("target")
      /\ \A j \in TasksOf("controller")' : Owner[j.link] # c
  BY <1>1 DEF TasksOf
<1>7. /\ \A k \in linkUp.controller : Owner[k] # c => k \in linkUp'.controller
      /\ \A k \in accesses : Owner[k] = c => k \notin linkUp'.controller
      /\ linkUp'.controller \subseteq linkUp.controller
  BY <1>4, <1>5
<1> QED
  BY <1>1, <1>2, <1>5, <1>6, <1>7, ControllerLeaves, Zenon

----------------------------------------------------------------------------
(* Target steps *)

(* A step that sends nothing and touches no controller: what is left to    *)
(* show is the target's part.                                              *)
LEMMA TargetOnly ==
  ASSUME PairingInv, UNCHANGED <<ctl, asked, pending, wire, accesses>>,
         grants \subseteq grants', linkUp'.controller = linkUp.controller,
         ended'.controller = ended.controller, approved.controller \subseteq approved'.controller,
         TasksOf("controller")' = TasksOf("controller"), PairingTypes', TargetInv'
  PROVE  PairingInv'
<1>0. PairingTypes /\ WireInv /\ ControllerInv
  BY DEF PairingInv
<1>1. \A k \in Exchanges : Offers(k)' = Offers(k)
  BY DEF Offers
<1>2. ControllerInv'
  BY <1>0, <1>1, ControllerFrame
<1>3. WireInv'
  BY <1>0, WireFrame
<1> QED
  BY <1>2, <1>3 DEF PairingInv

(* The target's attempt is over and its link is gone; if it is reported as *)
(* ended, no grant was stored for it.                                      *)
LEMMA TargetLeaves ==
  ASSUME PairingInv, tgt' = IdleTarget, tasks' \subseteq tasks, TasksOf("target")' = {},
         TasksOf("controller")' = TasksOf("controller"),
         linkUp' \in Sides, linkUp'.controller = linkUp.controller,
         linkUp'.target \subseteq linkUp.target \ {tgt.link},
         ended' \in Sides, ended'.controller = ended.controller,
         \A k \in ended'.target : k \in ended.target \/ (k = tgt.link /\ k \notin grants),
         approved' \in Sides, approved.controller \subseteq approved'.controller,
         approved.target \subseteq approved'.target,
         UNCHANGED <<ctl, asked, pending, wire, grants, accesses>>
  PROVE  PairingInv'
<1>0. PairingTypes /\ TargetInv
  BY DEF PairingInv
<1>1. PairingTypes'
  BY <1>0, IdleFacts DEF PairingTypes
<1>2. linkUp.target \subseteq Exchanges /\ linkUp'.target \subseteq Exchanges
  BY <1>0, PairingFields
<1>3. \A k \in linkUp'.target : LinkIsFresh(k)'
  <2>1. \A k \in linkUp'.target : LinkIsFresh(k) /\ k # tgt.link
    BY <1>0 DEF TargetInv
  <2> QED
    BY <2>1 DEF LinkIsFresh, Offers
<1>4. tgt'.phase = "idle"
  BY IdleFacts
<1>5. ended'.target \cap grants' = {}
  BY <1>0 DEF TargetInv
<1>6. grants' \subseteq approved'.target \cap approved'.controller
  BY <1>0 DEF TargetInv
<1>7. TargetInv'
  BY <1>3, <1>4, <1>5, <1>6 DEF TargetInv, Active
<1> QED
  BY <1>1, <1>7, TargetOnly

(* An attempt that awaits something, or only keeps its completion, has no  *)
(* storage task at the target.                                             *)
LEMMA NoTargetTask ==
  ASSUME TargetInv, tgt.phase # "authorizing"
  PROVE  TasksOf("target") = {}
BY DEF TargetInv

(* RetireTarget in any phase but the one where the grant is being stored. *)
LEMMA RetireKeeps ==
  ASSUME PairingInv, tgt.phase \in Active \cup {"completing"}, RetireTarget, tasks' = tasks,
         approved' \in Sides, approved.controller \subseteq approved'.controller,
         approved.target \subseteq approved'.target,
         UNCHANGED <<ctl, asked, pending, wire, grants, accesses>>
  PROVE  PairingInv'
<1>0. PairingTypes /\ TargetInv
  BY DEF PairingInv
<1>1. /\ tgt' = IdleTarget /\ linkUp' = Retired("target", tgt.link)
      /\ ended' = IF tgt.phase = "completing" THEN ended
                  ELSE [ended EXCEPT !.target = @ \cup {tgt.link}]
  BY DEF RetireTarget, EndTarget
<1>2. /\ linkUp' \in Sides /\ linkUp'.controller = linkUp.controller
      /\ linkUp'.target = linkUp.target \ {tgt.link}
  BY <1>0, <1>1, RetiredFacts
<1>3. tgt.link \in Exchanges /\ ended \in Sides
  BY <1>0 DEF PairingTypes, Active
<1>4. /\ ended' \in Sides /\ ended'.controller = ended.controller
      /\ \A k \in ended'.target : k \in ended.target \/ (k = tgt.link /\ k \notin grants)
  <2>1. CASE tgt.phase = "completing"
    BY <1>1, <1>3, <2>1
  <2>2. CASE tgt.phase # "completing"
    <3>1. ended' = [ended EXCEPT !.target = @ \cup {tgt.link}]
      BY <1>1, <2>2
    <3>2. /\ ended' \in Sides /\ ended'.controller = ended.controller
          /\ ended'.target = ended.target \cup {tgt.link}
      BY <1>3, <3>1 DEF Sides
    <3>3. tgt.link \notin grants
      BY <1>0, <2>2 DEF TargetInv
    <3> QED
      BY <3>2, <3>3
  <2> QED
    BY <2>1, <2>2
<1>5. TasksOf("target")' = {} /\ TasksOf("controller")' = TasksOf("controller")
  <2>1. TasksOf("target") = {}
    BY <1>0, NoTargetTask DEF Active
  <2> QED
    BY <2>1 DEF TasksOf
<1> QED
  BY <1>1, <1>2, <1>4, <1>5, TargetLeaves

(* The target's attempt goes on to await something else. *)
LEMMA AdvanceKeeps ==
  ASSUME PairingInv, tgt.phase \in Active, tgt' \in Tgts, tgt'.link = tgt.link,
         tgt'.phase \in Active,
         approved' \in Sides, approved.controller \subseteq approved'.controller,
         approved.target \subseteq approved'.target,
         tgt'.phase = "commit" => tgt.link \in approved'.target,
         tgt'.phase = "target" => tgt.link \in approved'.controller,
         UNCHANGED <<ctl, linkUp, ended, asked, pending, wire, tasks, grants, accesses>>
  PROVE  PairingInv'
<1>0. PairingTypes /\ TargetInv
  BY DEF PairingInv
<1>1. PairingTypes'
  <2>1. tgt'.link \in Exchanges
    BY <1>0 DEF PairingTypes, Active
  <2> QED
    BY <1>0, <2>1 DEF PairingTypes, Active
<1>2. TasksOf("target")' = {} /\ TasksOf("controller")' = TasksOf("controller")
  <2>1. TasksOf("target") = {}
    BY <1>0, NoTargetTask DEF Active
  <2> QED
    BY <2>1 DEF TasksOf
<1>3. \A k \in linkUp'.target : k # tgt'.link => LinkIsFresh(k)'
  <2>1. \A k \in linkUp.target : k # tgt.link => LinkIsFresh(k)
    BY <1>0 DEF TargetInv
  <2>2. \A k : LinkIsFresh(k)' = LinkIsFresh(k)
    BY DEF LinkIsFresh, Offers
  <2> QED
    BY <2>1, <2>2
<1>4. TargetInv'
  <2>1. tgt.link \in linkUp.target /\ tgt.link \notin grants /\ tgt.link \notin ended.target
    BY <1>0 DEF TargetInv
  <2>2. ended.target \cap grants = {} /\ grants \subseteq approved.target \cap approved.controller
    BY <1>0 DEF TargetInv
  <2> QED
    BY <1>2, <1>3, <2>1, <2>2 DEF TargetInv, Active
<1> QED
  BY <1>1, <1>2, <1>4, TargetOnly

(* Both users approved: the grant's storage task starts. *)
LEMMA AuthorizeKeeps ==
  ASSUME PairingInv, tgt.phase \in Active, NEW responder \in Nat, Authorize(responder),
         approved' \in Sides, approved.controller \subseteq approved'.controller,
         approved.target \subseteq approved'.target,
         tgt.link \in approved'.target \cap approved'.controller,
         UNCHANGED <<ctl, asked, pending, wire, grants, accesses>>
  PROVE  PairingInv'
<1>0. PairingTypes /\ TargetInv
  BY DEF PairingInv
<1>1. CASE RetireTarget /\ UNCHANGED tasks
  BY <1>1, RetireKeeps
<1>2. CASE /\ tgt' = [tgt EXCEPT !.phase = "authorizing", !.responder = responder]
           /\ tasks' = tasks \cup {Task("target", tgt.link)} /\ UNCHANGED <<linkUp, ended>>
  <2> DEFINE t == Task("target", tgt.link)
  <2>1. tgt.link \in Exchanges /\ tgt \in Tgts
    BY <1>0 DEF PairingTypes, Active
  <2>2. t \in StorageTasks /\ t.side = "target" /\ t.link = tgt.link /\ t.wrote = FALSE
    BY <2>1 DEF Task, StorageTasks
  <2>3. tasks' = tasks \cup {t}
    BY <1>2
  <2> HIDE DEF t
  <2>4. tgt' \in Tgts /\ tgt'.phase = "authorizing" /\ tgt'.link = tgt.link
    BY <1>2, <2>1, Zenon DEF Tgts, TgtPhases
  <2>5. PairingTypes'
    BY <1>0, <1>2, <2>1, <2>2, <2>3, <2>4 DEF PairingTypes
  <2>6. TasksOf("target")' = {t} /\ TasksOf("controller")' = TasksOf("controller")
    <3>1. TasksOf("target") = {}
      BY <1>0, NoTargetTask DEF Active
    <3> QED
      BY <2>2, <2>3, <3>1 DEF TasksOf
  <2>7. \A k \in linkUp'.target : k # tgt'.link => LinkIsFresh(k)'
    <3>1. \A k \in linkUp.target : k # tgt.link => LinkIsFresh(k)
      BY <1>0 DEF TargetInv
    <3>2. \A k : LinkIsFresh(k)' = LinkIsFresh(k)
      BY <1>2 DEF LinkIsFresh, Offers
    <3> QED
      BY <1>2, <2>4, <3>1, <3>2
  <2>8. /\ tgt.link \notin grants /\ tgt.link \notin ended.target
        /\ ended.target \cap grants = {} /\ grants \subseteq approved.target \cap approved.controller
    BY <1>0 DEF TargetInv
  <2>9. TargetInv'
    BY <1>2, <2>2, <2>4, <2>6, <2>7, <2>8 DEF TargetInv, Active
  <2> QED
    BY <1>2, <2>5, <2>6, <2>9, TargetOnly
<1> QED
  BY <1>1, <1>2 DEF Authorize

(* A begin request: an expired attempt is retired, or the link is offered, *)
(* or the offer cannot be sent and the link goes.                          *)
LEMMA IngestBeginKeeps ==
  ASSUME PairingInv, NEW r \in wire, ingest_begin(r)
  PROVE  PairingInv'
<1>0. PairingTypes /\ WireInv /\ TargetInv /\ ControllerInv
  BY DEF PairingInv
<1>1. /\ r.kind = "begin" /\ r.link \in linkUp.target
      /\ UNCHANGED <<ctl, asked, pending, tasks, grants, accesses, approved>>
  BY DEF ingest_begin
<1>2. r \in Messages /\ r.link \in Exchanges /\ r.id \in Nat /\ r.id <= asked
  BY <1>0, <1>1, PairingFields DEF PairingTypes, WireInv
<1>3. TasksOf("target")' = TasksOf("target") /\ TasksOf("controller")' = TasksOf("controller")
  BY <1>1 DEF TasksOf
<1>4. approved' \in Sides
  BY <1>0, <1>1 DEF PairingTypes
<1>5. CASE ExpiredTarget /\ RetireTarget /\ UNCHANGED wire
  BY <1>1, <1>4, <1>5, RetireKeeps DEF ExpiredTarget
<1>6. ASSUME tgt.phase = "idle"
      PROVE  r.link # tgt.link /\ LinkIsFresh(r.link) /\ TasksOf("target") = {}
  <2>1. tgt.link = NoLink
    BY <1>0, <1>6 DEF PairingTypes
  <2> QED
    BY <1>0, <1>1, <1>2, <1>6, <2>1, NoTargetTask, PairingAssumption DEF TargetInv
<1>7. CASE /\ tgt.phase = "idle" /\ tgt' = [IdleTarget EXCEPT !.phase = "both", !.link = r.link]
           /\ wire' = wire \cup {[r EXCEPT !.kind = "offered"]} /\ UNCHANGED <<linkUp, ended>>
  <2> DEFINE s == [r EXCEPT !.kind = "offered"]
  <2>1. s \in Messages /\ s.kind = "offered" /\ s.link = r.link /\ s.id = r.id
    BY <1>2 DEF Messages
  <2>2. wire' = wire \cup {s}
    BY <1>7
  <2> HIDE DEF s
  <2>3. tgt' \in Tgts /\ tgt'.phase = "both" /\ tgt'.link = r.link
    BY <1>2, <1>7, Zenon DEF IdleTarget, Tgts, TgtPhases, Active
  <2>4. PairingTypes'
    BY <1>0, <1>1, <1>2, <1>7, <2>1, <2>2, <2>3 DEF PairingTypes
  <2>5. Offers(r.link) = {} /\ \A k : k # r.link => Offers(k)' = Offers(k)
    BY <1>6, <1>7, <2>1, <2>2 DEF Offers, LinkIsFresh
  <2>6. ControllerInv'
    BY <1>0, <1>1, <1>3, <1>7, <2>5, ControllerFrame
  <2>7. WireInv'
    <3>1. \A x \in wire' : x.kind = "completed" => x.link \in grants'
      BY <1>0, <1>1, <2>1, <2>2 DEF WireInv
    <3>2. \A x \in wire' : x.kind = "commit" => x.link \in approved'.controller
      BY <1>0, <1>1, <2>1, <2>2 DEF WireInv
    <3>3. \A x \in wire' : x.kind \in {"begin", "offered"} => x.id <= asked'
      BY <1>0, <1>1, <1>2, <2>1, <2>2 DEF WireInv
    <3>4. \A x \in wire : x.kind = "offered" => x.link # r.link
      BY <2>5 DEF Offers
    <3>5. \A x, y \in wire' : /\ x.kind = "offered" /\ y.kind = "offered" /\ x.link = y.link
                              => x.id = y.id
      <4>1. \A x, y \in wire : /\ x.kind = "offered" /\ y.kind = "offered" /\ x.link = y.link
                               => x.id = y.id
        BY <1>0 DEF WireInv
      <4> QED
        BY <2>1, <2>2, <3>4, <4>1
    <3> QED
      BY <3>1, <3>2, <3>3, <3>5 DEF WireInv
  <2>8. \A k \in linkUp'.target : k # tgt'.link => LinkIsFresh(k)'
    <3>1. \A k \in linkUp.target : LinkIsFresh(k)
      <4>1. tgt.link \notin linkUp.target
        BY <1>0, <1>7, PairingFields, PairingAssumption DEF PairingTypes
      <4> QED
        BY <1>0, <4>1 DEF TargetInv
    <3> QED
      BY <1>1, <1>7, <2>3, <2>5, <3>1 DEF LinkIsFresh
  <2>9. TasksOf("target")' = {}
    BY <1>3, <1>6, <1>7
  <2>10. r.link \in linkUp'.target /\ r.link \notin grants' /\ r.link \notin ended'.target
    BY <1>1, <1>6, <1>7 DEF LinkIsFresh
  <2>11. ended.target \cap grants = {} /\ grants \subseteq approved.target \cap approved.controller
    BY <1>0 DEF TargetInv
  <2>12. TargetInv'
    BY <1>1, <1>7, <2>3, <2>8, <2>9, <2>10, <2>11 DEF TargetInv, Active
  <2> QED
    BY <2>4, <2>6, <2>7, <2>12 DEF PairingInv
<1>8. CASE /\ tgt.phase = "idle" /\ linkUp' = Retired("target", r.link)
           /\ ended' = [ended EXCEPT !.target = @ \cup {r.link}] /\ UNCHANGED <<tgt, wire>>
  <2>1. /\ linkUp' \in Sides /\ linkUp'.controller = linkUp.controller
        /\ linkUp'.target = linkUp.target \ {r.link}
    BY <1>0, <1>8, RetiredFacts
  <2>2. ended \in Sides
    BY <1>0 DEF PairingTypes
  <2>3. /\ ended' \in Sides /\ ended'.controller = ended.controller
        /\ ended'.target = ended.target \cup {r.link}
    BY <1>2, <1>8, <2>2 DEF Sides
  <2>4. PairingTypes'
    BY <1>0, <1>1, <1>8, <2>1, <2>3 DEF PairingTypes
  <2>5. \A k \in linkUp'.target : k # tgt'.link => LinkIsFresh(k)'
    <3>1. \A k \in linkUp.target : k # tgt.link => LinkIsFresh(k)
      BY <1>0 DEF TargetInv
    <3>2. \A k : Offers(k)' = Offers(k)
      BY <1>8 DEF Offers
    <3> QED
      BY <1>1, <1>8, <2>1, <2>3, <3>1, <3>2 DEF LinkIsFresh
  <2>6. r.link \notin grants
    BY <1>6, <1>8 DEF LinkIsFresh
  <2>7. ended.target \cap grants = {} /\ grants \subseteq approved.target \cap approved.controller
    BY <1>0 DEF TargetInv
  <2>8. TasksOf("target")' = {}
    BY <1>3, <1>6, <1>8
  <2>9. TargetInv'
    BY <1>1, <1>8, <2>3, <2>5, <2>6, <2>7, <2>8 DEF TargetInv, Active
  <2> QED
    BY <1>1, <1>3, <1>8, <2>1, <2>3, <2>4, <2>9, TargetOnly
<1>9. \/ ExpiredTarget /\ RetireTarget /\ UNCHANGED wire
      \/ /\ tgt.phase = "idle" /\ tgt' = [IdleTarget EXCEPT !.phase = "both", !.link = r.link]
         /\ wire' = wire \cup {[r EXCEPT !.kind = "offered"]} /\ UNCHANGED <<linkUp, ended>>
      \/ /\ tgt.phase = "idle" /\ linkUp' = Retired("target", r.link)
         /\ ended' = [ended EXCEPT !.target = @ \cup {r.link}] /\ UNCHANGED <<tgt, wire>>
  BY DEF ingest_begin
<1> QED
  BY <1>5, <1>7, <1>8, <1>9

(* A completion is sent for a link whose grant is stored. *)
LEMMA CompletionSent ==
  ASSUME PairingTypes, WireInv, NEW m \in Messages, m.kind = "completed", m.link \in grants,
         wire' = wire \cup {m}, UNCHANGED <<asked, grants, approved>>
  PROVE  /\ wire' \subseteq Messages /\ WireInv'
         /\ \A k : Offers(k)' = Offers(k)
<1>1. wire' \subseteq Messages
  BY DEF PairingTypes
<1>2. \A k : Offers(k)' = Offers(k)
  BY DEF Offers
<1>3. /\ \A x \in wire' : x.kind = "completed" => x.link \in grants'
      /\ \A x \in wire' : x.kind = "commit" => x.link \in approved'.controller
      /\ \A x \in wire' : x.kind \in {"begin", "offered"} => x.id <= asked'
  BY DEF WireInv
<1>4. \A x, y \in wire' : /\ x.kind = "offered" /\ y.kind = "offered" /\ x.link = y.link
                          => x.id = y.id
  BY DEF WireInv
<1> QED
  BY <1>1, <1>2, <1>3, <1>4 DEF WireInv

(* A commit reaches the target: it waits for the target's user, starts     *)
(* the storage task, or is answered again from the completion kept.        *)
LEMMA IngestCommitKeeps ==
  ASSUME PairingInv, NEW r \in wire, ingest_commit(r)
  PROVE  PairingInv'
<1>0. PairingTypes /\ WireInv /\ TargetInv /\ ControllerInv
  BY DEF PairingInv
<1>1. /\ r.kind = "commit" /\ r.link \in linkUp.target
      /\ UNCHANGED <<ctl, asked, pending, grants, accesses, approved>>
  BY DEF ingest_commit
<1>2. r \in Messages /\ r.link \in Exchanges /\ r.id \in Nat /\ r.link \in approved.controller
  BY <1>0, <1>1, PairingFields DEF PairingTypes, WireInv
<1>3. approved' \in Sides
  BY <1>0, <1>1 DEF PairingTypes
<1>4. CASE ExpiredTarget /\ RetireTarget /\ UNCHANGED <<wire, tasks>>
  BY <1>1, <1>3, <1>4, RetireKeeps DEF ExpiredTarget
<1>5. CASE /\ r.link = tgt.link /\ tgt.phase = "both"
           /\ tgt' = [tgt EXCEPT !.phase = "target", !.responder = r.id]
           /\ UNCHANGED <<linkUp, ended, wire, tasks>>
  <2>1. tgt \in Tgts
    BY <1>0 DEF PairingTypes
  <2>2. tgt' \in Tgts /\ tgt'.phase = "target" /\ tgt'.link = tgt.link
    BY <1>2, <1>5, <2>1, Zenon DEF Tgts, TgtPhases, Active
  <2>3. tgt.phase \in Active /\ tgt'.phase \in Active
    BY <1>5, <2>2 DEF Active
  <2> QED
    BY <1>1, <1>2, <1>3, <1>5, <2>2, <2>3, AdvanceKeeps
<1>6. CASE r.link = tgt.link /\ tgt.phase = "commit" /\ Authorize(r.id) /\ UNCHANGED wire
  <2>1. tgt.phase \in Active /\ tgt.link \in approved'.target \cap approved'.controller
    BY <1>0, <1>1, <1>2, <1>6 DEF TargetInv, Active
  <2> QED
    BY <1>1, <1>2, <1>3, <1>6, <2>1, AuthorizeKeeps
<1>7. CASE /\ r.link = tgt.link /\ tgt.phase = "completing"
           /\ wire' = wire \cup {[r EXCEPT !.kind = "completed"]}
           /\ UNCHANGED <<tgt, linkUp, ended, tasks>>
  <2> DEFINE s == [r EXCEPT !.kind = "completed"]
  <2>1. s \in Messages /\ s.kind = "completed" /\ s.link = r.link
    BY <1>2 DEF Messages
  <2>2. wire' = wire \cup {s}
    BY <1>7
  <2> HIDE DEF s
  <2>3. s.link \in grants
    BY <1>0, <1>7, <2>1 DEF TargetInv
  <2>4. wire' \subseteq Messages /\ WireInv' /\ \A k : Offers(k)' = Offers(k)
    BY <1>0, <1>1, <2>1, <2>2, <2>3, CompletionSent
  <2>5. PairingTypes'
    <3>1. pending' \subseteq wire'
      BY <1>0, <1>1, <2>2 DEF PairingTypes
    <3> QED
      BY <1>0, <1>1, <1>7, <2>4, <3>1 DEF PairingTypes
  <2>6. TasksOf("target")' = TasksOf("target") /\ TasksOf("controller")' = TasksOf("controller")
    BY <1>7 DEF TasksOf
  <2>7. TargetInv'
    BY <1>0, <1>1, <1>7, <2>4, <2>6, TargetFrame
  <2>8. ControllerInv'
    BY <1>0, <1>1, <1>7, <2>4, <2>6, ControllerFrame
  <2> QED
    BY <2>4, <2>5, <2>7, <2>8 DEF PairingInv
<1> QED
  BY <1>4, <1>5, <1>6, <1>7 DEF ingest_commit, validate_commit

(* The target's user approves, before or after the commit. *)
LEMMA TargetApproveKeeps ==
  ASSUME PairingInv, target_approve
  PROVE  PairingInv'
<1>0. PairingTypes /\ TargetInv
  BY DEF PairingInv
<1>1. UNCHANGED <<ctl, asked, pending, wire, grants, accesses>>
  BY DEF target_approve
<1>2. approved \in Sides /\ tgt \in Tgts /\ tgt.responder \in Nat
  BY <1>0, PairingFields DEF PairingTypes
<1>3. CASE ExpiredTarget /\ RetireTarget /\ UNCHANGED <<approved, tasks>>
  BY <1>1, <1>2, <1>3, RetireKeeps DEF ExpiredTarget
<1>4. CASE /\ tgt.phase \in {"both", "target"}
           /\ approved' = [approved EXCEPT !.target = @ \cup {tgt.link}]
           /\ IF tgt.phase = "both"
              THEN tgt' = [tgt EXCEPT !.phase = "commit"] /\ UNCHANGED <<linkUp, ended, tasks>>
              ELSE Authorize(tgt.responder)
  <2>1. tgt.link \in Exchanges /\ tgt.phase \in Active
    BY <1>0, <1>4 DEF PairingTypes, Active
  <2>2. /\ approved' \in Sides /\ approved'.controller = approved.controller
        /\ approved'.target = approved.target \cup {tgt.link}
    BY <1>2, <1>4, <2>1 DEF Sides
  <2>3. CASE tgt.phase = "both"
    <3>1. tgt' = [tgt EXCEPT !.phase = "commit"] /\ UNCHANGED <<linkUp, ended, tasks>>
      BY <1>4, <2>3
    <3>2. tgt' \in Tgts /\ tgt'.phase = "commit" /\ tgt'.link = tgt.link
      BY <1>2, <3>1 DEF Tgts, TgtPhases, Active
    <3>3. tgt'.phase \in Active
      BY <3>2 DEF Active
    <3> QED
      BY <1>1, <2>1, <2>2, <3>1, <3>2, <3>3, AdvanceKeeps
  <2>4. CASE tgt.phase = "target"
    <3>1. Authorize(tgt.responder) /\ tgt.link \in approved.controller
      BY <1>0, <1>4, <2>4 DEF TargetInv
    <3> QED
      BY <1>1, <1>2, <2>1, <2>2, <3>1, AuthorizeKeeps
  <2> QED
    BY <1>4, <2>3, <2>4
<1> QED
  BY <1>3, <1>4 DEF target_approve

(* The target's user rejects, or its deadline is acted on. *)
LEMMA TargetRejectExpireKeep ==
  ASSUME PairingInv, target_reject \/ target_expire
  PROVE  PairingInv'
<1>1. tgt.phase \in Active \cup {"completing"}
  BY DEF target_reject, target_expire, ExpiredTarget, Active
<1>2. RetireTarget /\ UNCHANGED <<ctl, asked, pending, wire, tasks, grants, accesses, approved>>
  BY DEF target_reject, target_expire
<1>3. approved' \in Sides
  BY <1>2 DEF PairingInv, PairingTypes
<1> QED
  BY <1>1, <1>2, <1>3, RetireKeeps

(* Links close at the target; an attempt whose grant is being stored stays. *)
LEMMA CloseKeeps ==
  ASSUME PairingInv, NEW links \in SUBSET Exchanges, CloseAtTarget(links),
         UNCHANGED <<ctl, asked, pending, wire, tasks, grants, accesses, approved>>
  PROVE  PairingInv'
<1>0. PairingTypes /\ TargetInv
  BY DEF PairingInv
<1>1. linkUp \in Sides /\ ended \in Sides /\ approved \in Sides
  BY <1>0 DEF PairingTypes
<1>2. /\ linkUp' \in Sides /\ linkUp'.controller = linkUp.controller
      /\ linkUp'.target = linkUp.target \ links
  <2>1. linkUp' = [linkUp EXCEPT !.target = @ \ links]
    BY DEF CloseAtTarget
  <2> QED
    BY <1>1, <2>1 DEF Sides
<1>3. TasksOf("target")' = TasksOf("target") /\ TasksOf("controller")' = TasksOf("controller")
  BY DEF TasksOf
<1>4. CASE tgt.link \in links /\ tgt.phase \in Active \cup {"completing"}
  <2>1. /\ tgt' = IdleTarget
        /\ ended' = IF tgt.phase = "completing" THEN ended
                    ELSE [ended EXCEPT !.target = @ \cup {tgt.link}]
    BY <1>4 DEF CloseAtTarget, EndTarget
  <2>2. /\ ended' \in Sides /\ ended'.controller = ended.controller
        /\ \A k \in ended'.target : k \in ended.target \/ (k = tgt.link /\ k \notin grants)
    <3>1. CASE tgt.phase = "completing"
      BY <1>1, <2>1, <3>1
    <3>2. CASE tgt.phase # "completing"
      <4>1. ended' = [ended EXCEPT !.target = @ \cup {tgt.link}]
        BY <2>1, <3>2
      <4>2. /\ ended' \in Sides /\ ended'.controller = ended.controller
            /\ ended'.target = ended.target \cup {tgt.link}
        BY <1>1, <1>4, <4>1 DEF Sides
      <4>3. tgt.link \notin grants
        BY <1>0, <1>4, <3>2 DEF TargetInv
      <4> QED
        BY <4>2, <4>3
    <3> QED
      BY <3>1, <3>2
  <2>3. TasksOf("target")' = {}
    BY <1>0, <1>3, <1>4, NoTargetTask DEF Active
  <2> QED
    BY <1>1, <1>2, <1>3, <1>4, <2>1, <2>2, <2>3, TargetLeaves
<1>5. CASE ~(tgt.link \in links /\ tgt.phase \in Active \cup {"completing"})
  <2>1. UNCHANGED <<tgt, ended>>
    BY <1>5 DEF CloseAtTarget
  <2>2. PairingTypes'
    BY <1>0, <1>2, <2>1 DEF PairingTypes
  <2>3. \A k \in linkUp'.target : k # tgt'.link => LinkIsFresh(k)'
    <3>1. \A k \in linkUp.target : k # tgt.link => LinkIsFresh(k)
      BY <1>0 DEF TargetInv
    <3>2. \A k : LinkIsFresh(k)' = LinkIsFresh(k)
      BY <2>1 DEF LinkIsFresh, Offers
    <3> QED
      BY <1>2, <2>1, <3>1, <3>2
  <2>4. TargetInv'
    BY <1>0, <1>2, <1>3, <1>5, <2>1, <2>3 DEF TargetInv
  <2> QED
    BY <1>2, <1>3, <2>1, <2>2, <2>4, TargetOnly
<1> QED
  BY <1>4, <1>5

(* The target has one storage task at most, the one of its attempt. *)
LEMMA OneTargetTask ==
  ASSUME PairingTypes, TargetInv, NEW i \in TasksOf("target"), NEW j \in TasksOf("target")
  PROVE  i = j
<1>1. i \in StorageTasks /\ j \in StorageTasks /\ i.side = j.side
  BY DEF TasksOf, PairingTypes
<1>2. i.wrote \in BOOLEAN /\ j.wrote \in BOOLEAN
  BY PairingFields DEF TasksOf
<1>3. i.link = j.link /\ (i.wrote <=> j.wrote)
  BY DEF TargetInv
<1>4. i.wrote = j.wrote
  BY <1>2, <1>3
<1> QED
  BY <1>1, <1>3, <1>4 DEF StorageTasks

(* The target's task writes the grant of the attempt being authorized. *)
LEMMA StoreGrantKeeps ==
  ASSUME PairingInv, NEW j \in tasks, StoreGrant(j)
  PROVE  PairingInv'
<1>0. PairingTypes /\ TargetInv
  BY DEF PairingInv
<1> DEFINE t == [j EXCEPT !.wrote = TRUE]
<1>1. /\ j.side = "target" /\ ~j.wrote /\ grants' = grants \cup {j.link}
      /\ tasks' = (tasks \ {j}) \cup {t}
      /\ UNCHANGED <<ctl, tgt, linkUp, asked, pending, wire, accesses, approved, ended>>
  BY DEF StoreGrant
<1>2. j \in StorageTasks /\ j.link \in Exchanges
  BY <1>0, PairingFields DEF PairingTypes
<1>3. t \in StorageTasks /\ t.side = "target" /\ t.link = j.link /\ t.wrote = TRUE
  BY <1>1, <1>2, Zenon DEF StorageTasks
<1> HIDE DEF t
<1>4. PairingTypes'
  BY <1>0, <1>1, <1>2, <1>3 DEF PairingTypes
<1>5. j \in TasksOf("target") /\ TasksOf("controller")' = TasksOf("controller")
  BY <1>1, <1>3 DEF TasksOf
<1>6. TasksOf("target") = {j}
  BY <1>0, <1>5, OneTargetTask
<1>7. TasksOf("target")' = {t}
  BY <1>1, <1>3, <1>6 DEF TasksOf
<1>8. /\ tgt.phase = "authorizing" /\ tgt.link = j.link
      /\ tgt.link \notin ended.target /\ tgt.link \in approved.target \cap approved.controller
  BY <1>0, <1>5 DEF TargetInv
<1>9. \A k \in linkUp'.target : k # tgt'.link => LinkIsFresh(k)'
  <2>1. \A k \in linkUp.target : k # tgt.link => LinkIsFresh(k)
    BY <1>0 DEF TargetInv
  <2> QED
    BY <1>1, <1>8, <2>1 DEF LinkIsFresh, Offers
<1>10. ended.target \cap grants = {} /\ grants \subseteq approved.target \cap approved.controller
  BY <1>0 DEF TargetInv
<1>11. TargetInv'
  BY <1>1, <1>3, <1>7, <1>8, <1>9, <1>10 DEF TargetInv, Active
<1> QED
  BY <1>1, <1>4, <1>5, <1>11, TargetOnly

(* The grant is stored, and only now the completion goes out. *)
LEMMA PersistedKeeps ==
  ASSUME PairingInv, NEW j \in tasks, authorization_persisted(j)
  PROVE  PairingInv'
<1>0. PairingTypes /\ WireInv /\ TargetInv /\ ControllerInv
  BY DEF PairingInv
<1> DEFINE m == [kind |-> "completed", link |-> j.link, id |-> tgt.responder]
<1>1. /\ j.side = "target" /\ tgt.link = j.link /\ j.wrote /\ tasks' = tasks \ {j}
      /\ tgt' = [tgt EXCEPT !.phase = "completing"]
      /\ wire' = wire \/ wire' = wire \cup {m}
      /\ UNCHANGED <<ctl, linkUp, asked, pending, grants, accesses, approved, ended>>
  BY DEF authorization_persisted, Authorizing
<1>2. j.link \in Exchanges /\ tgt \in Tgts /\ tgt.responder \in Nat
  BY <1>0, PairingFields DEF PairingTypes
<1>3. m \in Messages /\ m.kind = "completed" /\ m.link = j.link
  BY <1>2 DEF Messages
<1> HIDE DEF m
<1>4. j \in TasksOf("target") /\ TasksOf("controller")' = TasksOf("controller")
  BY <1>1 DEF TasksOf
<1>5. TasksOf("target")' = {}
  <2>1. TasksOf("target") = {j}
    BY <1>0, <1>4, OneTargetTask
  <2> QED
    BY <1>1, <2>1 DEF TasksOf
<1>6. j.link \in grants
  BY <1>0, <1>1, <1>4 DEF TargetInv
<1>7. wire' \subseteq Messages /\ WireInv' /\ \A k : Offers(k)' = Offers(k)
  <2>1. CASE wire' = wire
    <3>1. WireInv' /\ \A k : Offers(k)' = Offers(k)
      BY <1>0, <1>1, <2>1, WireFrame DEF Offers
    <3> QED
      BY <1>0, <2>1, <3>1 DEF PairingTypes
  <2>2. CASE wire' = wire \cup {m}
    BY <1>0, <1>1, <1>3, <1>6, <2>2, CompletionSent
  <2> QED
    BY <1>1, <2>1, <2>2
<1>8. tgt' \in Tgts /\ tgt'.phase = "completing" /\ tgt'.link = tgt.link
  BY <1>1, <1>2 DEF Tgts, TgtPhases
<1>9. PairingTypes'
  <2>1. pending' \subseteq wire' /\ tasks' \subseteq StorageTasks
    BY <1>0, <1>1 DEF PairingTypes
  <2> QED
    BY <1>0, <1>1, <1>2, <1>7, <1>8, <2>1 DEF PairingTypes
<1>10. ControllerInv'
  BY <1>0, <1>1, <1>4, <1>7, ControllerFrame
<1>11. \A k \in linkUp'.target : k # tgt'.link => LinkIsFresh(k)'
  <2>1. \A k \in linkUp.target : k # tgt.link => LinkIsFresh(k)
    BY <1>0 DEF TargetInv
  <2> QED
    BY <1>1, <1>7, <1>8, <2>1 DEF LinkIsFresh
<1>12. ended.target \cap grants = {} /\ grants \subseteq approved.target \cap approved.controller
  BY <1>0 DEF TargetInv
<1>13. TargetInv'
  BY <1>1, <1>5, <1>6, <1>8, <1>11, <1>12 DEF TargetInv, Active
<1> QED
  BY <1>7, <1>9, <1>10, <1>13 DEF PairingInv

(* The grant was not stored: the attempt is over with its link. *)
LEMMA FailedKeeps ==
  ASSUME PairingInv, NEW j \in tasks, authorization_failed(j)
  PROVE  PairingInv'
<1>0. PairingTypes /\ TargetInv
  BY DEF PairingInv
<1>1. /\ j.side = "target" /\ tgt.phase = "authorizing" /\ tgt.link = j.link /\ ~j.wrote
      /\ tasks' = tasks \ {j}
      /\ tgt' = IdleTarget /\ linkUp' = Retired("target", tgt.link)
      /\ ended' = [ended EXCEPT !.target = @ \cup {tgt.link}]
      /\ UNCHANGED <<ctl, asked, pending, wire, grants, accesses, approved>>
  BY DEF authorization_failed, Authorizing, RetireTarget, EndTarget
<1>2. /\ linkUp' \in Sides /\ linkUp'.controller = linkUp.controller
      /\ linkUp'.target = linkUp.target \ {tgt.link}
  BY <1>0, <1>1, RetiredFacts
<1>3. tgt.link \in Exchanges /\ ended \in Sides /\ approved \in Sides
  BY <1>0, <1>1 DEF PairingTypes
<1>4. /\ ended' \in Sides /\ ended'.controller = ended.controller
      /\ ended'.target = ended.target \cup {tgt.link}
  BY <1>1, <1>3 DEF Sides
<1>5. j \in TasksOf("target") /\ TasksOf("controller")' = TasksOf("controller")
  BY <1>1 DEF TasksOf
<1>6. TasksOf("target")' = {}
  <2>1. TasksOf("target") = {j}
    BY <1>0, <1>5, OneTargetTask
  <2> QED
    BY <1>1, <2>1 DEF TasksOf
<1>7. tgt.link \notin grants
  BY <1>0, <1>1, <1>5 DEF TargetInv
<1> QED
  BY <1>1, <1>2, <1>3, <1>4, <1>5, <1>6, <1>7, TargetLeaves

(* A restart forgets the target's machine, its task and its links. *)
LEMMA RestartTargetKeeps ==
  ASSUME PairingInv, RestartTarget
  PROVE  PairingInv'
<1>0. PairingTypes /\ TargetInv
  BY DEF PairingInv
<1>1. /\ tgt' = IdleTarget /\ linkUp' = [linkUp EXCEPT !.target = {}]
      /\ tasks' = {j \in tasks : j.side # "target"}
      /\ ended' = [ended EXCEPT !.target = @ \cup ({tgt.link} \ (grants \cup {NoLink}))]
      /\ UNCHANGED <<ctl, asked, pending, wire, grants, accesses, approved>>
  BY DEF RestartTarget
<1>2. linkUp \in Sides /\ ended \in Sides /\ approved \in Sides
  BY <1>0 DEF PairingTypes
<1>3. /\ linkUp' \in Sides /\ linkUp'.controller = linkUp.controller /\ linkUp'.target = {}
  BY <1>1, <1>2 DEF Sides
<1>4. {tgt.link} \ (grants \cup {NoLink}) \subseteq Exchanges
  BY <1>0, PairingFields
<1>5. /\ ended' \in Sides /\ ended'.controller = ended.controller
      /\ ended'.target = ended.target \cup ({tgt.link} \ (grants \cup {NoLink}))
  BY <1>1, <1>2, <1>4 DEF Sides
<1>6. /\ TasksOf("target")' = {} /\ TasksOf("controller")' = TasksOf("controller")
      /\ tasks' \subseteq tasks
  BY <1>1 DEF TasksOf
<1> QED
  BY <1>1, <1>2, <1>3, <1>5, <1>6, TargetLeaves

----------------------------------------------------------------------------
(* Deadlines, and the whole of the next-state relation *)

(* Nothing the invariant speaks of changes but the phase-neutral flags. *)
LEMMA SameKeeps ==
  ASSUME PairingInv, PairingTypes', tgt'.phase = tgt.phase, tgt'.link = tgt.link,
         \A c \in Controllers : ctl'[c].phase = ctl[c].phase /\ ctl'[c].link = ctl[c].link,
         UNCHANGED <<linkUp, asked, pending, wire, tasks, grants, accesses, approved, ended>>
  PROVE  PairingInv'
<1>0. PairingTypes /\ WireInv /\ TargetInv /\ ControllerInv
  BY DEF PairingInv
<1>1. WireInv'
  BY <1>0, WireFrame
<1>2. /\ \A k : Offers(k)' = Offers(k) /\ LinkIsFresh(k)' = LinkIsFresh(k)
      /\ \A k : OfferSpent(k)' = OfferSpent(k)
      /\ TasksOf("target")' = TasksOf("target") /\ TasksOf("controller")' = TasksOf("controller")
  BY DEF Offers, LinkIsFresh, OfferSpent, TasksOf
<1>3. TargetInv'
  BY <1>0, <1>2 DEF TargetInv
<1>4. \A k \in Exchanges : Owner[k] \in Controllers
  BY PairingAssumption
<1>5. \A k \in Exchanges : InHand(k)' = InHand(k)
  BY <1>4 DEF InHand
<1>6. ended.controller \subseteq Exchanges
  BY <1>0, PairingFields
<1>7. \A j \in TasksOf("controller")' :
        /\ ctl'[Owner[j.link]].phase = "persisting" /\ ctl'[Owner[j.link]].link = j.link
        /\ j.wrote <=> j.link \in accesses'
        /\ j.link \in grants'
  BY <1>0, <1>2, <1>4, PersistingKept
<1>8. \A k \in accesses' : /\ k \in grants'
                           /\ k \in linkUp'.controller =>
                                ctl'[Owner[k]].phase = "persisting" /\ ctl'[Owner[k]].link = k
  BY <1>0, <1>4, PersistingKept
<1>9. /\ \A d \in Controllers : ctl'[d].phase \in Exchange => ctl'[d].link \in linkUp'.controller
      /\ \A k \in Exchanges : k \in ended'.controller \/ InHand(k)' => OfferSpent(k)'
      /\ \A k \in ended'.controller : k \notin accesses' /\ ~InHand(k)'
  BY <1>0, <1>2, <1>5, <1>6 DEF ControllerInv
<1>10. ControllerInv'
  BY <1>7, <1>8, <1>9 DEF ControllerInv
<1> QED
  BY <1>1, <1>3, <1>10 DEF PairingInv

(* A deadline passes; nobody has acted on it yet. *)
LEMMA DeadlineKeeps ==
  ASSUME PairingInv, DeadlinePasses
  PROVE  PairingInv'
<1>0. PairingTypes
  BY DEF PairingInv
<1>1. UNCHANGED <<linkUp, asked, pending, wire, tasks, grants, accesses, approved, ended>>
  BY DEF DeadlinePasses
<1>2. CASE \E c \in Controllers : ctl' = [ctl EXCEPT ![c].due = TRUE] /\ UNCHANGED tgt
  <2>1. PICK c \in Controllers : ctl' = [ctl EXCEPT ![c].due = TRUE] /\ UNCHANGED tgt
    BY <1>2, Zenon
  <2>2. ctl[c] \in Ctls
    BY <1>0, PairingFields
  <2> DEFINE m == [ctl[c] EXCEPT !.due = TRUE]
  <2>3. m \in Ctls /\ m.phase = ctl[c].phase /\ m.link = ctl[c].link /\ ctl' = [ctl EXCEPT ![c] = m]
    BY <2>1, <2>2, Zenon DEF Ctls
  <2> HIDE DEF m
  <2>4. /\ ctl' \in [Controllers -> Ctls] /\ ctl'[c] = m
        /\ \A d \in Controllers : d # c => ctl'[d] = ctl[d]
    BY <1>0, <2>3, CtlMove, Zenon
  <2>5. \A d \in Controllers : ctl'[d].phase = ctl[d].phase /\ ctl'[d].link = ctl[d].link
    BY <2>3, <2>4
  <2>6. PairingTypes'
    BY <1>0, <1>1, <2>1, <2>4, <2>5 DEF PairingTypes
  <2> QED
    BY <1>1, <2>1, <2>5, <2>6, SameKeeps
<1>3. CASE tgt' = [tgt EXCEPT !.due = TRUE] /\ UNCHANGED ctl
  <2>1. tgt \in Tgts
    BY <1>0 DEF PairingTypes
  <2>2. tgt' \in Tgts /\ tgt'.phase = tgt.phase /\ tgt'.link = tgt.link
    BY <1>3, <2>1, Zenon DEF Tgts
  <2>3. PairingTypes'
    BY <1>0, <1>1, <1>3, <2>2 DEF PairingTypes
  <2> QED
    BY <1>1, <1>3, <2>2, <2>3, SameKeeps
<1> QED
  BY <1>2, <1>3 DEF DeadlinePasses

(* Every step keeps the invariant. *)
LEMMA NextPairing == PairingInv /\ [PNext]_pVars => PairingInv'
<1> SUFFICES ASSUME PairingInv, [PNext]_pVars
             PROVE  PairingInv'
  OBVIOUS
<1>1. ASSUME NEW c \in Controllers, ControllerStep(c)
      PROVE  PairingInv'
  BY <1>1, BeginKeeps, ResponseKeeps, ApproveKeeps, RejectExpireKeep, RestartControllerKeeps
     DEF ControllerStep
<1>2. ASSUME NEW q \in pending, request_failed(q)
      PROVE  PairingInv'
  BY <1>2, RequestFailedKeeps
<1>3. ASSUME NEW l \in Exchanges, controller_close_link(l) \/ target_close_link(l)
      PROVE  PairingInv'
  <2>1. CASE controller_close_link(l)
    BY <2>1, ControllerCloseKeeps
  <2>2. CASE target_close_link(l)
    <3>1. {l} \in SUBSET Exchanges /\ CloseAtTarget({l})
          /\ UNCHANGED <<ctl, asked, pending, wire, tasks, grants, accesses, approved>>
      BY <2>2 DEF target_close_link
    <3> QED
      BY <3>1, CloseKeeps
  <2> QED
    BY <1>3, <2>1, <2>2
<1>4. CASE open_pairing \/ UNCHANGED pVars
  <2>1. UNCHANGED <<ctl, tgt, linkUp, asked, pending, wire, tasks, grants, accesses, approved, ended>>
    BY <1>4 DEF open_pairing, pVars
  <2>2. PairingTypes'
    BY <2>1 DEF PairingInv, PairingTypes
  <2> QED
    BY <2>1, <2>2, SameKeeps
<1>5. CASE close_pairing
  <2>1. Exchanges \in SUBSET Exchanges /\ CloseAtTarget(Exchanges)
        /\ UNCHANGED <<ctl, asked, pending, wire, tasks, grants, accesses, approved>>
    BY <1>5 DEF close_pairing
  <2> QED
    BY <2>1, CloseKeeps
<1>6. CASE TargetStep
  BY <1>4, <1>5, <1>6, IngestBeginKeeps, IngestCommitKeeps, TargetApproveKeeps,
     TargetRejectExpireKeep, RestartTargetKeeps DEF TargetStep
<1>7. ASSUME NEW j \in tasks, StorageStep(j)
      PROVE  PairingInv'
  BY <1>7, StoreGrantKeeps, PersistedKeeps, FailedKeeps, StoreAccessKeeps, SettledKeeps
     DEF StorageStep
<1> QED
  BY <1>1, <1>2, <1>3, <1>4, <1>6, <1>7, DeadlineKeeps DEF PNext

(* The two tables and the two users agree, whatever was lost, repeated or  *)
(* late and whoever restarted: an access has its grant, and a grant has    *)
(* both approvals.                                                         *)
THEOREM PairingIsAgreed == PSpec => []PairingAgreed
<1>1. PairingInv => PairingAgreed
  <2> SUFFICES ASSUME PairingInv PROVE PairingAgreed
    OBVIOUS
  <2>1. PairingTypes /\ TargetInv /\ ControllerInv
    BY DEF PairingInv
  <2>2. PTypeOK
    <3>1. \A c \in Controllers : /\ ctl[c].phase \in Exchange \cup {"idle", "persisting"}
                                 /\ ctl[c].link \in Exchanges => Owner[ctl[c].link] = c
      BY <2>1, PairingFields, PairingAssumption DEF PairingTypes, CtlPhases
    <3>2. tgt.phase \in Active \cup {"idle", "authorizing", "completing"}
      BY <2>1, PairingFields DEF TgtPhases
    <3> QED
      BY <2>1, <3>1, <3>2 DEF PTypeOK, PairingTypes
  <2> QED
    BY <2>1, <2>2 DEF PairingAgreed, TargetInv, ControllerInv
<1> QED
  BY <1>1, InitPairing, NextPairing, PTL DEF PSpec

(* What a side reported as over never turns up in its table. *)
THEOREM EndedIsFinal == PSpec => []EndedStaysEnded
<1>1. PairingInv => EndedStaysEnded
  BY DEF PairingInv, TargetInv, ControllerInv, EndedStaysEnded
<1> QED
  BY <1>1, InitPairing, NextPairing, PTL DEF PSpec

============================================================================
