------------------------- MODULE PairingInvariant --------------------------
(***************************************************************************)
(* The inductive invariant of pairing, for any number of controllers,      *)
(* links and requests, and how a controller's exchange keeps it.           *)
(*                                                                         *)
(* The invariant follows an attempt through its link.  At the target a     *)
(* link that is up and not the one being paired has never been offered     *)
(* (LinkIsFresh), so a link carries at most one attempt.  At the           *)
(* controller an attempt that was offered once cannot be entered again,    *)
(* because the request that the offer answers is no longer awaited         *)
(* (OfferSpent), although the link may stay up and be asked over again.    *)
(***************************************************************************)
EXTENDS Pairing, TLAPS

CtlPhases == Exchange \cup {"idle", "persisting"}
TgtPhases == Active \cup {"idle", "authorizing", "completing"}
Ctls == [phase : CtlPhases, link : Exchanges \cup {NoLink}, due : BOOLEAN]
Tgts == [phase : TgtPhases, link : Exchanges \cup {NoLink}, due : BOOLEAN, responder : Nat]
Sides == [controller : SUBSET Exchanges, target : SUBSET Exchanges]
Messages == [kind : {"begin", "commit", "offered", "completed"}, link : Exchanges, id : Nat]
StorageTasks == [side : {"controller", "target"}, link : Exchanges, wrote : BOOLEAN]

PairingTypes ==
    /\ ctl \in [Controllers -> Ctls] /\ tgt \in Tgts
    /\ linkUp \in Sides /\ approved \in Sides /\ ended \in Sides
    /\ asked \in Nat /\ wire \subseteq Messages /\ pending \subseteq wire
    /\ tasks \subseteq StorageTasks
    /\ grants \subseteq Exchanges /\ accesses \subseteq Exchanges
    /\ \A c \in Controllers :
         IF ctl[c].phase = "idle" THEN ctl[c].link = NoLink
         ELSE ctl[c].link \in Exchanges /\ Owner[ctl[c].link] = c
    /\ IF tgt.phase = "idle" THEN tgt.link = NoLink ELSE tgt.link \in Exchanges

Offers(l) == {r \in wire : r.kind = "offered" /\ r.link = l}
TasksOf(side) == {j \in tasks : j.side = side}

(* What the messages on the way say of the two tables and users. *)
WireInv ==
    /\ \A r \in wire : r.kind = "completed" => r.link \in grants
    /\ \A r \in wire : r.kind = "commit" => r.link \in approved.controller
    /\ \A r \in wire : r.kind \in {"begin", "offered"} => r.id <= asked
    /\ \A r, s \in wire : /\ r.kind = "offered" /\ s.kind = "offered" /\ r.link = s.link
                          => r.id = s.id

(* A link that is up at the target and not being paired was never offered. *)
LinkIsFresh(l) == l \notin grants /\ l \notin ended.target /\ Offers(l) = {}

TargetInv ==
    /\ \A j \in TasksOf("target") : /\ tgt.phase = "authorizing" /\ tgt.link = j.link
                                    /\ j.wrote <=> j.link \in grants
    /\ tgt.phase \in Active => /\ tgt.link \in linkUp.target
                               /\ tgt.link \notin grants /\ tgt.link \notin ended.target
    /\ tgt.phase = "commit" => tgt.link \in approved.target
    /\ tgt.phase = "target" => tgt.link \in approved.controller
    /\ tgt.phase = "authorizing" => /\ tgt.link \notin ended.target
                                    /\ tgt.link \in approved.target \cap approved.controller
    /\ tgt.phase = "completing" => tgt.link \in grants
    /\ \A l \in linkUp.target : l # tgt.link => LinkIsFresh(l)
    /\ ended.target \cap grants = {}
    /\ grants \subseteq approved.target \cap approved.controller

(* The controller of l has the attempt on l in hand. *)
InHand(l) == /\ ctl[Owner[l]].phase \in {"approval", "completion", "persisting"}
             /\ ctl[Owner[l]].link = l

(* The offer of l was made, and its request is not awaited any more. *)
OfferSpent(l) ==
    /\ Offers(l) # {}
    /\ \A r \in Offers(l) : \A q \in pending : q.id # r.id

ControllerInv ==
    /\ \A j \in TasksOf("controller") :
         /\ ctl[Owner[j.link]].phase = "persisting" /\ ctl[Owner[j.link]].link = j.link
         /\ j.wrote <=> j.link \in accesses
         /\ j.link \in grants
    /\ \A c \in Controllers : ctl[c].phase \in Exchange => ctl[c].link \in linkUp.controller
    /\ \A l \in accesses : /\ l \in grants
                           /\ l \in linkUp.controller =>
                                ctl[Owner[l]].phase = "persisting" /\ ctl[Owner[l]].link = l
    /\ \A l \in Exchanges : l \in ended.controller \/ InHand(l) => OfferSpent(l)
    /\ \A l \in ended.controller : l \notin accesses /\ ~InHand(l)

PairingInv == PairingTypes /\ WireInv /\ TargetInv /\ ControllerInv

----------------------------------------------------------------------------
(* Operators *)

(* The records the two sides keep. *)
LEMMA PairingFields ==
  ASSUME PairingTypes
  PROVE  /\ tgt.phase \in TgtPhases /\ tgt.link \in Exchanges \cup {NoLink}
         /\ tgt.due \in BOOLEAN /\ tgt.responder \in Nat
         /\ \A c \in Controllers : /\ ctl[c] \in Ctls /\ ctl[c].phase \in CtlPhases
                                   /\ ctl[c].link \in Exchanges \cup {NoLink}
                                   /\ ctl[c].due \in BOOLEAN
         /\ linkUp.controller \subseteq Exchanges /\ linkUp.target \subseteq Exchanges
         /\ approved.controller \subseteq Exchanges /\ approved.target \subseteq Exchanges
         /\ ended.controller \subseteq Exchanges /\ ended.target \subseteq Exchanges
         /\ \A r \in wire : /\ r.kind \in {"begin", "commit", "offered", "completed"}
                            /\ r.link \in Exchanges /\ r.id \in Nat
         /\ \A j \in tasks : /\ j.side \in {"controller", "target"}
                             /\ j.link \in Exchanges /\ j.wrote \in BOOLEAN
<1>1. /\ tgt.phase \in TgtPhases /\ tgt.link \in Exchanges \cup {NoLink}
      /\ tgt.due \in BOOLEAN /\ tgt.responder \in Nat
  BY DEF PairingTypes, Tgts
<1>2. \A c \in Controllers : /\ ctl[c] \in Ctls /\ ctl[c].phase \in CtlPhases
                             /\ ctl[c].link \in Exchanges \cup {NoLink}
                             /\ ctl[c].due \in BOOLEAN
  <2>1. \A c \in Controllers : ctl[c] \in Ctls
    BY DEF PairingTypes
  <2> QED
    BY <2>1 DEF Ctls
<1>3. \A x \in Sides : x.controller \subseteq Exchanges /\ x.target \subseteq Exchanges
  BY DEF Sides
<1>4. /\ linkUp.controller \subseteq Exchanges /\ linkUp.target \subseteq Exchanges
      /\ approved.controller \subseteq Exchanges /\ approved.target \subseteq Exchanges
      /\ ended.controller \subseteq Exchanges /\ ended.target \subseteq Exchanges
  BY <1>3 DEF PairingTypes
<1>5. \A r \in wire : /\ r.kind \in {"begin", "commit", "offered", "completed"}
                      /\ r.link \in Exchanges /\ r.id \in Nat
  BY DEF PairingTypes, Messages
<1>6. \A j \in tasks : /\ j.side \in {"controller", "target"}
                       /\ j.link \in Exchanges /\ j.wrote \in BOOLEAN
  BY DEF PairingTypes, StorageTasks
<1> QED
  BY <1>1, <1>2, <1>4, <1>5, <1>6

(* Adding to or taking from one side of a pair of sets. *)
LEMMA SideUpdate ==
  ASSUME NEW x \in Sides, NEW S \in SUBSET Exchanges
  PROVE  /\ [x EXCEPT !.controller = S] \in Sides
         /\ [x EXCEPT !.controller = S].controller = S
         /\ [x EXCEPT !.controller = S].target = x.target
         /\ [x EXCEPT !.target = S] \in Sides
         /\ [x EXCEPT !.target = S].target = S
         /\ [x EXCEPT !.target = S].controller = x.controller
BY DEF Sides

(* What is left of the links when one of them is retired. *)
LEMMA RetiredFacts ==
  ASSUME PairingTypes, NEW l
  PROVE  /\ Retired("controller", l) \in Sides /\ Retired("target", l) \in Sides
         /\ Retired("controller", l).controller = linkUp.controller \ {l}
         /\ Retired("controller", l).target = linkUp.target
         /\ Retired("target", l).target = linkUp.target \ {l}
         /\ Retired("target", l).controller = linkUp.controller
<1>1. linkUp \in Sides /\ linkUp.controller \subseteq Exchanges /\ linkUp.target \subseteq Exchanges
  BY PairingFields DEF PairingTypes
<1>2. /\ Retired("controller", l) = [linkUp EXCEPT !.controller = linkUp.controller \ {l}]
      /\ Retired("target", l) = [linkUp EXCEPT !.target = linkUp.target \ {l}]
  BY <1>1, Zenon DEF Retired, Sides
<1>3. linkUp.controller \ {l} \in SUBSET Exchanges /\ linkUp.target \ {l} \in SUBSET Exchanges
  BY <1>1
<1>4. /\ Retired("controller", l) \in Sides
      /\ Retired("controller", l).controller = linkUp.controller \ {l}
      /\ Retired("controller", l).target = linkUp.target
  <2> DEFINE S == linkUp.controller \ {l}
  <2>1. S \in SUBSET Exchanges /\ Retired("controller", l) = [linkUp EXCEPT !.controller = S]
    BY <1>2, <1>3
  <2> HIDE DEF S
  <2>2. /\ [linkUp EXCEPT !.controller = S] \in Sides
        /\ [linkUp EXCEPT !.controller = S].controller = S
        /\ [linkUp EXCEPT !.controller = S].target = linkUp.target
    BY <1>1, <2>1, SideUpdate, Zenon
  <2> QED
    BY <2>1, <2>2, Zenon DEF S
<1>5. /\ Retired("target", l) \in Sides
      /\ Retired("target", l).target = linkUp.target \ {l}
      /\ Retired("target", l).controller = linkUp.controller
  <2> DEFINE S == linkUp.target \ {l}
  <2>1. S \in SUBSET Exchanges /\ Retired("target", l) = [linkUp EXCEPT !.target = S]
    BY <1>2, <1>3
  <2> HIDE DEF S
  <2>2. /\ [linkUp EXCEPT !.target = S] \in Sides
        /\ [linkUp EXCEPT !.target = S].target = S
        /\ [linkUp EXCEPT !.target = S].controller = linkUp.controller
    BY <1>1, <2>1, SideUpdate, Zenon
  <2> QED
    BY <2>1, <2>2, Zenon DEF S
<1> QED
  BY <1>4, <1>5

(* The idle machines. *)
LEMMA IdleFacts ==
  /\ IdleController \in Ctls /\ IdleController.phase = "idle" /\ IdleController.link = NoLink
  /\ IdleTarget \in Tgts /\ IdleTarget.phase = "idle" /\ IdleTarget.link = NoLink
BY DEF IdleController, IdleTarget, Ctls, Tgts, CtlPhases, TgtPhases

(* Nothing is paired at first. *)
LEMMA InitPairing == PInit => PairingInv
<1> SUFFICES ASSUME PInit PROVE PairingInv
  OBVIOUS
<1>1. /\ ctl = [c \in Controllers |-> IdleController] /\ tgt = IdleTarget
      /\ linkUp = [controller |-> Exchanges, target |-> Exchanges]
      /\ asked = 0 /\ pending = {} /\ wire = {}
      /\ tasks = {} /\ grants = {} /\ accesses = {}
      /\ approved = [controller |-> {}, target |-> {}]
      /\ ended = [controller |-> {}, target |-> {}]
  BY DEF PInit
<1>2. \A c \in Controllers : ctl[c].phase = "idle" /\ ctl[c].link = NoLink
  BY <1>1, IdleFacts
<1>3. PairingTypes
  <2>1. linkUp \in Sides /\ approved \in Sides /\ ended \in Sides
    BY <1>1 DEF Sides
  <2> QED
    BY <1>1, <1>2, <2>1, IdleFacts DEF PairingTypes
<1>4. WireInv
  BY <1>1 DEF WireInv
<1>5. TargetInv
  BY <1>1, IdleFacts DEF TargetInv, TasksOf, Active, LinkIsFresh, Offers
<1>6. ControllerInv
  <2>1. \A l \in Exchanges : ~InHand(l)
    BY <1>2, PairingAssumption DEF InHand
  <2> QED
    BY <1>1, <1>2, <2>1 DEF ControllerInv, TasksOf, Exchange
<1> QED
  BY <1>3, <1>4, <1>5, <1>6 DEF PairingInv

(* A step of a controller leaves what the target knows as it is. *)
LEMMA TargetFrame ==
  ASSUME PairingTypes, TargetInv, UNCHANGED <<tgt, grants>>,
         linkUp'.target = linkUp.target, ended'.target = ended.target,
         approved'.target = approved.target, approved.controller \subseteq approved'.controller,
         TasksOf("target")' \subseteq TasksOf("target"),
         \A l \in Exchanges : Offers(l)' = Offers(l)
  PROVE  TargetInv'
<1>1. linkUp.target \subseteq Exchanges
  BY PairingFields
<1>2. \A l \in linkUp.target : LinkIsFresh(l) => LinkIsFresh(l)'
  BY <1>1 DEF LinkIsFresh
<1> QED
  BY <1>2 DEF TargetInv

(* A step of the target leaves what the controllers know as it is, and     *)
(* offers only a link that was not offered before.                         *)
LEMMA ControllerFrame ==
  ASSUME PairingTypes, ControllerInv, UNCHANGED <<ctl, accesses, pending>>,
         linkUp'.controller = linkUp.controller, ended'.controller = ended.controller,
         grants \subseteq grants',
         TasksOf("controller")' \subseteq TasksOf("controller"),
         \A l \in Exchanges : Offers(l) # {} => Offers(l)' = Offers(l)
  PROVE  ControllerInv'
<1>1. \A l \in Exchanges : InHand(l)' = InHand(l)
  BY DEF InHand
<1>2. \A l \in Exchanges : OfferSpent(l) => OfferSpent(l)'
  BY DEF OfferSpent
<1>3. accesses \subseteq Exchanges /\ ended.controller \subseteq Exchanges
  BY PairingFields DEF PairingTypes
<1>4. \A l \in Exchanges : (l \in ended.controller \/ InHand(l) => OfferSpent(l))'
  BY <1>1, <1>2 DEF ControllerInv
<1>5. \A l \in ended'.controller : (l \notin accesses /\ ~InHand(l))'
  BY <1>1, <1>3 DEF ControllerInv
<1> QED
  BY <1>4, <1>5 DEF ControllerInv

(* Messages keep their meaning while nothing new is sent. *)
LEMMA WireFrame ==
  ASSUME WireInv, UNCHANGED <<wire, asked>>, grants \subseteq grants',
         approved.controller \subseteq approved'.controller
  PROVE  WireInv'
BY DEF WireInv

----------------------------------------------------------------------------
(* Controller steps *)

(* A controller's machine changes; the others keep theirs. *)
LEMMA CtlMove ==
  ASSUME PairingTypes, NEW c \in Controllers, NEW m \in Ctls, ctl' = [ctl EXCEPT ![c] = m]
  PROVE  /\ ctl' \in [Controllers -> Ctls] /\ ctl'[c] = m
         /\ \A d \in Controllers : d # c => ctl'[d] = ctl[d]
BY DEF PairingTypes

(* An access that is being stored or was stored is not disturbed by what   *)
(* happens to controllers in other phases.                                 *)
LEMMA PersistingKept ==
  ASSUME PairingTypes, ControllerInv, UNCHANGED <<accesses, grants>>,
         linkUp'.controller \subseteq linkUp.controller,
         \A k \in Exchanges : ctl[Owner[k]].phase = "persisting" =>
            ctl'[Owner[k]].phase = "persisting" /\ ctl'[Owner[k]].link = ctl[Owner[k]].link
  PROVE  /\ \A j \in TasksOf("controller") :
              /\ ctl'[Owner[j.link]].phase = "persisting" /\ ctl'[Owner[j.link]].link = j.link
              /\ j.wrote <=> j.link \in accesses'
              /\ j.link \in grants'
         /\ \A k \in accesses' : /\ k \in grants'
                                 /\ k \in linkUp'.controller =>
                                      ctl'[Owner[k]].phase = "persisting" /\ ctl'[Owner[k]].link = k
<1>1. accesses \subseteq Exchanges /\ \A j \in TasksOf("controller") : j.link \in Exchanges
  BY PairingFields DEF TasksOf, PairingTypes
<1>2. \A j \in TasksOf("controller") :
        /\ ctl[Owner[j.link]].phase = "persisting" /\ ctl[Owner[j.link]].link = j.link
        /\ j.wrote <=> j.link \in accesses
        /\ j.link \in grants
  BY DEF ControllerInv
<1>3. \A j \in TasksOf("controller") :
        /\ ctl'[Owner[j.link]].phase = "persisting" /\ ctl'[Owner[j.link]].link = j.link
        /\ j.wrote <=> j.link \in accesses'
        /\ j.link \in grants'
  <2> SUFFICES ASSUME NEW j \in TasksOf("controller")
               PROVE  /\ ctl'[Owner[j.link]].phase = "persisting" /\ ctl'[Owner[j.link]].link = j.link
                      /\ j.wrote <=> j.link \in accesses'
                      /\ j.link \in grants'
    OBVIOUS
  <2>1. j.link \in Exchanges
    BY <1>1
  <2>2. /\ ctl[Owner[j.link]].phase = "persisting" /\ ctl[Owner[j.link]].link = j.link
        /\ j.wrote <=> j.link \in accesses
        /\ j.link \in grants
    BY <1>2
  <2> QED
    BY <2>1, <2>2
<1>4. \A k \in accesses' : /\ k \in grants'
                           /\ k \in linkUp'.controller =>
                                ctl'[Owner[k]].phase = "persisting" /\ ctl'[Owner[k]].link = k
  <2> SUFFICES ASSUME NEW k \in accesses
               PROVE  /\ k \in grants
                      /\ k \in linkUp'.controller =>
                           ctl'[Owner[k]].phase = "persisting" /\ ctl'[Owner[k]].link = k
    OBVIOUS
  <2>1. k \in Exchanges
    BY <1>1
  <2>2. k \in grants
    BY DEF ControllerInv
  <2>3. k \in linkUp.controller => ctl[Owner[k]].phase = "persisting" /\ ctl[Owner[k]].link = k
    BY DEF ControllerInv
  <2> QED
    BY <2>1, <2>2, <2>3
<1> QED
  BY <1>3, <1>4

(* Giving up the exchange on a link, with or without the link. *)
LEMMA AbortKeeps ==
  ASSUME PairingInv, NEW c \in Controllers, NEW l \in Exchanges, Owner[l] = c,
         abort_for_link(c, l), pending' \subseteq pending,
         linkUp' = linkUp \/ linkUp' = Retired("controller", l),
         UNCHANGED <<tgt, asked, wire, tasks, grants, accesses, approved>>
  PROVE  PairingInv'
<1>0. PairingTypes /\ WireInv /\ TargetInv /\ ControllerInv
  BY DEF PairingInv
<1>1. /\ linkUp' \in Sides /\ linkUp'.target = linkUp.target
      /\ linkUp'.controller \subseteq linkUp.controller
      /\ linkUp.controller \ {l} \subseteq linkUp'.controller
  BY <1>0, RetiredFacts DEF PairingTypes
<1>2. \A k \in Exchanges : Offers(k)' = Offers(k)
  BY DEF Offers
<1>3. TasksOf("target")' = TasksOf("target") /\ TasksOf("controller")' = TasksOf("controller")
  BY DEF TasksOf
<1>4. \A k \in Exchanges : OfferSpent(k) => OfferSpent(k)'
  BY <1>2 DEF OfferSpent
<1>5. WireInv'
  BY <1>0, WireFrame
<1>6. \A k \in Exchanges : Owner[k] \in Controllers
  BY PairingAssumption
<1>7. CASE ctl[c].phase \in Exchange /\ ctl[c].link = l
  <2> DEFINE A == AttemptOf(ctl[c])
  <2>1. ctl' = [ctl EXCEPT ![c] = IdleController] /\ ended' = [ended EXCEPT !.controller = @ \cup A]
    BY <1>7 DEF abort_for_link
  <2>2. A \subseteq {l} /\ (l \in A => InHand(l))
    BY <1>7 DEF AttemptOf, InHand
  <2> HIDE DEF A
  <2>3. /\ ended' \in Sides /\ ended'.target = ended.target
        /\ ended'.controller = ended.controller \cup A
    <3>1. ended \in Sides
      BY <1>0 DEF PairingTypes
    <3> QED
      BY <3>1, <2>1, <2>2 DEF Sides
  <2>4. /\ ctl' \in [Controllers -> Ctls] /\ ctl'[c] = IdleController
        /\ \A d \in Controllers : d # c => ctl'[d] = ctl[d]
    BY <1>0, <2>1, CtlMove, IdleFacts, Zenon
  <2>5. PairingTypes'
    BY <1>0, <1>1, <2>3, <2>4, IdleFacts DEF PairingTypes
  <2>6. TargetInv'
    BY <1>0, <1>1, <1>2, <1>3, <2>3, TargetFrame
  <2>7. ctl'[c].phase = "idle" /\ ctl[c].phase # "persisting"
    BY <1>7, <2>4, IdleFacts DEF Exchange
  <2>8. \A k \in Exchanges : InHand(k)' => InHand(k)
    BY <1>6, <2>4, <2>7 DEF InHand
  <2>9. \A k \in Exchanges : ctl[Owner[k]].phase = "persisting" => ctl'[Owner[k]] = ctl[Owner[k]]
    BY <1>6, <2>4, <2>7
  <2>10. \A j \in TasksOf("controller")' :
           /\ ctl'[Owner[j.link]].phase = "persisting" /\ ctl'[Owner[j.link]].link = j.link
           /\ j.wrote <=> j.link \in accesses'
           /\ j.link \in grants'
    BY <1>0, <1>1, <1>3, <2>9, PersistingKept
  <2>11. \A d \in Controllers : ctl'[d].phase \in Exchange => ctl'[d].link \in linkUp'.controller
    <3> SUFFICES ASSUME NEW d \in Controllers, ctl'[d].phase \in Exchange
                 PROVE  ctl'[d].link \in linkUp'.controller
      OBVIOUS
    <3>1. d # c /\ ctl'[d] = ctl[d]
      BY <2>4, <2>7 DEF Exchange
    <3>2. ctl[d].link \in linkUp.controller /\ ctl[d].phase # "idle"
      BY <1>0, <3>1 DEF ControllerInv, Exchange
    <3>3. Owner[ctl[d].link] = d
      BY <1>0, <3>2 DEF PairingTypes
    <3> QED
      BY <1>1, <3>1, <3>2, <3>3
  <2>13. \A k \in accesses' : /\ k \in grants'
                              /\ k \in linkUp'.controller =>
                                   ctl'[Owner[k]].phase = "persisting" /\ ctl'[Owner[k]].link = k
    BY <1>0, <1>1, <2>9, PersistingKept
  <2>14. \A k \in Exchanges : k \in ended'.controller \/ InHand(k)' => OfferSpent(k)'
    BY <1>0, <1>4, <2>2, <2>3, <2>8 DEF ControllerInv
  <2>15. l \notin accesses
    BY <1>0, <1>7, <2>7 DEF ControllerInv
  <2>16. ~InHand(l)'
    BY <2>7 DEF InHand
  <2>17. ended.controller \subseteq Exchanges
    BY <1>0, PairingFields
  <2>18. \A k \in ended'.controller : k \notin accesses' /\ ~InHand(k)'
    BY <1>0, <2>2, <2>3, <2>8, <2>15, <2>16, <2>17 DEF ControllerInv
  <2> QED
    BY <1>5, <2>5, <2>6, <2>10, <2>11, <2>13, <2>14, <2>18 DEF PairingInv, ControllerInv
<1>8. CASE ~(ctl[c].phase \in Exchange /\ ctl[c].link = l)
  <2>1. UNCHANGED <<ctl, ended>>
    BY <1>8 DEF abort_for_link
  <2>2. PairingTypes'
    BY <1>0, <1>1, <2>1 DEF PairingTypes
  <2>3. TargetInv'
    BY <1>0, <1>1, <1>2, <1>3, <2>1, TargetFrame
  <2>4. \A k : InHand(k)' = InHand(k)
    BY <2>1 DEF InHand
  <2>5. \A d \in Controllers : ctl'[d].phase \in Exchange => ctl'[d].link \in linkUp'.controller
    <3> SUFFICES ASSUME NEW d \in Controllers, ctl[d].phase \in Exchange
                 PROVE  ctl[d].link \in linkUp'.controller
      BY <2>1
    <3>1. ctl[d].link \in linkUp.controller /\ ctl[d].phase # "idle"
      BY <1>0 DEF ControllerInv, Exchange
    <3>2. Owner[ctl[d].link] = d
      BY <1>0, <3>1 DEF PairingTypes
    <3>3. ctl[d].link # l
      BY <1>8, <3>2
    <3> QED
      BY <1>1, <3>1, <3>3
  <2>6. \A k \in Exchanges : k \in ended'.controller \/ InHand(k)' => OfferSpent(k)'
    BY <1>0, <1>4, <2>1, <2>4 DEF ControllerInv
  <2>7. \A k \in ended'.controller : k \notin accesses' /\ ~InHand(k)'
    BY <1>0, <2>1, <2>4 DEF ControllerInv
  <2>8. \A j \in TasksOf("controller")' :
           /\ ctl'[Owner[j.link]].phase = "persisting" /\ ctl'[Owner[j.link]].link = j.link
           /\ j.wrote <=> j.link \in accesses'
           /\ j.link \in grants'
    BY <1>0, <1>3, <2>1 DEF ControllerInv
  <2>9. \A k \in accesses' : /\ k \in grants'
                              /\ k \in linkUp'.controller =>
                                   ctl'[Owner[k]].phase = "persisting" /\ ctl'[Owner[k]].link = k
    BY <1>0, <1>1, <2>1 DEF ControllerInv
  <2> QED
    BY <1>5, <2>2, <2>3, <2>5, <2>6, <2>7, <2>8, <2>9 DEF PairingInv, ControllerInv
<1> QED
  BY <1>7, <1>8

(* A new request has an identity that no offer answers. *)
LEMMA RequestKeeps ==
  ASSUME PairingTypes, WireInv, NEW l \in Exchanges, NEW kind \in {"begin", "commit"},
         SendRequest(kind, l), grants' = grants,
         approved.controller \subseteq approved'.controller,
         kind = "commit" => l \in approved'.controller
  PROVE  /\ asked' \in Nat /\ wire' \subseteq Messages /\ pending' \subseteq wire' /\ WireInv'
         /\ \A k \in Exchanges : Offers(k)' = Offers(k)
         /\ \A k \in Exchanges : OfferSpent(k) => OfferSpent(k)'
<1> DEFINE q == [kind |-> kind, link |-> l, id |-> asked + 1]
<1>1. asked' = asked + 1 /\ pending' = pending \cup {q} /\ wire' = wire \cup {q}
  BY DEF SendRequest
<1>2. asked \in Nat /\ asked' \in Nat /\ asked + 1 > asked
  <2>1. asked \in Nat
    BY DEF PairingTypes
  <2> QED
    BY <1>1, <2>1
<1>3. q \in Messages /\ q.kind = kind /\ q.link = l /\ q.id = asked + 1
  BY <1>2 DEF Messages
<1> HIDE DEF q
<1>4. wire' \subseteq Messages /\ pending' \subseteq wire'
  BY <1>1, <1>3 DEF PairingTypes
<1>5. \A k \in Exchanges : Offers(k)' = Offers(k)
  BY <1>1, <1>3 DEF Offers
<1>6. \A r \in wire : r.id \in Nat
  BY PairingFields
<1>7. \A k \in Exchanges : OfferSpent(k) => OfferSpent(k)'
  <2> SUFFICES ASSUME NEW k \in Exchanges, OfferSpent(k)
               PROVE  OfferSpent(k)'
    OBVIOUS
  <2>1. \A r \in Offers(k) : r.id <= asked /\ r.id \in Nat
    BY <1>6 DEF Offers, WireInv
  <2>2. \A r \in Offers(k) : q.id # r.id
    BY <1>2, <1>3, <2>1
  <2> QED
    BY <1>1, <1>5, <2>2 DEF OfferSpent
<1>8. WireInv'
  <2>1. \A r \in wire' : r.kind = "completed" => r.link \in grants'
    BY <1>1, <1>3 DEF WireInv
  <2>2. \A r \in wire' : r.kind = "commit" => r.link \in approved'.controller
    BY <1>1, <1>3 DEF WireInv
  <2>3. \A r \in wire' : r.kind \in {"begin", "offered"} => r.id <= asked'
    <3>1. \A r \in wire : r.kind \in {"begin", "offered"} => r.id <= asked'
      BY <1>1, <1>2, <1>6 DEF WireInv
    <3>2. q.id <= asked'
      BY <1>1, <1>2, <1>3
    <3> QED
      BY <1>1, <3>1, <3>2
  <2>4. \A r, s \in wire' : /\ r.kind = "offered" /\ s.kind = "offered" /\ r.link = s.link
                            => r.id = s.id
    BY <1>1, <1>3 DEF WireInv
  <2> QED
    BY <2>1, <2>2, <2>3, <2>4 DEF WireInv
<1> QED
  BY <1>2, <1>4, <1>5, <1>7, <1>8

(* An idle controller asks over a link of its own. *)
LEMMA BeginKeeps ==
  ASSUME PairingInv, NEW c \in Controllers, NEW l \in Exchanges, controller_begin(c, l)
  PROVE  PairingInv'
<1>0. PairingTypes /\ WireInv /\ TargetInv /\ ControllerInv
  BY DEF PairingInv
<1> DEFINE m == [IdleController EXCEPT !.phase = "offer", !.link = l]
<1>1. /\ Owner[l] = c /\ l \in linkUp.controller /\ ctl[c].phase = "idle"
      /\ SendRequest("begin", l) /\ ctl' = [ctl EXCEPT ![c] = m]
      /\ UNCHANGED <<tgt, linkUp, tasks, grants, accesses, approved, ended>>
  BY DEF controller_begin
<1>2. m \in Ctls /\ m.phase = "offer" /\ m.link = l
  BY Zenon DEF IdleController, Ctls, CtlPhases, Exchange
<1> HIDE DEF m
<1>3. /\ asked' \in Nat /\ wire' \subseteq Messages /\ pending' \subseteq wire' /\ WireInv'
      /\ \A k \in Exchanges : Offers(k)' = Offers(k)
      /\ \A k \in Exchanges : OfferSpent(k) => OfferSpent(k)'
  BY <1>0, <1>1, RequestKeeps
<1>4. /\ ctl' \in [Controllers -> Ctls] /\ ctl'[c] = m
      /\ \A d \in Controllers : d # c => ctl'[d] = ctl[d]
  BY <1>0, <1>1, <1>2, CtlMove, Zenon
<1>5. PairingTypes'
  <2>1. \A d \in Controllers : IF ctl'[d].phase = "idle" THEN ctl'[d].link = NoLink
                               ELSE ctl'[d].link \in Exchanges /\ Owner[ctl'[d].link] = d
    BY <1>0, <1>1, <1>2, <1>4 DEF PairingTypes
  <2> QED
    BY <1>0, <1>1, <1>3, <1>4, <2>1 DEF PairingTypes
<1>6. TasksOf("target")' = TasksOf("target") /\ TasksOf("controller")' = TasksOf("controller")
  BY <1>1 DEF TasksOf
<1>7. TargetInv'
  BY <1>0, <1>1, <1>3, <1>6, TargetFrame
<1>8. \A k \in Exchanges : Owner[k] \in Controllers
  BY PairingAssumption
<1>9. \A k \in Exchanges : InHand(k)' = InHand(k)
  BY <1>1, <1>2, <1>4, <1>8 DEF InHand
<1>10. \A k \in Exchanges : ctl[Owner[k]].phase = "persisting" => ctl'[Owner[k]] = ctl[Owner[k]]
  BY <1>1, <1>4, <1>8
<1>11. ended.controller \subseteq Exchanges
  BY <1>0, PairingFields
<1>12. \A j \in TasksOf("controller")' :
         /\ ctl'[Owner[j.link]].phase = "persisting" /\ ctl'[Owner[j.link]].link = j.link
         /\ j.wrote <=> j.link \in accesses'
         /\ j.link \in grants'
  BY <1>0, <1>1, <1>6, <1>10, PersistingKept
<1>13. \A d \in Controllers : ctl'[d].phase \in Exchange => ctl'[d].link \in linkUp'.controller
  <2>1. \A d \in Controllers : ctl[d].phase \in Exchange => ctl[d].link \in linkUp.controller
    BY <1>0 DEF ControllerInv
  <2> QED
    BY <1>1, <1>2, <1>4, <2>1
<1>14. \A k \in accesses' : /\ k \in grants'
                            /\ k \in linkUp'.controller =>
                                 ctl'[Owner[k]].phase = "persisting" /\ ctl'[Owner[k]].link = k
  BY <1>0, <1>1, <1>10, PersistingKept
<1>15. \A k \in Exchanges : k \in ended'.controller \/ InHand(k)' => OfferSpent(k)'
  BY <1>0, <1>1, <1>3, <1>9 DEF ControllerInv
<1>16. \A k \in ended'.controller : k \notin accesses' /\ ~InHand(k)'
  BY <1>0, <1>1, <1>9, <1>11 DEF ControllerInv
<1> QED
  BY <1>3, <1>5, <1>7, <1>12, <1>13, <1>14, <1>15, <1>16 DEF PairingInv, ControllerInv

(* The controller's user approves, again perhaps: the commit is sent. *)
LEMMA CommitKeeps ==
  ASSUME PairingInv, NEW c \in Controllers, ctl[c].phase \in {"approval", "completion"},
         SendRequest("commit", ctl[c].link), ctl' = [ctl EXCEPT ![c].phase = "completion"],
         approved' = [approved EXCEPT !.controller = @ \cup {ctl[c].link}],
         UNCHANGED <<linkUp, ended, tgt, tasks, grants, accesses>>
  PROVE  PairingInv'
<1>0. PairingTypes /\ WireInv /\ TargetInv /\ ControllerInv
  BY DEF PairingInv
<1>1. ctl[c] \in Ctls /\ ctl[c].link \in Exchanges /\ Owner[ctl[c].link] = c
  BY <1>0 DEF PairingTypes
<1> DEFINE l == ctl[c].link
           m == [ctl[c] EXCEPT !.phase = "completion"]
<1>2. m \in Ctls /\ m.phase = "completion" /\ m.link = l /\ ctl' = [ctl EXCEPT ![c] = m]
  BY <1>1 DEF Ctls, CtlPhases, Exchange
<1>3. l \in Exchanges /\ Owner[l] = c /\ SendRequest("commit", l)
  BY <1>1
<1>4. /\ approved' \in Sides /\ approved'.target = approved.target
      /\ approved'.controller = approved.controller \cup {l}
  <2>1. approved \in Sides
    BY <1>0 DEF PairingTypes
  <2> QED
    BY <2>1, <1>1 DEF Sides
<1>5. ctl[c].link = l
  OBVIOUS
<1> HIDE DEF m, l
<1>6. /\ asked' \in Nat /\ wire' \subseteq Messages /\ pending' \subseteq wire' /\ WireInv'
      /\ \A k \in Exchanges : Offers(k)' = Offers(k)
      /\ \A k \in Exchanges : OfferSpent(k) => OfferSpent(k)'
  BY <1>0, <1>3, <1>4, RequestKeeps
<1>7. /\ ctl' \in [Controllers -> Ctls] /\ ctl'[c] = m
      /\ \A d \in Controllers : d # c => ctl'[d] = ctl[d]
  BY <1>0, <1>2, CtlMove, Zenon
<1>8. PairingTypes'
  <2>1. \A d \in Controllers : IF ctl'[d].phase = "idle" THEN ctl'[d].link = NoLink
                               ELSE ctl'[d].link \in Exchanges /\ Owner[ctl'[d].link] = d
    BY <1>0, <1>2, <1>3, <1>7 DEF PairingTypes
  <2> QED
    BY <1>0, <1>4, <1>6, <1>7, <2>1 DEF PairingTypes
<1>9. TasksOf("target")' = TasksOf("target") /\ TasksOf("controller")' = TasksOf("controller")
  BY DEF TasksOf
<1>10. TargetInv'
  BY <1>0, <1>4, <1>6, <1>9, TargetFrame
<1>11. \A k \in Exchanges : Owner[k] \in Controllers
  BY PairingAssumption
<1>12. \A k \in Exchanges : InHand(k)' = InHand(k)
  BY <1>2, <1>5, <1>7, <1>11 DEF InHand
<1>13. \A k \in Exchanges : ctl[Owner[k]].phase = "persisting" => ctl'[Owner[k]] = ctl[Owner[k]]
  BY <1>7, <1>11
<1>14. ended.controller \subseteq Exchanges
  BY <1>0, PairingFields
<1>15. \A j \in TasksOf("controller")' :
         /\ ctl'[Owner[j.link]].phase = "persisting" /\ ctl'[Owner[j.link]].link = j.link
         /\ j.wrote <=> j.link \in accesses'
         /\ j.link \in grants'
  BY <1>0, <1>9, <1>13, PersistingKept
<1>16. \A d \in Controllers : ctl'[d].phase \in Exchange => ctl'[d].link \in linkUp'.controller
  <2>1. \A d \in Controllers : ctl[d].phase \in Exchange => ctl[d].link \in linkUp.controller
    BY <1>0 DEF ControllerInv
  <2> QED
    BY <1>2, <1>5, <1>7, <2>1 DEF Exchange
<1>17. \A k \in accesses' : /\ k \in grants'
                            /\ k \in linkUp'.controller =>
                                 ctl'[Owner[k]].phase = "persisting" /\ ctl'[Owner[k]].link = k
  BY <1>0, <1>13, PersistingKept
<1>18. \A k \in Exchanges : k \in ended'.controller \/ InHand(k)' => OfferSpent(k)'
  BY <1>0, <1>6, <1>12 DEF ControllerInv
<1>19. \A k \in ended'.controller : k \notin accesses' /\ ~InHand(k)'
  BY <1>0, <1>12, <1>14 DEF ControllerInv
<1> QED
  BY <1>6, <1>8, <1>10, <1>15, <1>16, <1>17, <1>18, <1>19 DEF PairingInv, ControllerInv

(* The offer arrives while its request is awaited, so its attempt is new.  *)
LEMMA OfferedKeeps ==
  ASSUME PairingInv, NEW c \in Controllers, NEW r \in wire, r.kind = "offered", Owner[r.link] = c,
         \E q \in pending : q.id = r.id, ctl[c].phase = "offer", ctl[c].link = r.link,
         NEW m \in Ctls, m.phase = "approval", m.link = r.link, ctl' = [ctl EXCEPT ![c] = m],
         pending' \subseteq pending, \A q \in pending' : q.id # r.id,
         UNCHANGED <<tgt, linkUp, asked, wire, tasks, grants, accesses, approved, ended>>
  PROVE  PairingInv'
<1>0. PairingTypes /\ WireInv /\ TargetInv /\ ControllerInv
  BY DEF PairingInv
<1>1. r.link \in Exchanges
  BY <1>0, PairingFields
<1>2. m.phase = "approval" /\ m.link = r.link
  OBVIOUS
<1>3. /\ ctl' \in [Controllers -> Ctls] /\ ctl'[c] = m
      /\ \A d \in Controllers : d # c => ctl'[d] = ctl[d]
  BY <1>0, <1>2, CtlMove, Zenon
<1>4. PairingTypes'
  <2>1. \A d \in Controllers : IF ctl'[d].phase = "idle" THEN ctl'[d].link = NoLink
                               ELSE ctl'[d].link \in Exchanges /\ Owner[ctl'[d].link] = d
    BY <1>0, <1>1, <1>2, <1>3 DEF PairingTypes
  <2> QED
    BY <1>0, <1>3, <2>1 DEF PairingTypes
<1>5. WireInv'
  BY <1>0, WireFrame
<1>6. TasksOf("target")' = TasksOf("target") /\ TasksOf("controller")' = TasksOf("controller")
  BY DEF TasksOf
<1>7. \A k \in Exchanges : Offers(k)' = Offers(k)
  BY DEF Offers
<1>8. TargetInv'
  BY <1>0, <1>6, <1>7, TargetFrame
<1>9. \A k \in Exchanges : Owner[k] \in Controllers
  BY PairingAssumption
<1>10. r \in Offers(r.link) /\ ~OfferSpent(r.link)
  BY DEF Offers, OfferSpent
<1>11. OfferSpent(r.link)'
  <2>1. \A s \in Offers(r.link) : s.id = r.id
    BY <1>0 DEF Offers, WireInv
  <2> QED
    BY <1>1, <1>7, <1>10, <2>1 DEF OfferSpent
<1>12. \A k \in Exchanges : OfferSpent(k) => OfferSpent(k)'
  BY <1>7 DEF OfferSpent
<1>13. r.link \notin ended.controller
  BY <1>0, <1>1, <1>10 DEF ControllerInv
<1>14. \A k \in Exchanges : k # r.link => (InHand(k)' => InHand(k))
  BY <1>2, <1>3, <1>9 DEF InHand
<1>15. \A k \in Exchanges : ctl[Owner[k]].phase = "persisting" => ctl'[Owner[k]] = ctl[Owner[k]]
  BY <1>3, <1>9
<1>16. ended.controller \subseteq Exchanges
  BY <1>0, PairingFields
<1>17. \A j \in TasksOf("controller")' :
         /\ ctl'[Owner[j.link]].phase = "persisting" /\ ctl'[Owner[j.link]].link = j.link
         /\ j.wrote <=> j.link \in accesses'
         /\ j.link \in grants'
  BY <1>0, <1>6, <1>15, PersistingKept
<1>18. \A d \in Controllers : ctl'[d].phase \in Exchange => ctl'[d].link \in linkUp'.controller
  <2>1. \A d \in Controllers : ctl[d].phase \in Exchange => ctl[d].link \in linkUp.controller
    BY <1>0 DEF ControllerInv
  <2> QED
    BY <1>2, <1>3, <2>1 DEF Exchange
<1>19. \A k \in accesses' : /\ k \in grants'
                            /\ k \in linkUp'.controller =>
                                 ctl'[Owner[k]].phase = "persisting" /\ ctl'[Owner[k]].link = k
  BY <1>0, <1>15, PersistingKept
<1>20. \A k \in Exchanges : k \in ended'.controller \/ InHand(k)' => OfferSpent(k)'
  BY <1>0, <1>11, <1>12, <1>14 DEF ControllerInv
<1>21. \A k \in ended'.controller : k \notin accesses' /\ ~InHand(k)'
  BY <1>0, <1>13, <1>14, <1>16 DEF ControllerInv
<1> QED
  BY <1>4, <1>5, <1>8, <1>17, <1>18, <1>19, <1>20, <1>21 DEF PairingInv, ControllerInv

(* The completion arrives: the target has stored its grant, and this       *)
(* controller has not stored an access for the attempt before.             *)
LEMMA CompletedKeeps ==
  ASSUME PairingInv, NEW c \in Controllers, NEW r \in wire, r.kind = "completed",
         Owner[r.link] = c, ctl[c].phase = "completion", ctl[c].link = r.link,
         NEW m \in Ctls, m.phase = "persisting", m.link = r.link, ctl' = [ctl EXCEPT ![c] = m],
         tasks' = tasks \cup {Task("controller", r.link)},
         pending' \subseteq pending,
         UNCHANGED <<tgt, linkUp, asked, wire, grants, accesses, approved, ended>>
  PROVE  PairingInv'
<1>0. PairingTypes /\ WireInv /\ TargetInv /\ ControllerInv
  BY DEF PairingInv
<1>1. r.link \in Exchanges /\ r.link \in grants
  BY <1>0, PairingFields DEF WireInv
<1> DEFINE t == Task("controller", r.link)
<1>2. m.phase = "persisting" /\ m.link = r.link
  OBVIOUS
<1>3. t \in StorageTasks /\ t.side = "controller" /\ t.link = r.link /\ t.wrote = FALSE
  BY <1>1 DEF Task, StorageTasks
<1>4. tasks' = tasks \cup {t}
  OBVIOUS
<1> HIDE DEF t
<1>5. /\ ctl' \in [Controllers -> Ctls] /\ ctl'[c] = m
      /\ \A d \in Controllers : d # c => ctl'[d] = ctl[d]
  BY <1>0, <1>2, CtlMove, Zenon
<1>6. PairingTypes'
  <2>1. \A d \in Controllers : IF ctl'[d].phase = "idle" THEN ctl'[d].link = NoLink
                               ELSE ctl'[d].link \in Exchanges /\ Owner[ctl'[d].link] = d
    BY <1>0, <1>1, <1>2, <1>5 DEF PairingTypes
  <2> QED
    BY <1>0, <1>3, <1>4, <1>5, <2>1 DEF PairingTypes
<1>7. WireInv'
  BY <1>0, WireFrame
<1>8. TasksOf("target")' = TasksOf("target") /\ TasksOf("controller")' = TasksOf("controller") \cup {t}
  BY <1>3, <1>4 DEF TasksOf
<1>9. \A k \in Exchanges : Offers(k)' = Offers(k)
  BY DEF Offers
<1>10. TargetInv'
  BY <1>0, <1>8, <1>9, TargetFrame
<1>11. \A k \in Exchanges : Owner[k] \in Controllers
  BY PairingAssumption
<1>12. \A k \in Exchanges : OfferSpent(k) => OfferSpent(k)'
  BY <1>9 DEF OfferSpent
<1>13. \A k \in Exchanges : InHand(k)' = InHand(k)
  <2> SUFFICES ASSUME NEW k \in Exchanges
               PROVE  InHand(k)' = InHand(k)
    OBVIOUS
  <2>1. CASE Owner[k] = c
    BY <1>2, <1>5, <2>1 DEF InHand
  <2>2. CASE Owner[k] # c
    BY <1>5, <1>11, <2>2 DEF InHand
  <2> QED
    BY <2>1, <2>2
<1>14. \A k \in Exchanges : ctl[Owner[k]].phase = "persisting" => ctl'[Owner[k]] = ctl[Owner[k]]
  BY <1>5, <1>11
<1>15. ended.controller \subseteq Exchanges
  BY <1>0, PairingFields
<1>16. r.link \notin accesses
  <2>1. r.link \in linkUp.controller
    BY <1>0 DEF ControllerInv, Exchange
  <2> QED
    BY <1>0, <2>1 DEF ControllerInv
<1>17. \A j \in TasksOf("controller")' :
         /\ ctl'[Owner[j.link]].phase = "persisting" /\ ctl'[Owner[j.link]].link = j.link
         /\ j.wrote <=> j.link \in accesses'
         /\ j.link \in grants'
  <2>1. \A j \in TasksOf("controller") :
          /\ ctl'[Owner[j.link]].phase = "persisting" /\ ctl'[Owner[j.link]].link = j.link
          /\ j.wrote <=> j.link \in accesses
          /\ j.link \in grants
    BY <1>0, <1>14, PersistingKept
  <2>2. /\ ctl'[Owner[t.link]].phase = "persisting" /\ ctl'[Owner[t.link]].link = t.link
        /\ t.wrote <=> t.link \in accesses
        /\ t.link \in grants
    BY <1>1, <1>2, <1>3, <1>5, <1>16
  <2> QED
    BY <1>8, <2>1, <2>2
<1>18. \A d \in Controllers : ctl'[d].phase \in Exchange => ctl'[d].link \in linkUp'.controller
  <2>1. \A d \in Controllers : ctl[d].phase \in Exchange => ctl[d].link \in linkUp.controller
    BY <1>0 DEF ControllerInv
  <2> QED
    BY <1>2, <1>5, <2>1 DEF Exchange
<1>19. \A k \in accesses' : /\ k \in grants'
                            /\ k \in linkUp'.controller =>
                                 ctl'[Owner[k]].phase = "persisting" /\ ctl'[Owner[k]].link = k
  BY <1>0, <1>14, PersistingKept
<1>20. \A k \in Exchanges : k \in ended'.controller \/ InHand(k)' => OfferSpent(k)'
  BY <1>0, <1>12, <1>13 DEF ControllerInv
<1>21. \A k \in ended'.controller : k \notin accesses' /\ ~InHand(k)'
  BY <1>0, <1>13, <1>15 DEF ControllerInv
<1> QED
  BY <1>6, <1>7, <1>10, <1>17, <1>18, <1>19, <1>20, <1>21 DEF PairingInv, ControllerInv

============================================================================
