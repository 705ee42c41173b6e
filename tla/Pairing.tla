------------------------------ MODULE Pairing ------------------------------
(***************************************************************************)
(* Pairing a remote controller with a target.  The controller asks over a  *)
(* link (Begin), the target offers, both users confirm, the controller     *)
(* commits, the target stores a grant and only then answers Completed, and *)
(* the controller stores its access.  Each side has a state machine, a     *)
(* deadline and a store that may fail; requests and answers may be lost,   *)
(* delayed or repeated; each end of a link may close at any time and each  *)
(* node may restart.                                                       *)
(*                                                                         *)
(* The transcript of an attempt binds its link, and every end of an        *)
(* attempt at the target retires the link: an attempt is named by its      *)
(* link here.                                                              *)
(***************************************************************************)
EXTENDS Naturals, FiniteSets

CONSTANTS Controllers,
          Exchanges,     \* links to the target's pairing endpoint
          Owner,         \* the controller at the other end of each
          MaxRequests    \* requests the controllers send

NoLink == "none"

ASSUME PairingAssumption ==
    /\ Owner \in [Exchanges -> Controllers]
    /\ NoLink \notin Exchanges
    /\ MaxRequests \in Nat

VARIABLES
    ctl,        \* per controller: phase, link, whether its deadline passed
    tgt,        \* the target's machine; `responder` is the request to answer
    session,    \* the target's pairing session is open
    linkUp,     \* the link as each end sees it
    asked,      \* requests sent so far
    pending,    \* requests a controller still waits for
    wire,       \* requests and answers on the way, never forgotten
    tasks,      \* storage tasks the two sides started, and whether they wrote
    grants,     \* attempts in the target's durable table
    accesses,   \* attempts in the controllers' durable tables
    approved,   \* ghost: attempts each user approved
    ended       \* ghost: attempts each side gave up

pVars == <<ctl, tgt, session, linkUp, asked, pending, wire, tasks, grants, accesses, approved, ended>>

IdleController == [phase |-> "idle", link |-> NoLink, due |-> FALSE]
IdleTarget == [phase |-> "idle", link |-> NoLink, due |-> FALSE, responder |-> 0]

PInit ==
    /\ ctl = [c \in Controllers |-> IdleController]
    /\ tgt = IdleTarget
    /\ session = FALSE
    /\ linkUp = [controller |-> Exchanges, target |-> Exchanges]
    /\ asked = 0 /\ pending = {} /\ wire = {}
    /\ tasks = {} /\ grants = {} /\ accesses = {}
    /\ approved = [controller |-> {}, target |-> {}]
    /\ ended = [controller |-> {}, target |-> {}]

----------------------------------------------------------------------------
(* The controller.                                                          *)

Exchange == {"offer", "approval", "completion"}
AttemptOf(m) == IF m.phase \in {"approval", "completion"} THEN {m.link} ELSE {}

(* What the controller of link l loses with it. *)
abort_for_link(c, l) ==
    IF ctl[c].phase \in Exchange /\ ctl[c].link = l
    THEN /\ ctl' = [ctl EXCEPT ![c] = IdleController]
         /\ ended' = [ended EXCEPT !.controller = @ \cup AttemptOf(ctl[c])]
    ELSE UNCHANGED <<ctl, ended>>

Retired(side, l) == [linkUp EXCEPT ![side] = @ \ {l}]
WithoutLink(l) == {r \in pending : r.link # l}
Task(side, l) == [side |-> side, link |-> l, wrote |-> FALSE]

ExpiredController(c) == ctl[c].due /\ ctl[c].phase \in Exchange

(* take_expired_exchange, and the engine retiring the exchange's link. *)
ControllerExpires(c) ==
    /\ abort_for_link(c, ctl[c].link)
    /\ linkUp' = Retired("controller", ctl[c].link)
    /\ pending' = WithoutLink(ctl[c].link)

SendRequest(kind, l) ==
    /\ asked < MaxRequests
    /\ asked' = asked + 1
    /\ LET r == [kind |-> kind, link |-> l, id |-> asked + 1]
       IN  pending' = pending \cup {r} /\ wire' = wire \cup {r}

controller_begin(c, l) ==
    /\ Owner[l] = c /\ l \in linkUp.controller
    /\ ctl[c].phase = "idle"
    /\ SendRequest("begin", l)
    /\ ctl' = [ctl EXCEPT ![c] = [IdleController EXCEPT !.phase = "offer", !.link = l]]
    /\ UNCHANGED <<tgt, session, linkUp, tasks, grants, accesses, approved, ended>>

(* An answer settles its request.  One that does not advance the machine    *)
(* fails the request, which aborts the exchange.                            *)
admit_response(c, r) ==
    /\ r \in wire /\ r.kind \in {"offered", "completed"}
    /\ Owner[r.link] = c
    /\ \E q \in pending : q.id = r.id
    /\ LET m == ctl[c]
           answered == {q \in pending : q.id # r.id}
           advances == \/ r.kind = "offered" /\ m.phase = "offer"
                       \/ r.kind = "completed" /\ m.phase = "completion"
       IN  IF m.link = r.link /\ ExpiredController(c)
           THEN /\ abort_for_link(c, m.link)
                /\ linkUp' = Retired("controller", m.link)
                /\ pending' = WithoutLink(m.link)
                /\ UNCHANGED tasks
           ELSE /\ pending' = answered
                /\ UNCHANGED linkUp
                /\ IF m.link = r.link /\ advances
                   THEN /\ ctl' = [ctl EXCEPT
                                     ![c].phase = IF r.kind = "offered" THEN "approval"
                                                                        ELSE "persisting",
                                     ![c].due = FALSE]
                        /\ tasks' = IF r.kind = "offered" THEN tasks
                                   ELSE tasks \cup {Task("controller", r.link)}
                        /\ UNCHANGED ended
                   ELSE abort_for_link(c, r.link) /\ UNCHANGED tasks
    /\ UNCHANGED <<tgt, session, asked, wire, grants, accesses, approved>>

(* Approving again while the completion is awaited sends the commit again.  *)
controller_approve(c) ==
    /\ ctl[c].phase \in {"approval", "completion"} \/ ExpiredController(c)
    /\ IF ExpiredController(c)
       THEN ControllerExpires(c) /\ UNCHANGED <<asked, wire, approved>>
       ELSE /\ SendRequest("commit", ctl[c].link)
            /\ ctl' = [ctl EXCEPT ![c].phase = "completion"]
            /\ approved' = [approved EXCEPT !.controller = @ \cup {ctl[c].link}]
            /\ UNCHANGED <<linkUp, ended>>
    /\ UNCHANGED <<tgt, session, tasks, grants, accesses>>

(* reject: only what is not approved yet, or what has expired meanwhile. *)
controller_reject(c) ==
    /\ ctl[c].phase = "approval" \/ ExpiredController(c)
    /\ ControllerExpires(c)
    /\ UNCHANGED <<tgt, session, asked, wire, tasks, grants, accesses, approved>>

controller_expire(c) ==
    /\ ExpiredController(c)
    /\ ControllerExpires(c)
    /\ UNCHANGED <<tgt, session, asked, wire, tasks, grants, accesses, approved>>

(* A request times out; its link stays. *)
request_failed(q) ==
    /\ q \in pending
    /\ pending' = pending \ {q}
    /\ abort_for_link(Owner[q.link], q.link)
    /\ UNCHANGED <<tgt, session, linkUp, asked, wire, tasks, grants, accesses, approved>>

controller_close_link(l) ==
    /\ l \in linkUp.controller
    /\ linkUp' = Retired("controller", l)
    /\ pending' = WithoutLink(l)
    /\ abort_for_link(Owner[l], l)
    /\ UNCHANGED <<tgt, session, asked, wire, tasks, grants, accesses, approved>>

(* The runtime's storage task writes, and then tells the engine how it went. *)
StoreAccess(j) ==
    /\ j \in tasks /\ j.side = "controller" /\ ~j.wrote
    /\ accesses' = accesses \cup {j.link}
    /\ tasks' = (tasks \ {j}) \cup {[j EXCEPT !.wrote = TRUE]}
    /\ UNCHANGED <<ctl, tgt, session, linkUp, asked, pending, wire, grants, approved, ended>>

(* persistence_succeeded and persistence_failed; both retire the link. *)
persistence_settled(j) ==
    /\ j \in tasks /\ j.side = "controller"
    /\ tasks' = tasks \ {j}
    /\ IF ctl[Owner[j.link]].phase = "persisting" /\ ctl[Owner[j.link]].link = j.link
       THEN /\ ctl' = [ctl EXCEPT ![Owner[j.link]] = IdleController]
            /\ linkUp' = Retired("controller", j.link)
            /\ pending' = WithoutLink(j.link)
            /\ ended' = IF j.wrote THEN ended
                        ELSE [ended EXCEPT !.controller = @ \cup {j.link}]
       ELSE UNCHANGED <<ctl, linkUp, pending, ended>>
    /\ UNCHANGED <<tgt, session, asked, wire, grants, accesses, approved>>

RestartController(c) ==
    /\ ctl' = [ctl EXCEPT ![c] = IdleController]
    /\ linkUp' = [linkUp EXCEPT !.controller = {l \in @ : Owner[l] # c}]
    /\ pending' = {q \in pending : Owner[q.link] # c}
    /\ tasks' = {j \in tasks : j.side = "target" \/ Owner[j.link] # c}
    /\ UNCHANGED <<tgt, session, asked, wire, grants, accesses, approved, ended>>

----------------------------------------------------------------------------
(* The target.                                                              *)

Active == {"both", "target", "commit"}   \* what is still awaited

ExpiredTarget == tgt.due /\ tgt.phase \in Active \cup {"completing"}

(* The target's attempt is over, unauthorized unless it was completing. *)
EndTarget ==
    /\ tgt' = IdleTarget
    /\ ended' = IF tgt.phase = "completing" THEN ended
                ELSE [ended EXCEPT !.target = @ \cup {tgt.link}]
RetireTarget == EndTarget /\ linkUp' = Retired("target", tgt.link)

(* prepare_authorization signs the completion before anything is stored. *)
Authorize(responder) ==
    \/ /\ tgt' = [tgt EXCEPT !.phase = "authorizing", !.responder = responder]
       /\ tasks' = tasks \cup {Task("target", tgt.link)}
       /\ UNCHANGED <<linkUp, ended>>
    \/ RetireTarget /\ UNCHANGED tasks

ingest_begin(r) ==
    /\ r \in wire /\ r.kind = "begin" /\ r.link \in linkUp.target /\ session
    /\ \/ ExpiredTarget /\ RetireTarget /\ UNCHANGED wire
       \/ /\ ~ExpiredTarget /\ tgt.phase = "idle"
          /\ tgt' = [IdleTarget EXCEPT !.phase = "both", !.link = r.link]
          /\ wire' = wire \cup {[r EXCEPT !.kind = "offered"]}
          /\ UNCHANGED <<linkUp, ended>>
       \/ /\ ~ExpiredTarget /\ tgt.phase = "idle"   \* the offer is not dispatched
          /\ linkUp' = Retired("target", r.link)
          /\ ended' = [ended EXCEPT !.target = @ \cup {r.link}]
          /\ UNCHANGED <<tgt, wire>>
    /\ UNCHANGED <<ctl, session, asked, pending, tasks, grants, accesses, approved>>

validate_commit(r) == tgt.phase # "idle" /\ r.link = tgt.link

ingest_commit(r) ==
    /\ r \in wire /\ r.kind = "commit" /\ r.link \in linkUp.target /\ session
    /\ \/ ExpiredTarget /\ RetireTarget /\ UNCHANGED <<wire, tasks>>
       \/ /\ ~ExpiredTarget /\ validate_commit(r)
          /\ \/ /\ tgt.phase = "both"
                /\ tgt' = [tgt EXCEPT !.phase = "target", !.responder = r.id]
                /\ UNCHANGED <<linkUp, ended, wire, tasks>>
             \/ tgt.phase = "commit" /\ Authorize(r.id) /\ UNCHANGED wire
             \/ /\ tgt.phase = "completing"
                /\ wire' = wire \cup {[r EXCEPT !.kind = "completed"]}
                /\ UNCHANGED <<tgt, linkUp, ended, tasks>>
    /\ UNCHANGED <<ctl, session, asked, pending, grants, accesses, approved>>

target_approve ==
    /\ \/ ExpiredTarget /\ RetireTarget /\ UNCHANGED <<approved, tasks>>
       \/ /\ ~ExpiredTarget /\ tgt.phase \in {"both", "target"}
          /\ approved' = [approved EXCEPT !.target = @ \cup {tgt.link}]
          /\ IF tgt.phase = "both"
             THEN tgt' = [tgt EXCEPT !.phase = "commit"] /\ UNCHANGED <<linkUp, ended, tasks>>
             ELSE Authorize(tgt.responder)
    /\ UNCHANGED <<ctl, session, asked, pending, wire, grants, accesses>>

target_reject ==
    /\ ExpiredTarget \/ tgt.phase \in {"both", "target"}
    /\ RetireTarget
    /\ UNCHANGED <<ctl, session, asked, pending, wire, tasks, grants, accesses, approved>>

target_expire ==
    /\ ExpiredTarget
    /\ RetireTarget
    /\ UNCHANGED <<ctl, session, asked, pending, wire, tasks, grants, accesses, approved>>

(* A close that also drops the attempt whose grant is being stored. *)
CloseDropsAuthorizing(links) ==
    /\ linkUp' = [linkUp EXCEPT !.target = @ \ links]
    /\ IF tgt.link \in links THEN EndTarget ELSE UNCHANGED <<tgt, ended>>

(* An attempt being authorized outlives its link. *)
CloseAtTarget(links) ==
    /\ linkUp' = [linkUp EXCEPT !.target = @ \ links]
    /\ IF tgt.link \in links /\ tgt.phase \in Active \cup {"completing"}
       THEN EndTarget
       ELSE UNCHANGED <<tgt, ended>>

target_close_link(l) ==
    /\ l \in linkUp.target
    /\ CloseAtTarget({l})
    /\ UNCHANGED <<ctl, session, asked, pending, wire, tasks, grants, accesses, approved>>

StoreGrant(j) ==
    /\ j \in tasks /\ j.side = "target" /\ ~j.wrote
    /\ grants' = grants \cup {j.link}
    /\ tasks' = (tasks \ {j}) \cup {[j EXCEPT !.wrote = TRUE]}
    /\ UNCHANGED <<ctl, tgt, session, linkUp, asked, pending, wire, accesses, approved, ended>>

Authorizing(j) ==
    j \in tasks /\ j.side = "target" /\ tgt.phase = "authorizing" /\ tgt.link = j.link

(* A completion sent as soon as it is signed. *)
CompletedBeforeStored(j) ==
    /\ Authorizing(j)
    /\ tgt' = [tgt EXCEPT !.phase = "completing"]
    /\ wire' = wire \cup {[kind |-> "completed", link |-> j.link, id |-> tgt.responder]}
    /\ UNCHANGED <<ctl, session, linkUp, asked, pending, tasks, grants, accesses, approved,
                   ended>>

(* settle_prepared_authorization: the completion answers the commit if the  *)
(* link is still there, and is kept for another commit until the deadline.  *)
authorization_persisted(j) ==
    /\ Authorizing(j) /\ j.wrote
    /\ tasks' = tasks \ {j}
    /\ tgt' = [tgt EXCEPT !.phase = "completing"]
    /\ wire' = IF j.link \in linkUp.target
               THEN wire \cup {[kind |-> "completed", link |-> j.link, id |-> tgt.responder]}
               ELSE wire
    /\ UNCHANGED <<ctl, session, linkUp, asked, pending, grants, accesses, approved, ended>>

authorization_failed(j) ==
    /\ Authorizing(j) /\ ~j.wrote
    /\ tasks' = tasks \ {j}
    /\ RetireTarget
    /\ UNCHANGED <<ctl, session, asked, pending, wire, grants, accesses, approved>>

open_pairing ==
    /\ ~session /\ session' = TRUE
    /\ UNCHANGED <<ctl, tgt, linkUp, asked, pending, wire, tasks, grants, accesses, approved, ended>>

(* The session is closed, by the user or by its own window: every link to   *)
(* its destination goes with it.                                            *)
close_pairing ==
    /\ session /\ session' = FALSE
    /\ CloseAtTarget(Exchanges)
    /\ UNCHANGED <<ctl, asked, pending, wire, tasks, grants, accesses, approved>>

RestartTarget ==
    /\ tgt' = IdleTarget /\ session' = FALSE
    /\ linkUp' = [linkUp EXCEPT !.target = {}]
    /\ tasks' = {j \in tasks : j.side # "target"}
    /\ ended' = [ended EXCEPT !.target = @ \cup ({tgt.link} \ (grants \cup {NoLink}))]
    /\ UNCHANGED <<ctl, asked, pending, wire, grants, accesses, approved>>

----------------------------------------------------------------------------
(* Deadlines pass. *)
DeadlinePasses ==
    /\ \/ \E c \in Controllers :
            /\ ctl[c].phase \in Exchange /\ ~ctl[c].due
            /\ ctl' = [ctl EXCEPT ![c].due = TRUE] /\ UNCHANGED tgt
       \/ /\ tgt.phase # "idle" /\ ~tgt.due
          /\ tgt' = [tgt EXCEPT !.due = TRUE] /\ UNCHANGED ctl
    /\ UNCHANGED <<session, linkUp, asked, pending, wire, tasks, grants, accesses, approved, ended>>

ControllerStep(c) ==
    \/ \E l \in Exchanges : controller_begin(c, l)
    \/ \E r \in wire : admit_response(c, r)
    \/ controller_approve(c) \/ controller_reject(c) \/ controller_expire(c)
    \/ RestartController(c)

TargetStep ==
    \/ \E r \in wire : ingest_begin(r) \/ ingest_commit(r)
    \/ target_approve \/ target_reject \/ target_expire
    \/ open_pairing \/ close_pairing \/ RestartTarget

StorageStep(j) ==
    \/ StoreGrant(j) \/ authorization_persisted(j) \/ authorization_failed(j)
    \/ StoreAccess(j) \/ persistence_settled(j)

PNext ==
    \/ \E c \in Controllers : ControllerStep(c)
    \/ \E q \in pending : request_failed(q)
    \/ \E l \in Exchanges : controller_close_link(l) \/ target_close_link(l)
    \/ TargetStep
    \/ \E j \in tasks : StorageStep(j)
    \/ DeadlinePasses

PSpec == PInit /\ [][PNext]_pVars

----------------------------------------------------------------------------
PTypeOK ==
    /\ \A c \in Controllers :
         /\ ctl[c].phase \in Exchange \cup {"idle", "persisting"}
         /\ ctl[c].link \in Exchanges => Owner[ctl[c].link] = c
    /\ tgt.phase \in Active \cup {"idle", "authorizing", "completing"}
    /\ grants \subseteq Exchanges /\ accesses \subseteq Exchanges
    /\ pending \subseteq wire

(* A controller keeps an access only when the target durably granted that   *)
(* same attempt, and the target grants only what both its own user and the  *)
(* controller's approved, whatever was lost, repeated, late or restarted.   *)
PairingAgreed ==
    /\ PTypeOK
    /\ accesses \subseteq grants
    /\ grants \subseteq approved.target \cap approved.controller

(* An attempt a side reported as rejected, expired, failed or lost with its *)
(* link never turns up in that side's durable table afterwards.             *)
EndedStaysEnded ==
    /\ ended.target \cap grants = {}
    /\ ended.controller \cap accesses = {}
============================================================================
