-------------------------- MODULE ResourceReceive --------------------------
(***************************************************************************)
(* Receiving Resources over one active link: the advertisement gate, the   *)
(* table of incoming transfers, the queue of offers waiting for a row, the *)
(* one split chain a link assembles, the off-engine open and inflate jobs, *)
(* and the requests whose answers arrive this way                          *)
(* (routing/links/resources/receive/*.rs, resources/pending/mod.rs,        *)
(* resources/assembly/core.rs, resources/settlement/mod.rs and the request *)
(* rows of routing/delivery/receipts/core.rs).                             *)
(*                                                                         *)
(* Time is abstract.  A deadline that is armed may pass at any moment, so  *)
(* the runtime's resource wake is one of "idle", "later" and "due" (the    *)
(* deadline 0 that the queue asks for when it has work to do now).  A      *)
(* transfer's parts arrive in one step: the rounds are left out.           *)
(***************************************************************************)
EXTENDS Integers, Sequences, FiniteSets, SequencesExt

CONSTANTS
    Requests,      \* requests this node may send
    Offers,        \* Resources the peer may advertise
    Ad,            \* what the advertisement of each says
    RowCap,        \* rows of the incoming table
    MemoryLimit,   \* buffer units of the incoming table
    QueueCap,      \* rows of the pending-offer table
    ReceiptCap,    \* rows of the receipt table
    Retries,       \* PART_REQUEST_MAX_RETRIES
    AdvertBudget   \* advertisements that reach this node

VARIABLES
    eng,      \* the engine state below
    wake,     \* the runtime's resource_deadlines schedule
    walk,     \* where fire_due_resource_deadlines has got to
    late,     \* queued offers whose wait is over, during that walk
    work,     \* open and inflate jobs out with the runtime
    adverts   \* advertisements that have arrived

rvars == <<eng, wake, walk, late, work, adverts>>

(* What an advertisement says, and what the gate derives from it:          *)
(* `corr` is the request it answers, or "none" (unsolicited) or "peer" (a  *)
(* request of the peer's); `huge` tells a response past its request's      *)
(* limit, and `cost` is what the transfer's buffers take.                  *)
OfferShape ==
    [orig : STRING, seg : 1..2, total : 1..2,
     corr : Requests \cup {"none", "peer"}, bz2 : BOOLEAN,
     huge : BOOLEAN, cost : 1..3]

ASSUME ReceiveConstants ==
    /\ IsFiniteSet(Requests) /\ IsFiniteSet(Offers)
    /\ Requests \cap {"none", "peer"} = {}
    /\ Ad \in [Offers -> OfferShape]
    /\ \A o \in Offers : Ad[o].seg <= Ad[o].total
    /\ RowCap \in Nat \ {0} /\ MemoryLimit \in Nat
    /\ QueueCap \in Nat /\ ReceiptCap \in Nat \ {0}
    /\ Retries \in Nat /\ AdvertBudget \in Nat

NoChain == [orig |-> "", corr |-> "", total |-> 0, got |-> 0]
NoRow == [st |-> "free", tries |-> 0]

RInit ==
    /\ eng = [up       |-> TRUE,
              booked   |-> <<>>,
              claimed  |-> {},
              outcome  |-> [q \in Requests |-> "unsent"],
              uploads  |-> {},
              rows     |-> [o \in Offers |-> NoRow],
              chain    |-> NoChain,
              queue    |-> <<>>,
              stream   |-> [q \in Requests |-> <<>>],
              exposed  |-> {}]
    /\ wake = "idle" /\ walk = "off" /\ late = {}
    /\ work = {} /\ adverts = 0

----------------------------------------------------------------------------
(* The request rows of the receipt table.  A booked request is due at its  *)
(* response deadline unless a transfer has claimed it.                     *)

IsAnswer(o) == Ad[o].corr \in Requests

Booked(s, q) == q \in Range(s.booked)

Settle(s, q, how) ==
    IF Booked(s, q)
    THEN [s EXCEPT !.booked = SelectSeq(@, LAMBDA r : r # q),
                   !.claimed = @ \ {q},
                   !.outcome[q] = how]
    ELSE s

Claim(s, q) ==
    [s EXCEPT !.claimed = IF Booked(s, q) THEN @ \cup {q} ELSE @,
              !.uploads = IF Booked(s, q) THEN @ \ {q} ELSE @]

ArmRequestTimeout(s, q) == [s EXCEPT !.claimed = @ \ {q}]

(* The split chain of the link. *)

Begin(s, o) ==
    [s EXCEPT !.chain = [orig |-> Ad[o].orig, corr |-> Ad[o].corr,
                         total |-> Ad[o].total, got |-> 0]]

\* Mutant: any chain for the same request will do.
Fits_AnyChain(s, o) ==
    /\ s.chain.corr = Ad[o].corr
    /\ s.chain.total = Ad[o].total
    /\ Ad[o].seg = s.chain.got + 1

Fits(s, o) ==
    /\ s.chain.orig = Ad[o].orig
    /\ s.chain.corr = Ad[o].corr
    /\ s.chain.total = Ad[o].total
    /\ Ad[o].seg = s.chain.got + 1

RetireResponseAssembly(s, q) ==
    IF s.chain.corr = q THEN [s EXCEPT !.chain = NoChain] ELSE s

Superseded(s, o) == Ad[o].total = 1 /\ IsAnswer(o) /\ s.chain.corr = Ad[o].corr

Misplaced(s, o) == Ad[o].total > 1 /\ Ad[o].seg > 1 /\ ~Fits(s, o)

(* The incoming table. *)

Busy(s) == {o \in Offers : s.rows[o].st # "free"}

ActiveBufferUnits(s) ==
    Cardinality({<<o, unit>> \in Busy(s) \X (1..MemoryLimit) : unit <= Ad[o].cost})

StorageAdmission(s, o) ==
    CASE Ad[o].cost > MemoryLimit -> "impossible"
      [] /\ Cardinality(Busy(s)) < RowCap
         /\ Ad[o].cost <= MemoryLimit - ActiveBufferUnits(s) -> "available"
      [] OTHER -> "full"

Retire(s, o) == [s EXCEPT !.rows[o] = NoRow]

----------------------------------------------------------------------------
(* The failure ladder: who may settle the request a transfer answers. *)

SettleAnswer(s, o, how) == IF IsAnswer(o) THEN Settle(s, Ad[o].corr, how) ELSE s

\* Mutant: a failed segment leaves its request to the next one.
SettleFailedClaim_Leaves(s, o, how) ==
    IF Superseded(s, o) THEN s
    ELSE IF Ad[o].total > 1 /\ s.chain.corr = Ad[o].corr THEN [s EXCEPT !.chain = NoChain]
    ELSE SettleAnswer(s, o, how)

SettleFailedClaim(s, o, how) ==
    IF Superseded(s, o) THEN s
    ELSE CASE Ad[o].total > 1 /\ Fits(s, o) ->
                  SettleAnswer([s EXCEPT !.chain = NoChain], o, how)
           [] Ad[o].total > 1 /\ ~Fits(s, o) /\ s.chain.corr = Ad[o].corr -> s
           [] OTHER -> SettleAnswer(s, o, how)

FailIncoming(s, o, how) == Retire(SettleFailedClaim(s, o, how), o)

----------------------------------------------------------------------------
(* The resource wake: rows and uploads have deadlines ahead of them; a     *)
(* queued offer asks for attention now when anything can be done about it. *)

OfferDue(s, o) ==
    \/ Superseded(s, o)
    \/ StorageAdmission(s, o) # "full"
    \/ IsAnswer(o) /\ (~Booked(s, Ad[o].corr) \/ Ad[o].corr \in s.claimed)

ResourceWake(s) ==
    IF \E i \in DOMAIN s.queue : OfferDue(s, s.queue[i]) THEN "due"
    ELSE IF Busy(s) # {} \/ s.queue # <<>> \/ s.uploads # {} THEN "later" ELSE "idle"

----------------------------------------------------------------------------
(* The advertisement gate. *)

ResourceCapacityRejected(s, o) ==
    IF IsAnswer(o) /\ Booked(s, Ad[o].corr)
    THEN RetireResponseAssembly(Settle(s, Ad[o].corr, "capacity"), Ad[o].corr)
    ELSE s

AdmitAccepted(s, o) ==
    IF \/ Superseded(s, o)
       \/ Misplaced(s, o)
       \/ o \in Busy(s)
    THEN s
    ELSE LET row == [s EXCEPT !.rows[o] = [st |-> "pulling", tries |-> Retries]]
             begun == IF Ad[o].total > 1 /\ Ad[o].seg = 1 THEN Begin(row, o) ELSE row
         IN  IF IsAnswer(o) THEN Claim(begun, Ad[o].corr) ELSE begun

AdmitOrQueue(s, o) ==
    CASE StorageAdmission(s, o) = "impossible" -> ResourceCapacityRejected(s, o)
      [] \/ StorageAdmission(s, o) = "available"
         \/ StorageAdmission(s, o) = "full" /\ o \in Busy(s) -> AdmitAccepted(s, o)
      [] StorageAdmission(s, o) = "full" /\ o \notin Busy(s) ->
            IF Len(s.queue) < QueueCap
            THEN [s EXCEPT !.queue = Append(@, o)]
            ELSE ResourceCapacityRejected(s, o)

(* Dropped without a trace, and without a new wake. *)
Ignored(s, o) ==
    \/ Superseded(s, o)
    \/ Misplaced(s, o)
    \/ IsAnswer(o) /\ ~Booked(s, Ad[o].corr)

(* The link's strategy, its decider or the limit on requests may refuse    *)
(* anything but an answer.                                                 *)
Declinable(o) == ~IsAnswer(o)

IngestResourceAdvertisement(o, declined) ==
    /\ walk = "off" /\ eng.up /\ adverts < AdvertBudget
    /\ declined => Declinable(o)
    /\ adverts' = adverts + 1
    /\ IF Ignored(eng, o) \/ declined
       THEN UNCHANGED <<eng, wake>>
       ELSE /\ eng' = IF IsAnswer(o) /\ Ad[o].huge /\ Ad[o].total = 1
                      THEN RetireResponseAssembly(
                               Settle(eng, Ad[o].corr, "tooLarge"), Ad[o].corr)
                      ELSE IF Contains(eng.queue, o) THEN eng ELSE AdmitOrQueue(eng, o)
            /\ wake' = ResourceWake(eng')
    /\ UNCHANGED <<walk, late, work>>

----------------------------------------------------------------------------
(* Delivery.  A job's verdict is "good", "corrupt" (it does not open,      *)
(* inflate or verify) or "large" (the value overruns the request's limit). *)

Verdicts == {"good", "corrupt", "large"}

AdvanceSplitAssembly(s, o) ==
    IF ~Fits(s, o) THEN s
    ELSE IF Ad[o].seg = Ad[o].total
         THEN [SettleAnswer(s, o, "ok") EXCEPT !.chain = NoChain]
         ELSE LET t == [s EXCEPT !.chain.got = Ad[o].seg]
              IN  IF IsAnswer(o) THEN ArmRequestTimeout(t, Ad[o].corr) ELSE t

(* What the application sees of a response, or of anything else. *)
Publish(s, o) ==
    IF IsAnswer(o) /\ Booked(s, Ad[o].corr)
    THEN [s EXCEPT !.stream[Ad[o].corr] = Append(@, <<Ad[o].orig, Ad[o].seg>>)]
    ELSE [s EXCEPT !.exposed = @ \cup {o}]

WholeResponseLacksDeliveryClaim(s, o) ==
    /\ Ad[o].total = 1 /\ IsAnswer(o)
    /\ ~Booked(s, Ad[o].corr) \/ Superseded(s, o)

DeliverSingleSegment(s, o, verdict) ==
    CASE ~IsAnswer(o)      -> Publish(s, o)
      [] IsAnswer(o) /\ verdict = "large" -> Settle(s, Ad[o].corr, "tooLarge")
      [] IsAnswer(o) /\ verdict # "large" -> Settle(Publish(s, o), Ad[o].corr, "ok")

(* The tail of conclude_resource, shared with resume_resource_decompression: *)
(* verify, then refuse, or prove and deliver.                                *)
Deliver(s, o, verdict) ==
    CASE verdict = "corrupt" -> FailIncoming(s, o, "corrupt")
      [] verdict # "corrupt" /\ WholeResponseLacksDeliveryClaim(s, o) -> Retire(s, o)
      [] verdict # "corrupt" /\ ~WholeResponseLacksDeliveryClaim(s, o) ->
            IF Ad[o].total = 1
            THEN Retire(DeliverSingleSegment(s, o, verdict), o)
            ELSE IF verdict = "large" /\ IsAnswer(o) /\ Booked(s, Ad[o].corr)
                 THEN FailIncoming(s, o, "tooLarge")
                 ELSE AdvanceSplitAssembly(Retire(Publish(s, o), o), o)

StaleSegment(s, o) == Ad[o].total > 1 /\ ~Fits(s, o)

(* The last part lands: emit_resource_open dispatches the span, and        *)
(* conclude_resource finds it in flight.                                   *)
FinishResourcePart(o) ==
    /\ walk = "off" /\ eng.rows[o].st = "pulling"
    /\ work' = work \cup {<<"open", o>>}
    /\ eng' = IF StaleSegment(eng, o)
              THEN FailIncoming(eng, o, "corrupt")
              ELSE [eng EXCEPT !.rows[o].st = "opening"]
    /\ wake' = ResourceWake(eng')
    /\ UNCHANGED <<walk, late, adverts>>

ResumeResourceOpen(o, verdict) ==
    /\ walk = "off" /\ <<"open", o>> \in work
    /\ IF eng.rows[o].st # "opening"
       THEN work' = work \ {<<"open", o>>} /\ UNCHANGED <<eng, wake>>
       ELSE LET inflates == Ad[o].bz2 /\ ~StaleSegment(eng, o) /\ verdict # "corrupt"
            IN  /\ eng' = CASE StaleSegment(eng, o) -> FailIncoming(eng, o, "corrupt")
                            [] inflates -> [eng EXCEPT !.rows[o].st = "inflating"]
                            [] OTHER -> Deliver(eng, o, verdict)
                /\ work' = (work \ {<<"open", o>>})
                           \cup (IF inflates THEN {<<"inflate", o>>} ELSE {})
                /\ wake' = ResourceWake(eng')
    /\ UNCHANGED <<walk, late, adverts>>

\* Mutant: the freed row is not announced.
ResumeResourceDecompression_NoWake(o, verdict) ==
    /\ walk = "off" /\ <<"inflate", o>> \in work
    /\ work' = work \ {<<"inflate", o>>}
    /\ eng' = IF eng.rows[o].st # "inflating" THEN eng
              ELSE IF StaleSegment(eng, o) THEN FailIncoming(eng, o, "corrupt")
              ELSE Deliver(eng, o, verdict)
    /\ UNCHANGED <<wake, walk, late, adverts>>

(* The wake is taken once the row is gone, before what the row settles. *)
ResumeResourceDecompression(o, verdict) ==
    /\ walk = "off" /\ <<"inflate", o>> \in work
    /\ work' = work \ {<<"inflate", o>>}
    /\ IF eng.rows[o].st # "inflating"
       THEN UNCHANGED <<eng, wake>>
       ELSE IF StaleSegment(eng, o)
            THEN /\ eng' = FailIncoming(eng, o, "corrupt")
                 /\ wake' = ResourceWake(eng')
            ELSE /\ eng' = Deliver(eng, o, verdict)
                 /\ wake' = ResourceWake(Retire(eng, o))
    /\ UNCHANGED <<walk, late, adverts>>

IngestResourceCancel(o) ==
    /\ walk = "off" /\ o \in Busy(eng)
    /\ eng' = FailIncoming(eng, o, "cancelled")
    /\ wake' = ResourceWake(eng')
    /\ UNCHANGED <<walk, late, work, adverts>>

----------------------------------------------------------------------------
(* Requests: sent as one packet, or uploaded as a Resource of their own.   *)
(* A full receipt table culls its stalest row.                             *)

\* Mutant: culling forgets the chain that was answering the request.
Track_KeepsAssembly(s, q) ==
    LET room == IF Len(s.booked) < ReceiptCap THEN s
                ELSE Settle(s, Head(s.booked), "culled")
    IN  [room EXCEPT !.booked = Append(@, q), !.outcome[q] = "pending"]

Track(s, q) ==
    LET stalest == Head(s.booked)
        room == IF Len(s.booked) < ReceiptCap THEN s
                ELSE RetireResponseAssembly(Settle(s, stalest, "culled"), stalest)
    IN  [room EXCEPT !.booked = Append(@, q), !.outcome[q] = "pending"]

WriteCommandedSendRequest(q) ==
    /\ walk = "off" /\ eng.up /\ eng.outcome[q] = "unsent"
    /\ eng' = Track(eng, q)
    /\ wake' = IF Len(eng.booked) < ReceiptCap THEN wake ELSE ResourceWake(eng')
    /\ UNCHANGED <<walk, late, work, adverts>>

BookRequestResourceReceipt(q) ==
    /\ walk = "off" /\ eng.up /\ eng.outcome[q] = "unsent"
    /\ eng' = [Track(eng, q) EXCEPT !.uploads = @ \cup {q}]
    /\ wake' = ResourceWake(eng')
    /\ UNCHANGED <<walk, late, work, adverts>>

(* The upload's proof is not an answer; its failure is one. *)
IngestResourceProof(q) ==
    /\ walk = "off" /\ q \in eng.uploads
    /\ eng' = [eng EXCEPT !.uploads = @ \ {q}]
    /\ wake' = ResourceWake(eng')
    /\ UNCHANGED <<walk, late, work, adverts>>

SettleAdvertisedResource(s, q, how) ==
    Settle([s EXCEPT !.uploads = @ \ {q}], q, how)

IngestResourceReceiverCancel(q) ==
    /\ walk = "off" /\ q \in eng.uploads
    /\ eng' = SettleAdvertisedResource(eng, q, "rejected")
    /\ wake' = ResourceWake(eng')
    /\ UNCHANGED <<walk, late, work, adverts>>

IngestResponseOverLink(q, verdict) ==
    /\ walk = "off" /\ Booked(eng, q) /\ verdict # "corrupt"
    /\ eng.chain.corr # q
    /\ eng' = IF verdict = "large" THEN Settle(eng, q, "tooLarge")
              ELSE Settle([eng EXCEPT !.stream[q] = Append(@, <<"packet", 1>>)], q, "ok")
    /\ wake' = ResourceWake(eng')
    /\ UNCHANGED <<walk, late, work, adverts>>

SettleTimedOutReceipts(q) ==
    /\ walk = "off" /\ Booked(eng, q) /\ q \notin eng.claimed
    /\ eng' = RetireResponseAssembly(Settle(eng, q, "timeout"), q)
    /\ wake' = ResourceWake(eng')
    /\ UNCHANGED <<walk, late, work, adverts>>

----------------------------------------------------------------------------
(* fire_due_resource_deadlines: what is due fails or is pulled again, the  *)
(* queue is purged, as much of it as fits is admitted, and the wake is     *)
(* recomputed.  The walk runs to its end before anything else happens.     *)

Deadline ==
    /\ walk \in {"off", "fire"} /\ eng.up /\ wake # "idle"
    /\ walk' = "fire"
    /\ UNCHANGED <<wake, work, adverts>>

FireDueOutgoingResource(q) ==
    /\ Deadline /\ q \in eng.uploads
    /\ eng' = SettleAdvertisedResource(eng, q, "uploadFailed")
    /\ UNCHANGED late

\* Mutant: a transfer waiting for a job has no deadline.
FireDueIncomingResource_PullsOnly(o) ==
    /\ Deadline /\ eng.rows[o].st = "pulling"
    /\ eng' = IF eng.rows[o].tries = 0
              THEN FailIncoming(eng, o, "timeout")
              ELSE [eng EXCEPT !.rows[o].tries = @ - 1]
    /\ UNCHANGED late

FireDueIncomingResource(o) ==
    /\ Deadline /\ o \in Busy(eng)
    /\ eng' = IF eng.rows[o].st # "pulling" \/ eng.rows[o].tries = 0
              THEN FailIncoming(eng, o, "timeout")
              ELSE [eng EXCEPT !.rows[o].tries = @ - 1]
    /\ UNCHANGED late

PendingOfferExpires(o) ==
    /\ Deadline /\ Contains(eng.queue, o)
    /\ late' = late \cup {o}
    /\ UNCHANGED eng

WakeForQueue ==
    /\ Deadline /\ walk = "off" /\ wake = "due"
    /\ UNCHANGED <<eng, late>>

BeginPurge ==
    /\ walk = "fire" /\ walk' = "purge"
    /\ UNCHANGED <<eng, wake, late, work, adverts>>

Unqueue(s, o) == [s EXCEPT !.queue = SelectSeq(@, LAMBDA p : p # o)]

Unanswerable(s, o) == IsAnswer(o) /\ (~Booked(s, Ad[o].corr) \/ Ad[o].corr \in s.claimed)

PendingOfferDue(s, o) ==
    \/ Superseded(s, o) \/ Misplaced(s, o) \/ Unanswerable(s, o)
    \/ StorageAdmission(s, o) = "impossible"
    \/ o \in late

(* A late response offer takes its request with it, unless a transfer or a *)
(* chain has the request by now.                                           *)
SettlePurged(s, o, how) ==
    IF Superseded(s, o) \/ Misplaced(s, o) \/ Unanswerable(s, o) \/ ~IsAnswer(o)
    THEN s
    ELSE RetireResponseAssembly(Settle(s, Ad[o].corr, how), Ad[o].corr)

PurgeOffer(o, how) ==
    /\ walk = "purge" /\ Contains(eng.queue, o) /\ PendingOfferDue(eng, o)
    /\ eng' = SettlePurged(Unqueue(eng, o), o, how)
    /\ UNCHANGED <<wake, walk, late, work, adverts>>

BeginAdmit ==
    /\ walk = "purge"
    /\ \A i \in DOMAIN eng.queue : ~PendingOfferDue(eng, eng.queue[i])
    /\ walk' = "admit" /\ late' = {}
    /\ UNCHANGED <<eng, wake, work, adverts>>

Priority(o) ==
    CASE IsAnswer(o) -> 0 [] Ad[o].corr = "peer" -> 1 [] Ad[o].corr = "none" -> 2

Fitting(s) ==
    {i \in DOMAIN s.queue : StorageAdmission(s, s.queue[i]) = "available"}

OldestFitting(s) ==
    CHOOSE i \in Fitting(s) : \A j \in Fitting(s) :
        \/ Priority(s.queue[i]) < Priority(s.queue[j])
        \/ Priority(s.queue[i]) = Priority(s.queue[j]) /\ i <= j

PromoteOffer ==
    /\ walk = "admit" /\ Fitting(eng) # {}
    /\ LET o == eng.queue[OldestFitting(eng)]
       IN  eng' = AdmitAccepted(Unqueue(eng, o), o)
    /\ UNCHANGED <<wake, walk, late, work, adverts>>

EndWalk ==
    /\ walk = "admit" /\ Fitting(eng) = {}
    /\ walk' = "off" /\ wake' = ResourceWake(eng)
    /\ UNCHANGED <<eng, late, work, adverts>>

----------------------------------------------------------------------------
(* retire_link: every transfer fails, then every upload, then whatever     *)
(* request is left; the queue and the chain go with the link.              *)

FailedWithLink(s, q) ==
    \E o \in Busy(s) : /\ Ad[o].corr = q /\ Booked(s, q)
                       /\ s.chain.corr # q \/ Fits(s, o)

RetireLink ==
    /\ walk = "off" /\ eng.up
    /\ eng' = [eng EXCEPT
                 !.up = FALSE, !.booked = <<>>, !.claimed = {}, !.uploads = {},
                 !.rows = [o \in Offers |-> NoRow], !.chain = NoChain, !.queue = <<>>,
                 !.outcome = [q \in Requests |->
                     IF ~Booked(eng, q) THEN eng.outcome[q]
                     ELSE IF FailedWithLink(eng, q) THEN "linkVanished" ELSE "linkClosed"]]
    /\ wake' = ResourceWake(eng')
    /\ UNCHANGED <<walk, late, work, adverts>>

(* Nothing left to do: the link is gone and no job is out. *)
Settled == ~eng.up /\ work = {} /\ UNCHANGED rvars

Walk ==
    \/ \E o \in Offers : FireDueIncomingResource(o) \/ PendingOfferExpires(o)
    \/ \E q \in Requests : FireDueOutgoingResource(q)
    \/ WakeForQueue \/ BeginPurge \/ BeginAdmit \/ PromoteOffer \/ EndWalk
    \/ \E o \in Offers, how \in {"timeout", "capacity"} : PurgeOffer(o, how)

RNext ==
    \/ \E o \in Offers, declined \in BOOLEAN : IngestResourceAdvertisement(o, declined)
    \/ \E o \in Offers : FinishResourcePart(o) \/ IngestResourceCancel(o)
    \/ \E o \in Offers, verdict \in Verdicts :
          ResumeResourceOpen(o, verdict) \/ ResumeResourceDecompression(o, verdict)
    \/ \E q \in Requests :
          \/ WriteCommandedSendRequest(q) \/ BookRequestResourceReceipt(q)
          \/ IngestResourceProof(q) \/ IngestResourceReceiverCancel(q)
          \/ SettleTimedOutReceipts(q)
    \/ \E q \in Requests, verdict \in Verdicts : IngestResponseOverLink(q, verdict)
    \/ Walk
    \/ RetireLink
    \/ Settled

(* Armed deadlines pass and the walk is finished; no job need ever return, *)
(* no part or packet need ever arrive.                                     *)
RFairness ==
    /\ WF_rvars(Walk)
    /\ WF_rvars(\E q \in Requests : SettleTimedOutReceipts(q))

RSpec == RInit /\ [][RNext]_rvars /\ RFairness

----------------------------------------------------------------------------
(* Properties *)

Outcomes == {"unsent", "pending", "ok", "capacity", "tooLarge", "corrupt",
             "cancelled", "timeout", "culled", "rejected", "uploadFailed",
             "linkVanished", "linkClosed"}

\* Every table keeps its shape and its bound, and the receipt rows are
\* exactly the requests the application still waits for.
RTypeOK ==
    /\ eng.up \in BOOLEAN
    /\ eng.outcome \in [Requests -> Outcomes]
    /\ Range(eng.booked) = {q \in Requests : eng.outcome[q] = "pending"}
    /\ Len(eng.booked) = Cardinality(Range(eng.booked)) /\ Len(eng.booked) <= ReceiptCap
    /\ eng.claimed \subseteq Range(eng.booked)
    /\ eng.uploads \subseteq Requests
    /\ eng.rows \in [Offers -> [st : {"free", "pulling", "opening", "inflating"},
                                tries : 0..Retries]]
    /\ Cardinality(Busy(eng)) <= RowCap /\ ActiveBufferUnits(eng) <= MemoryLimit
    /\ Len(eng.queue) <= QueueCap /\ Range(eng.queue) \subseteq Offers
    /\ Range(eng.queue) \cap Busy(eng) = {}
    /\ late \subseteq Range(eng.queue) \cup Offers
    /\ walk \in {"off", "fire", "purge", "admit"}
    /\ wake \in {"idle", "later", "due"}
    /\ work \subseteq {"open", "inflate"} \X Offers

\* The tables keep their shape and their bounds, and a request whose own
\* timeout a transfer has stopped is never orphaned: some running transfer
\* would, on failing, settle it (claim_request_for_transfer: "the transfer
\* settles the row through every exit, so a claimed row cannot leak").
ClaimHasOwner ==
    RTypeOK /\ \A q \in eng.claimed : \E o \in Busy(eng) :
        /\ Ad[o].corr = q
        /\ IF Ad[o].total = 1 THEN eng.chain.corr # q
                          ELSE Fits(eng, o) \/ eng.chain.corr # q

\* What a peer sends in answer to a request is never handed to the application
\* as an unrelated Resource, however late it completes: the request is still
\* booked, or the transfer is refused.
ResponsesStayPrivate == \A o \in eng.exposed : ~IsAnswer(o)

SegmentsOf(orig) ==
    IF orig = "packet" THEN 1 ELSE Ad[CHOOSE o \in Offers : Ad[o].orig = orig].total

\* A request is reported answered only when the segments published last are
\* the whole of one chain, from its first segment to its last, in order, with
\* nothing of another answer in between.
AnswerIsOneChain ==
    \A q \in Requests : eng.outcome[q] = "ok" =>
        LET got == eng.stream[q]
            orig == Last(got)[1]
            n == SegmentsOf(orig)
        IN  /\ Len(got) >= n
            /\ \A i \in 1..n : got[Len(got) - n + i] = <<orig, i>>

\* Between engine calls the runtime is woken at once whenever a queued offer
\* would fit, and is never left without a wake while a transfer, an upload or
\* a queued offer has a deadline.
FreedRowWakesQueue ==
    walk = "off" =>
        /\ Fitting(eng) # {} => wake = "due"
        /\ Busy(eng) # {} \/ eng.queue # <<>> \/ eng.uploads # {} => wake # "idle"

\* Every request is settled, even if the peer falls silent in the middle of a
\* chain and no open or inflate job ever returns.  (A request is sent once, so
\* one that stayed pending would be pending for ever.)
RequestsSettle == []<>(\A q \in Requests : eng.outcome[q] # "pending")
=============================================================================
