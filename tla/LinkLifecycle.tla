--------------------------- MODULE LinkLifecycle ---------------------------
(***************************************************************************)
(* One link between two nodes, from the EstablishLink command to the last  *)
(* trace of it: the rows the two link tables hold for it, the handshake    *)
(* (request, proof, RTT), the crypto work that a runtime completes later   *)
(* and in any order, keepalives and the stale/teardown deadlines, LINKCLOSE*)
(* and the receipts of packets sent over the link.                         *)
(*                                                                         *)
(* "I" is the initiator and "R" the responder.  The network loses,         *)
(* duplicates, delays and reorders packets; a packet that is not lost      *)
(* arrives within PacketDelay and a crypto job completes within JobDelay.  *)
(* Time is counted in ticks that are scaled with the protocol's constants; *)
(* a timer is served before time moves past it.                            *)
(*                                                                         *)
(* armed[e] is the wake-up the runtime keeps for link deadlines: it is what*)
(* the last handler that reported a link_deadlines wake reported, which is *)
(* not always the deadline the table holds now.                            *)
(***************************************************************************)
EXTENDS Integers, FiniteSets

CONSTANTS
    InitiatorSends, ResponderSends,   \* the SendToLink commands each end may issue
    ReceiptCap,      \* rows of an end's receipt table
    KeepaliveMin, KeepaliveMax, KeepaliveScale,   \* the keepalive law
    StaleGrace, GraceFactor,                      \* the grace before teardown
    EstablishTimeout, HandshakeTimeout,           \* how long a half-made link is kept
    TrafficTimeout,  \* how long a receipt waits for its proof
    PacketDelay, JobDelay,   \* bounds on a delivery and on a crypto job
    Budget,          \* how many faults and SendToLink and CloseLink commands there are in all
    Horizon          \* the run ends at this time

ASSUME LinkConstants ==
    /\ {ReceiptCap, KeepaliveMin, KeepaliveMax, EstablishTimeout,
        HandshakeTimeout, TrafficTimeout} \subseteq Nat \ {0}
    /\ {PacketDelay, JobDelay, KeepaliveScale, StaleGrace, GraceFactor, Budget,
        Horizon} \subseteq Nat
    /\ KeepaliveMin <= KeepaliveMax

VARIABLES
    now,
    row,        \* the link's row in each end's link table
    armed,      \* the link_deadlines wake each runtime holds
    est,        \* the EstablishLink command: its state and when it was issued
    sent,       \* the state of each SendToLink command
    receipts,   \* outstanding receipts (of both ends)
    got,        \* link data handed to the peer's application
    seen,       \* the responder's packet-hash history, as far as it concerns this link
    net,        \* packets in flight
    jobs,       \* crypto work in flight
    up,         \* which ends' interface may transmit
    closed,     \* why, and when, an end's active row was last retired
    keys,       \* session keys handed out so far
    fault       \* how much of the budget is left, and the kinds of fault injected so far

lvars == <<now, row, armed, est, sent, receipts, got, seen, net, jobs, up, closed, keys, fault>>

Ends == {"I", "R"}
Sends == InitiatorSends \cup ResponderSends
Sender(x) == IF x \in InitiatorSends THEN "I" ELSE "R"
Peer(e) == IF e = "I" THEN "R" ELSE "I"
Never == Horizon + 1
Larger(a, b) == IF a > b THEN a ELSE b
Smaller(a, b) == IF a < b THEN a ELSE b

NoRow == [phase |-> "none", key |-> 0, rtt |-> 0, req |-> 0,
          in |-> 0, out |-> 0, ka |-> 0, at |-> Never]

(***************************************************************************)
(* The keepalive law and the deadline of an active row.                    *)
(***************************************************************************)
KeepaliveMs(rtt) == Smaller(Larger(rtt * KeepaliveScale, KeepaliveMin), KeepaliveMax)
StaleMs(rtt) == 2 * KeepaliveMs(rtt)
GraceMs(rtt) == GraceFactor * rtt + StaleGrace
StaleAt_AnyTraffic(r) == Larger(r.in, r.out) + StaleMs(r.rtt)
StaleAt(r) == r.in + StaleMs(r.rtt)
TeardownAt(r) == StaleAt(r) + GraceMs(r.rtt)
SendAt_AnyTraffic(r) == Larger(Larger(r.in, r.out), r.ka) + KeepaliveMs(r.rtt)
SendAt(r) == Larger(Smaller(r.in, r.out), r.ka) + KeepaliveMs(r.rtt)

ActiveDeadline(e, r) ==
    IF e = "I" /\ SendAt(r) <= StaleAt(r) THEN SendAt(r) ELSE TeardownAt(r)

Timed(e, r) == [r EXCEPT !.at = ActiveDeadline(e, r)]
NoteInbound(e, r, t) ==
    IF r.phase # "active" THEN r ELSE Timed(e, [r EXCEPT !.in = Larger(@, t)])
NoteOutbound(e, r, t) ==
    IF r.phase # "active" THEN r ELSE Timed(e, [r EXCEPT !.out = t])
NoteKeepaliveSent(e, r, t) ==
    IF r.phase # "active" THEN r ELSE Timed(e, [r EXCEPT !.out = t, !.ka = t])
KeepaliveEchoDue(r, t) == t >= r.out + KeepaliveMs(r.rtt)

\* The rows the table tracks and activates.
TrackInitiated(requested) ==
    [NoRow EXCEPT !.phase = "pending", !.req = requested, !.at = requested + EstablishTimeout]
TrackResponding(key, arrived) ==
    [NoRow EXCEPT !.phase = "handshake", !.key = key, !.req = arrived,
                  !.at = arrived + HandshakeTimeout]
ActivateInitiated(r, key, rtt) ==
    Timed("I", [r EXCEPT !.phase = "active", !.key = key, !.rtt = rtt,
                         !.in = now, !.out = now, !.ka = now])
ActivateResponding(r, rtt) ==
    Timed("R", [r EXCEPT !.phase = "active", !.rtt = rtt,
                         !.in = now, !.out = r.req, !.ka = r.req])

\* What the link_deadlines wake finds due, in the order it looks.
PopOverdue(r) == r.at <= now /\ r.phase \in {"pending", "handshake"}
PopStale(r) == r.at <= now /\ r.phase = "active" /\ now >= TeardownAt(r)
PopDueKeepalive(e, r) ==
    /\ e = "I" /\ r.at <= now /\ r.phase = "active" /\ now < TeardownAt(r)
    /\ now >= SendAt(r) /\ SendAt(r) <= StaleAt(r)

(***************************************************************************)
(* Packets and jobs.  "by" is the time by which one is delivered.          *)
(***************************************************************************)
Packet(kind, to, key, x) ==
    [kind |-> kind, to |-> to, key |-> key, x |-> x, by |-> now + PacketDelay]
Job(kind, at, end, key, x) ==
    [kind |-> kind, at |-> at, end |-> end, key |-> key, x |-> x, by |-> now + JobDelay]
Transmit(e, p) == IF up[e] THEN {p} ELSE {}

OwnReceipts(e) == {r \in receipts : Sender(r.x) = e}

(***************************************************************************)
(* Retiring a link settles every receipt it owns and forgets the row.      *)
(***************************************************************************)
Settle(xs, how) == [x \in Sends |-> IF x \in xs THEN how ELSE sent[x]]

RetireLink_KeepsReceipts(e, reason) ==
    /\ row' = [row EXCEPT ![e] = NoRow]
    /\ armed' = [armed EXCEPT ![e] = Never]
    /\ UNCHANGED <<receipts, sent>>
    /\ closed' = [closed EXCEPT ![e] = [why |-> reason, at |-> now]]

RetireLink(e, reason) ==
    /\ row' = [row EXCEPT ![e] = NoRow]
    /\ armed' = [armed EXCEPT ![e] = Never]
    /\ receipts' = receipts \ OwnReceipts(e)
    /\ sent' = Settle({r.x : r \in OwnReceipts(e)}, "closed")
    /\ closed' = [closed EXCEPT ![e] = [why |-> reason, at |-> now]]

KeepRow_LatestWake(e, r) ==
    /\ row' = [row EXCEPT ![e] = r]
    /\ armed' = [armed EXCEPT ![e] = Larger(@, r.at)]
    /\ UNCHANGED <<receipts, sent, closed>>

\* A step that leaves the link with row r at end e and reports its wake.
KeepRow(e, r) ==
    /\ row' = [row EXCEPT ![e] = r]
    /\ armed' = [armed EXCEPT ![e] = r.at]
    /\ UNCHANGED <<receipts, sent, closed>>

-----------------------------------------------------------------------------
(***************************************************************************)
(* Commands.                                                               *)
(***************************************************************************)

\* EstablishLink: the request time is fixed before the keys are generated.
EstablishLink ==
    /\ est.state = "idle"
    /\ est' = [state |-> "owed", at |-> now]
    /\ jobs' = jobs \cup {Job("keygen", now, "I", 0, 0)}
    /\ UNCHANGED <<now, row, armed, sent, receipts, got, seen, net, up, closed, keys, fault>>

\* The keys are ready: the row is tracked as Pending and the request leaves, or the
\* route has vanished (or the table is full) and the command fails.
ResumeEstablishLink(j) ==
    /\ j.kind = "keygen"
    /\ jobs' = jobs \ {j}
    /\ \/ /\ KeepRow("I", TrackInitiated(j.at))
          /\ est' = [est EXCEPT !.state = "requested"]
          /\ net' = net \cup Transmit("I", Packet("request", "R", 0, 0))
       \/ /\ est' = [est EXCEPT !.state = "failed"]
          /\ UNCHANGED <<row, armed, receipts, sent, closed, net>>
    /\ UNCHANGED <<now, got, seen, up, keys, fault>>

\* A full receipt table gives up its stalest row for the new one.
Culled(e) ==
    IF Cardinality(OwnReceipts(e)) < ReceiptCap THEN {}
    ELSE {CHOOSE r \in OwnReceipts(e) : \A q \in OwnReceipts(e) : r.at <= q.at}

SendToLink(x) ==
    LET e == Sender(x) IN
    /\ sent[x] = "idle" /\ fault.left > 0
    /\ fault' = [fault EXCEPT !.left = @ - 1]
    /\ \/ /\ row[e].phase = "active"
          /\ receipts' = (receipts \ Culled(e))
                           \cup {[x |-> x, at |-> now, due |-> now + TrafficTimeout]}
          /\ sent' = [Settle({r.x : r \in Culled(e)}, "culled") EXCEPT ![x] = "waiting"]
          /\ row' = [row EXCEPT ![e] = NoteOutbound(e, @, now)]
          /\ armed' = [armed EXCEPT ![e] = row'[e].at]
          /\ net' = net \cup Transmit(e, Packet("data", Peer(e), row[e].key, x))
       \/ /\ row[e].phase \in {"pending", "handshake"} \/ closed[e].why # "open"
          /\ row[e].phase # "active"
          /\ sent' = [sent EXCEPT ![x] = "rejected"]
          /\ UNCHANGED <<receipts, row, armed, net>>
    /\ UNCHANGED <<now, est, got, seen, jobs, up, closed, keys>>

\* CloseLink on an active link tells the peer and retires the row.
CloseLink(e) ==
    /\ row[e].phase = "active" /\ fault.left > 0
    /\ fault' = [fault EXCEPT !.left = @ - 1]
    /\ net' = net \cup Transmit(e, Packet("close", Peer(e), row[e].key, 0))
    /\ RetireLink(e, "local")
    /\ UNCHANGED <<now, est, got, seen, jobs, up, keys>>

-----------------------------------------------------------------------------
(***************************************************************************)
(* The handshake.                                                          *)
(***************************************************************************)

\* A fresh request is remembered and owes a proof, signed by a worker.
IngestLinkRequest(p, rest) ==
    /\ p.kind = "request"
    /\ net' = rest
    /\ IF "request" \in seen THEN UNCHANGED <<seen, jobs, keys>>
       ELSE /\ seen' = seen \cup {"request"}
            /\ jobs' = jobs \cup {Job("sign", now, "R", keys + 1, 0)}
            /\ keys' = keys + 1
    /\ KeepRow("R", row["R"])
    /\ UNCHANGED <<est, got>>

ResumeLinkProofSign_Active(j) ==
    /\ j.kind = "sign"
    /\ jobs' = jobs \ {j}
    /\ IF up["R"] /\ row["R"].phase = "none"
       THEN /\ KeepRow("R", [TrackResponding(j.key, j.at) EXCEPT !.phase = "active"])
            /\ net' = net \cup {Packet("proof", "I", j.key, 0)}
       ELSE UNCHANGED <<row, armed, receipts, sent, closed, net>>
    /\ UNCHANGED <<now, est, got, seen, up, keys, fault>>

\* The proof is signed: the row is tracked as Handshake, unless one is tracked already.
ResumeLinkProofSign(j) ==
    /\ j.kind = "sign"
    /\ jobs' = jobs \ {j}
    /\ IF up["R"] /\ row["R"].phase = "none"
       THEN /\ KeepRow("R", TrackResponding(j.key, j.at))
            /\ net' = net \cup {Packet("proof", "I", j.key, 0)}
       ELSE UNCHANGED <<row, armed, receipts, sent, closed, net>>
    /\ UNCHANGED <<now, est, got, seen, up, keys, fault>>

\* A proof for a Pending row owes a verification; the round trip is measured now.
IngestLinkProof(p, rest) ==
    /\ p.kind = "proof"
    /\ net' = rest
    /\ jobs' = IF row["I"].phase # "pending" THEN jobs
               ELSE jobs \cup {Job("verify", now, "I", p.key, now - row["I"].req)}
    /\ KeepRow("I", row["I"])
    /\ UNCHANGED <<est, got, seen, keys>>

ResumeLinkProof_AnyPhase(j) ==
    /\ j.kind = "verify"
    /\ jobs' = jobs \ {j}
    /\ IF up["I"]
       THEN /\ KeepRow("I", ActivateInitiated(row["I"], j.key, j.x))
            /\ est' = [est EXCEPT !.state = "ok"]
            /\ net' = net \cup {Packet("rtt", "R", j.key, j.x)}
       ELSE UNCHANGED <<row, armed, receipts, sent, closed, est, net>>
    /\ UNCHANGED <<now, got, seen, up, keys, fault>>

\* The verdict is in: only a row that is still Pending becomes Active.
ResumeLinkProof(j) ==
    /\ j.kind = "verify"
    /\ jobs' = jobs \ {j}
    /\ IF up["I"] /\ row["I"].phase = "pending"
       THEN /\ KeepRow("I", ActivateInitiated(row["I"], j.key, j.x))
            /\ est' = [est EXCEPT !.state = "ok"]
            /\ net' = net \cup {Packet("rtt", "R", j.key, j.x)}
       ELSE UNCHANGED <<row, armed, receipts, sent, closed, est, net>>
    /\ UNCHANGED <<now, got, seen, up, keys, fault>>

\* The RTT packet activates a Handshake row of the same key.
IngestLinkRtt(p, rest) ==
    /\ p.kind = "rtt"
    /\ net' = rest
    /\ LET r == row["R"] IN
       IF r.phase = "handshake" /\ r.key = p.key
       THEN KeepRow("R", ActivateResponding(r, Larger(now - r.req, p.x)))
       ELSE KeepRow("R", r)
    /\ UNCHANGED <<est, got, seen, jobs, keys>>

-----------------------------------------------------------------------------
(***************************************************************************)
(* Traffic over the link.                                                  *)
(***************************************************************************)

\* Data is remembered before it is opened; a responder owes a proof of what it delivers.
IngestLinkData(p, rest) ==
    /\ p.kind = "data"
    /\ net' = rest
    /\ LET e == p.to
           fresh == row[e].phase = "active" /\ p.x \notin seen
           opened == fresh /\ row[e].key = p.key
       IN /\ seen' = IF fresh THEN seen \cup {p.x} ELSE seen
          /\ got' = IF opened THEN got \cup {p.x} ELSE got
          /\ jobs' = IF opened /\ e = "R"
                     THEN jobs \cup {Job("receiptSign", now, "R", 0, p.x)} ELSE jobs
          /\ KeepRow(e, IF opened THEN NoteInbound(e, row[e], now) ELSE row[e])
    /\ UNCHANGED <<est, keys>>

\* The proof leaves even when the row has gone meanwhile; no link wake is reported.
ResumeLinkReceiptSign(j) ==
    /\ j.kind = "receiptSign"
    /\ jobs' = jobs \ {j}
    /\ row' = [row EXCEPT !["R"] = NoteOutbound("R", @, now)]
    /\ net' = net \cup Transmit("R", Packet("receipt", "I", 0, j.x))
    /\ UNCHANGED <<now, armed, est, sent, receipts, got, seen, up, closed, keys, fault>>

\* A proof of an outstanding receipt owes a verification; the receipt stays.
IngestReceiptProof(p, rest) ==
    /\ p.kind = "receipt"
    /\ net' = rest
    /\ jobs' = IF \E r \in OwnReceipts("I") : r.x = p.x
               THEN jobs \cup {Job("receiptVerify", now, "I", 0, p.x)} ELSE jobs
    /\ KeepRow("I", row["I"])
    /\ UNCHANGED <<est, got, seen, keys>>

\* The verdict settles the receipt if it is still outstanding, and counts as inbound
\* traffic of the time the proof arrived; only the receipt wake is reported.
ResumeReceiptProof(j) ==
    /\ j.kind = "receiptVerify"
    /\ jobs' = jobs \ {j}
    /\ LET mine == {r \in receipts : r.x = j.x} IN
       IF mine = {} THEN UNCHANGED <<receipts, sent, row>>
       ELSE /\ receipts' = receipts \ mine
            /\ sent' = [sent EXCEPT ![j.x] = "delivered"]
            /\ row' = [row EXCEPT !["I"] = NoteInbound("I", @, j.at)]
    /\ UNCHANGED <<now, armed, est, got, seen, net, up, closed, keys, fault>>

\* settle_timed_out_receipts
ReceiptTimeout(r) ==
    /\ r.due <= now
    /\ receipts' = receipts \ {r}
    /\ sent' = [sent EXCEPT ![r.x] = "timeout"]
    /\ UNCHANGED <<now, row, armed, est, got, seen, net, jobs, up, closed, keys, fault>>

-----------------------------------------------------------------------------
(***************************************************************************)
(* Keepalives, teardown and time.                                          *)
(***************************************************************************)

\* A keepalive counts as inbound; the responder echoes it when its own side has been
\* silent for an interval, measured before the arrival is noted.
IngestKeepalive(p, rest) ==
    /\ p.kind \in {"keepalive", "echo"}
    /\ LET e == p.to
           r == NoteInbound(e, row[e], now)
           echo == /\ p.kind = "keepalive" /\ row[e].phase = "active"
                   /\ KeepaliveEchoDue(row[e], now) /\ up[e]
       IN /\ KeepRow(e, IF echo THEN NoteKeepaliveSent(e, r, now) ELSE r)
          /\ net' = IF echo THEN rest \cup {Packet("echo", "I", 0, 0)} ELSE rest
    /\ UNCHANGED <<est, got, seen, jobs, keys>>

\* LINKCLOSE under the row's key retires an active or a half-made link.
IngestLinkClose(p, rest) ==
    /\ p.kind = "close"
    /\ net' = rest
    /\ IF row[p.to].phase \in {"active", "handshake"} /\ row[p.to].key = p.key
       THEN RetireLink(p.to, "peer")
       ELSE KeepRow(p.to, row[p.to])
    /\ UNCHANGED <<est, got, seen, jobs, keys>>

\* A half-made link is dropped; the initiator's command times out, the responder's row goes
\* silently.
ExpireUnestablishedLinks(e) ==
    /\ PopOverdue(row[e])
    /\ KeepRow(e, NoRow)
    /\ est' = IF e = "I" THEN [est EXCEPT !.state = "timeout"] ELSE est
    /\ UNCHANGED net

\* A stale link is closed, and the peer told if the interface may transmit.
CloseStaleLinks(e) ==
    /\ PopStale(row[e])
    /\ RetireLink(e, "timeout")
    /\ net' = net \cup Transmit(e, Packet("close", Peer(e), row[e].key, 0))
    /\ UNCHANGED est

\* A keepalive is counted as sent whether or not the interface may transmit it.
SendDueKeepalives(e) ==
    /\ PopDueKeepalive(e, row[e])
    /\ KeepRow(e, NoteKeepaliveSent(e, row[e], now))
    /\ net' = net \cup Transmit(e, Packet("keepalive", Peer(e), 0, 0))
    /\ UNCHANGED est

\* The link_deadlines wake; one that comes early only resynchronises the schedule.
FireDueLinkDeadlines(e) ==
    /\ armed[e] <= now
    /\ \/ ExpireUnestablishedLinks(e)
       \/ CloseStaleLinks(e)
       \/ SendDueKeepalives(e)
       \/ /\ row[e].at > now
          /\ KeepRow(e, row[e])
          /\ UNCHANGED <<net, est>>
    /\ UNCHANGED <<now, got, seen, jobs, up, keys, fault>>

Inject(kind) ==
    /\ fault.left > 0
    /\ fault' = [left |-> fault.left - 1, used |-> fault.used \cup {kind}]

\* A packet arrives; when it is duplicated, a copy of it arrives again later.
Deliver(p) ==
    /\ \E copy \in {0, 1} :
         LET rest == (net \ {p}) \cup (IF copy = 1 THEN {[p EXCEPT !.by = now + PacketDelay]} ELSE {})
         IN /\ IF copy = 1 THEN Inject("dup") ELSE UNCHANGED fault
            /\ \/ IngestLinkRequest(p, rest)
               \/ IngestLinkProof(p, rest)
               \/ IngestLinkRtt(p, rest)
               \/ IngestLinkData(p, rest)
               \/ IngestReceiptProof(p, rest)
               \/ IngestKeepalive(p, rest)
               \/ IngestLinkClose(p, rest)
    /\ UNCHANGED <<now, up>>

Complete(j) ==
    \/ ResumeEstablishLink(j)
    \/ ResumeLinkProofSign(j)
    \/ ResumeLinkProof(j)
    \/ ResumeLinkReceiptSign(j)
    \/ ResumeReceiptProof(j)

\* The environment: a packet is lost, an interface goes down or comes back, and enough
\* other traffic rotates the packet-hash history.
Lose(p) ==
    /\ Inject("loss")
    /\ net' = net \ {p}
    /\ UNCHANGED <<now, row, armed, est, sent, receipts, got, seen, jobs, up, closed, keys>>

Flap(e) ==
    /\ Inject("flap")
    /\ up' = [up EXCEPT ![e] = ~@]
    /\ UNCHANGED <<now, row, armed, est, sent, receipts, got, seen, net, jobs, closed, keys>>

RotateHistory ==
    /\ seen # {} /\ Inject("forget")
    /\ seen' = {}
    /\ UNCHANGED <<now, row, armed, est, sent, receipts, got, net, jobs, up, closed, keys>>

\* Nothing is left of the link (or nothing has begun): time would change nothing.
Quiet == net = {} /\ jobs = {} /\ \A e \in Ends : row[e] = NoRow

LTick ==
    /\ now < Horizon /\ ~Quiet
    /\ \A p \in net : p.by > now
    /\ \A j \in jobs : j.by > now
    /\ \A r \in receipts : r.due > now
    /\ \A e \in Ends : armed[e] > now
    /\ now' = now + 1
    /\ UNCHANGED <<row, armed, est, sent, receipts, got, seen, net, jobs, up, closed, keys, fault>>

LinkHalt == (now = Horizon \/ Quiet) /\ UNCHANGED lvars

LInit ==
    /\ now = 0
    /\ row = [e \in Ends |-> NoRow]
    /\ armed = [e \in Ends |-> Never]
    /\ est = [state |-> "idle", at |-> 0]
    /\ sent = [x \in Sends |-> "idle"]
    /\ receipts = {} /\ got = {} /\ seen = {} /\ net = {} /\ jobs = {}
    /\ up = [e \in Ends |-> TRUE]
    /\ closed = [e \in Ends |-> [why |-> "open", at |-> 0]]
    /\ keys = 0
    /\ fault = [left |-> Budget, used |-> {}]

LNext ==
    \/ EstablishLink
    \/ \E x \in Sends : SendToLink(x)
    \/ \E e \in Ends : CloseLink(e) \/ FireDueLinkDeadlines(e) \/ Flap(e)
    \/ \E p \in net : Deliver(p) \/ Lose(p)
    \/ \E j \in jobs : Complete(j)
    \/ \E r \in receipts : ReceiptTimeout(r)
    \/ RotateHistory
    \/ LTick
    \/ LinkHalt

LSpec == LInit /\ [][LNext]_lvars

-----------------------------------------------------------------------------
(***************************************************************************)
(* Properties.                                                             *)
(***************************************************************************)

\* Every row, job, packet and command is in a state the code can represent.
LTypeOK ==
    /\ now \in 0 .. Horizon
    /\ \A e \in Ends : /\ row[e].phase \in {"none", "active"}
                                \cup (IF e = "I" THEN {"pending"} ELSE {"handshake"})
                       /\ row[e].key \in 0 .. keys
                       /\ {row[e].in, row[e].out, row[e].ka, row[e].req} \subseteq 0 .. now
                       /\ armed[e] \in Nat
    /\ est.state \in {"idle", "owed", "requested", "ok", "timeout", "failed"}
    /\ sent \in [Sends -> {"idle", "waiting", "delivered", "timeout", "closed",
                           "culled", "rejected"}]
    /\ got \subseteq Sends /\ seen \subseteq Sends \cup {"request"}
    /\ \A p \in net : p.to \in Ends /\ p.by \in now .. now + PacketDelay
    /\ \A j \in jobs : j.end \in Ends /\ j.by \in now .. now + JobDelay

\* The state is one the code can represent, and every command that has not been answered has exactly one owner that will answer it: an
\* EstablishLink is owned by its key-generation job and then by the Pending row, a
\* SendToLink by its receipt, and a receipt never outlives the active row of its link
\* (retire_link, expire_unestablished_links and the worker verdicts leave nothing behind).
NoOrphanedCommand ==
    /\ LTypeOK
    /\ est.state = "owed" <=> \E j \in jobs : j.kind = "keygen"
    /\ est.state = "requested" <=> row["I"].phase = "pending"
    /\ \A x \in Sends : sent[x] = "waiting" <=> Cardinality({r \in receipts : r.x = x}) = 1
    /\ \A r \in receipts : row[Sender(r.x)].phase = "active"

\* An answer is final: a proof verdict that loses the race to the establishment timeout, or
\* a receipt verdict that loses it to the receipt timeout, a cull or the link's end, changes
\* nothing (ResumeLinkProof, ResumeReceiptProof).
AnswersAreFinal ==
    [][/\ est.state \in {"ok", "timeout", "failed"} => est' = est
       /\ \A x \in Sends : sent[x] \notin {"idle", "waiting"} => sent'[x] = sent[x]]_lvars

\* However requests and proofs are duplicated, delayed or replayed after the history has
\* forgotten them, the responder is active only for a session the initiator established,
\* and two active ends hold the same session key.
SessionAgreed ==
    row["R"].phase = "active" =>
        /\ est.state = "ok"
        /\ row["I"].phase = "active" => row["I"].key = row["R"].key

\* When nothing is lost, no interface goes down and every proof finds its receipt, an
\* established link is never closed for staleness: the initiator's keepalives, the echoes the
\* responder does not suppress and the grace keep both ends' inbound clocks fresh enough, in
\* every interleaving.  (A proof whose receipt was culled or timed out does not count as
\* inbound, although sending it made the responder suppress its echo.)
QuietLinkStaysUp ==
    /\ fault.used \cap {"loss", "flap"} = {}
    /\ \A x \in InitiatorSends : sent[x] \notin {"culled", "timeout"}
    =>
        \A e \in Ends : closed[e].why # "timeout"

\* Once one end is gone for good, the other end's active row follows within the delay of the
\* last packet that can still reach it plus its own stale time and grace: a lost LINKCLOSE
\* leaves no half-open link.
HalfOpenIsBounded ==
    \A e \in Ends :
        (row[e].phase = "none" /\ closed[e].why # "open" /\ row[Peer(e)].phase = "active") =>
            now <= closed[e].at + (1 + Budget) * PacketDelay + 2 * JobDelay
                     + StaleMs(row[Peer(e)].rtt) + GraceMs(row[Peer(e)].rtt)

\* The wake the runtime holds is never later than the table's earliest deadline by more than
\* the link's grace, although the receipt verdict and the receipt signature move the deadline
\* without reporting it; the responder's is never late at all.
WakeIsNearlyExact ==
    /\ row["I"].phase # "none" => armed["I"] <= row["I"].at + GraceMs(row["I"].rtt)
    /\ row["R"].phase # "none" => armed["R"] <= row["R"].at
=============================================================================
