------------------------------- MODULE Channel -------------------------------
(***************************************************************************)
(* One direction of a link Channel: the windowed, selectively acknowledged *)
(* message pipe of prns-core/src/routing/links/channel, from the command   *)
(* that writes a message at one end to its delivery at the other.          *)
(*                                                                         *)
(* The n-th message the sender has written is the number n.  Its packet is *)
(* sealed once and retransmitted byte for byte, so n also stands for the   *)
(* packet and for its hash; what the receiver reads from it is only the    *)
(* wire sequence seqOf[n].  The network loses, duplicates, delays and      *)
(* reorders packets and proofs.  Signing a proof at the receiver and       *)
(* verifying it at the sender happen in the runtime's crypto workers, so   *)
(* each is a pair of steps with anything in between.                       *)
(*                                                                         *)
(* Time is left out: a retry timer may fire at any moment.  When it fires  *)
(* is the subject of module ChannelDeadlines.                              *)
(***************************************************************************)
EXTENDS Naturals, Sequences, FiniteSets, ChannelWindow

CONSTANTS
    SeqModulus,     \* size of the wire sequence space (65536 in the code)
    RxWindow,       \* WINDOW_MAX_MESSAGES: how far ahead the receiver looks
    ReorderCap,     \* the receiver's reorder buffer
    TxCap,          \* the sender's store of outstanding sends
    MaxTries,       \* CHANNEL_MAX_TRIES
    LinkRtt,        \* the round-trip class measured at establishment
    MaxMessages,    \* bound: messages written in one life of the link
    PacketLife      \* no copy of message m is on the wire once m + PacketLife is written

ASSUME ChannelConstants ==
    /\ SeqModulus \in Nat \ {0}
    /\ RxWindow \in Nat
    /\ ReorderCap \in Nat
    /\ TxCap \in Nat
    /\ MaxTries \in Nat
    /\ LinkRtt \in RttClasses
    /\ MaxMessages \in Nat
    /\ PacketLife \in Nat

Messages == 1..MaxMessages
Sequences16 == 0..(SeqModulus - 1)
Settlements == {"delivered", "timeout", "link_closed"}

VARIABLES
    txActive,       \* the sender's end of the link is in phase Active
    window,         \* the channel's ChannelWindow
    nextTx,         \* next_tx_sequence
    written,        \* messages tracked so far
    seqOf,          \* the sequence stamped on each message
    outstanding,    \* messages in the outstanding ring
    tries,          \* outstanding_tries
    settlements,    \* CommandSettled events journaled for each message
    dataNet,        \* channel packets on the wire
    rxActive,       \* the receiver's end of the link is in phase Active
    nextRx,         \* next_expected
    buffered,       \* messages in the reorder buffer
    delivered,      \* ChannelMessageReceived events, in order
    signing,        \* messages whose ChannelAckSign is with a crypto worker
    ackNet,         \* proofs on the wire
    verifying       \* messages whose ChannelAckVerify is with a crypto worker

txVars == <<txActive, window, nextTx, written, seqOf, outstanding, tries, settlements>>
rxVars == <<rxActive, nextRx, buffered, delivered>>
vars == <<txVars, dataNet, rxVars, signing, ackNet, verifying>>

Init ==
    /\ txActive = TRUE
    /\ window = DefaultWindow
    /\ nextTx = 0
    /\ written = 0
    /\ seqOf = [n \in Messages |-> 0]
    /\ outstanding = {}
    /\ tries = [n \in Messages |-> 0]
    /\ settlements = [n \in Messages |-> <<>>]
    /\ dataNet = {}
    /\ rxActive = TRUE
    /\ nextRx = 0
    /\ buffered = {}
    /\ delivered = <<>>
    /\ signing = {}
    /\ ackNet = {}
    /\ verifying = {}

-----------------------------------------------------------------------------
(* The sender *)

NextSequence(s) == (s + 1) % SeqModulus

SettleSends(ms, how) ==
    settlements' = [n \in Messages |->
        IF n \in ms THEN Append(settlements[n], how) ELSE settlements[n]]

\* The window a write starts from: re-initialised from the link's round-trip
\* time whenever the next sequence is 0 and nothing is in flight.
WriteWindow ==
    IF nextTx = 0 /\ outstanding = {} THEN ForRtt(LinkRtt) ELSE window

\* SendToChannel: ingest_send_to_channel, then write_commanded_send_to_channel.
\* The command is refused, with no change of state, unless the link is active,
\* the window has room both before and after its re-initialisation and the
\* store has a slot; the sequence is consumed only once the send is tracked.
\* (The second conjunct is the bound PacketLife on the network.)
SendToChannel ==
    /\ written < MaxMessages
    /\ \A m \in dataNet : written + 1 < m + PacketLife
    /\ txActive
    /\ Cardinality(outstanding) < window.size
    /\ Cardinality(outstanding) < WriteWindow.size
    /\ Cardinality(outstanding) < TxCap
    /\ LET n == written + 1
       IN  /\ written' = n
           /\ seqOf' = [seqOf EXCEPT ![n] = nextTx]
           /\ outstanding' = outstanding \cup {n}
           /\ tries' = [tries EXCEPT ![n] = 0]
           /\ dataNet' = dataNet \cup {n}
    /\ window' = WriteWindow
    /\ nextTx' = NextSequence(nextTx)
    /\ UNCHANGED <<txActive, settlements, rxVars, signing, ackNet, verifying>>

\* A write whose framing fails after the window was re-initialised
\* (PayloadTooLong, BufferTooShort): the sequence is not consumed.
SendToChannelWriteFails ==
    /\ txActive
    /\ Cardinality(outstanding) < window.size
    /\ window' = WriteWindow
    /\ UNCHANGED <<txActive, nextTx, written, seqOf, outstanding, tries, settlements,
                   dataNet, rxVars, signing, ackNet, verifying>>

\* A proof arrives: prepare_channel_ack_verify matches it against the
\* outstanding hashes before any signature is checked.
AckArrives(n) ==
    /\ n \in ackNet
    /\ txActive
    /\ n \in outstanding
    /\ verifying' = verifying \cup {n}
    /\ UNCHANGED <<txVars, dataNet, rxVars, signing, ackNet>>

\* A verdict applied without looking whether the message is still outstanding.
AckVerifiedStale(n, valid) ==
    /\ n \in verifying
    /\ verifying' = verifying \ {n}
    /\ IF valid
       THEN /\ outstanding' = outstanding \ {n}
            /\ window' = GrowOnAck(window, LinkRtt)
            /\ SettleSends({n}, "delivered")
       ELSE UNCHANGED <<outstanding, window, settlements>>
    /\ UNCHANGED <<txActive, nextTx, written, seqOf, tries, dataNet, rxVars, signing, ackNet>>

\* resume_channel_ack_verify: the verdict comes back.  It is applied only if
\* the signature is valid and the message is still outstanding on an active
\* link; every other completion leaves the channel alone.
AckVerified(n, valid) ==
    /\ n \in verifying
    /\ verifying' = verifying \ {n}
    /\ IF valid /\ txActive /\ n \in outstanding
       THEN /\ outstanding' = outstanding \ {n}
            /\ window' = GrowOnAck(window, LinkRtt)
            /\ SettleSends({n}, "delivered")
       ELSE UNCHANGED <<outstanding, window, settlements>>
    /\ UNCHANGED <<txActive, nextTx, written, seqOf, tries, dataNet, rxVars, signing, ackNet>>

\* A retry that does not look at the number of tries.
TimeoutRetryUncounted(n, eligible) ==
    /\ txActive
    /\ n \in outstanding
    /\ dataNet' = IF eligible THEN dataNet \cup {n} ELSE dataNet
    /\ tries' = [tries EXCEPT ![n] = @ + 1]
    /\ window' = ShrinkOnLoss(window)
    /\ UNCHANGED <<txActive, nextTx, written, seqOf, outstanding, settlements, rxVars,
                   signing, ackNet, verifying>>

\* fire_due_channel_timeouts, verdict Retry: the same packet again (kept from
\* the wire when the interface may not transmit), one more try, a smaller window.
TimeoutRetry(n, eligible) ==
    /\ txActive
    /\ n \in outstanding
    /\ tries[n] < MaxTries
    /\ dataNet' = IF eligible THEN dataNet \cup {n} ELSE dataNet
    /\ tries' = [tries EXCEPT ![n] = @ + 1]
    /\ window' = ShrinkOnLoss(window)
    /\ UNCHANGED <<txActive, nextTx, written, seqOf, outstanding, settlements, rxVars,
                   signing, ackNet, verifying>>

\* Exhaustion recognised one try too late, where no retry is left to make.
TimeoutExhaustedLate(n) ==
    /\ txActive
    /\ n \in outstanding
    /\ tries[n] > MaxTries
    /\ SettleSends(outstanding, "timeout")
    /\ outstanding' = {}
    /\ txActive' = FALSE
    /\ UNCHANGED <<window, nextTx, written, seqOf, tries, dataNet, rxVars, signing, ackNet,
                   verifying>>

\* fire_due_channel_timeouts, verdict Exhausted: teardown_channel_link settles
\* every outstanding send as a timeout, then retires the link.
TimeoutExhausted(n) ==
    /\ txActive
    /\ n \in outstanding
    /\ tries[n] >= MaxTries
    /\ SettleSends(outstanding, "timeout")
    /\ outstanding' = {}
    /\ txActive' = FALSE
    /\ UNCHANGED <<window, nextTx, written, seqOf, tries, dataNet, rxVars, signing, ackNet,
                   verifying>>

\* retire_link at the sender for any other reason (closed by the peer, by the
\* application, by staleness): every outstanding send settles as link-closed.
TxRetireLink ==
    /\ txActive
    /\ SettleSends(outstanding, "link_closed")
    /\ outstanding' = {}
    /\ txActive' = FALSE
    /\ UNCHANGED <<window, nextTx, written, seqOf, tries, dataNet, rxVars, signing, ackNet,
                   verifying>>

-----------------------------------------------------------------------------
(* The receiver *)

\* A comparison that does not wrap.
WithinReceiveWindowNoWrap(s) == s <= nextRx + RxWindow

\* within_receive_window: u16 wrapping_sub of the two sequences.
WithinReceiveWindow(s) == (s + SeqModulus - nextRx) % SeqModulus <= RxWindow

BufferedAt(s) == {b \in buffered : seqOf[b] = s}

\* The first k sequences after nextRx are buffered and the one after is not.
ContiguousRun(k) ==
    /\ \A j \in 1..k : BufferedAt((nextRx + j) % SeqModulus) # {}
    /\ BufferedAt((nextRx + k + 1) % SeqModulus) = {}

\* A drain that counts the messages it delivered but not the one that arrived.
ReceiveInOrderUncounted(n) ==
    /\ n \in dataNet
    /\ rxActive
    /\ seqOf[n] = nextRx
    /\ \E k \in 0..Cardinality(buffered) :
         /\ ContiguousRun(k)
         /\ LET run == [j \in 1..k |-> CHOOSE b \in buffered :
                                          seqOf[b] = (nextRx + j) % SeqModulus]
            IN  /\ delivered' = Append(delivered, n) \o run
                /\ buffered' = buffered \ {run[j] : j \in 1..k}
         /\ nextRx' = (nextRx + k) % SeqModulus
    /\ signing' = signing \cup {n}
    /\ UNCHANGED <<txVars, dataNet, rxActive, ackNet, verifying>>

\* receive, sequence = next_rx: deliver, then drain the run that now continues
\* it.  The proof is owed to a crypto worker.
ReceiveInOrder(n) ==
    /\ n \in dataNet
    /\ rxActive
    /\ seqOf[n] = nextRx
    /\ \E k \in 0..Cardinality(buffered) :
         /\ ContiguousRun(k)
         /\ LET run == [j \in 1..k |-> CHOOSE b \in buffered :
                                          seqOf[b] = (nextRx + j) % SeqModulus]
            IN  /\ delivered' = Append(delivered, n) \o run
                /\ buffered' = buffered \ {run[j] : j \in 1..k}
         /\ nextRx' = (nextRx + 1 + k) % SeqModulus
    /\ signing' = signing \cup {n}
    /\ UNCHANGED <<txVars, dataNet, rxActive, ackNet, verifying>>

\* An early message handed to the application instead of the reorder buffer.
ReceiveAheadDelivers(n) ==
    /\ n \in dataNet
    /\ rxActive
    /\ seqOf[n] # nextRx
    /\ WithinReceiveWindow(seqOf[n])
    /\ delivered' = Append(delivered, n)
    /\ signing' = signing \cup {n}
    /\ UNCHANGED <<txVars, dataNet, rxActive, nextRx, buffered, ackNet, verifying>>

\* receive, a new sequence inside the window: buffered if there is room.  A
\* message refused for want of room (BufferFull) is not proven and nothing
\* changes, so for the sender it is a lost packet.
ReceiveAhead(n) ==
    /\ n \in dataNet
    /\ rxActive
    /\ seqOf[n] # nextRx
    /\ WithinReceiveWindow(seqOf[n])
    /\ BufferedAt(seqOf[n]) = {}
    /\ Cardinality(buffered) < ReorderCap
    /\ buffered' = buffered \cup {n}
    /\ signing' = signing \cup {n}
    /\ UNCHANGED <<txVars, dataNet, rxActive, nextRx, delivered, ackNet, verifying>>

\* receive, AlreadyHave and OutOfWindow: nothing is stored, the proof is owed.
ReceiveRepeated(n) ==
    /\ n \in dataNet
    /\ rxActive
    /\ seqOf[n] # nextRx
    /\ \/ ~WithinReceiveWindow(seqOf[n])
       \/ BufferedAt(seqOf[n]) # {}
    /\ signing' = signing \cup {n}
    /\ UNCHANGED <<txVars, dataNet, rxVars, ackNet, verifying>>

\* resume_channel_ack_sign: the proof is sent if the link is still active.
AckSigned(n) ==
    /\ n \in signing
    /\ signing' = signing \ {n}
    /\ ackNet' = IF rxActive THEN ackNet \cup {n} ELSE ackNet
    /\ UNCHANGED <<txVars, dataNet, rxVars, verifying>>

\* retire_link at the receiver: the channel is closed with its buffer.
RxRetireLink ==
    /\ rxActive
    /\ rxActive' = FALSE
    /\ buffered' = {}
    /\ nextRx' = 0
    /\ UNCHANGED <<txVars, dataNet, delivered, signing, ackNet, verifying>>

-----------------------------------------------------------------------------
(* The network between the two ends *)

LoseData(n) ==
    /\ n \in dataNet
    /\ dataNet' = dataNet \ {n}
    /\ UNCHANGED <<txVars, rxVars, signing, ackNet, verifying>>

LoseAck(n) ==
    /\ n \in ackNet
    /\ ackNet' = ackNet \ {n}
    /\ UNCHANGED <<txVars, dataNet, rxVars, signing, verifying>>

-----------------------------------------------------------------------------

TimeoutFires(n) == TimeoutExhausted(n) \/ \E eligible \in BOOLEAN : TimeoutRetry(n, eligible)

Next ==
    \/ SendToChannel
    \/ SendToChannelWriteFails
    \/ TxRetireLink
    \/ RxRetireLink
    \/ \E n \in Messages :
         \/ AckArrives(n)
         \/ \E valid \in BOOLEAN : AckVerified(n, valid)
         \/ TimeoutFires(n)
         \/ ReceiveInOrder(n)
         \/ ReceiveAhead(n)
         \/ ReceiveRepeated(n)
         \/ AckSigned(n)
         \/ LoseData(n)
         \/ LoseAck(n)

Spec == Init /\ [][Next]_vars

\* The runtime wakes at earliest_tx_timeout_at and fires what is due: while
\* sends are outstanding some timeout fires.  Which of them is not assumed.
TimerFairness == WF_vars(\E n \in Messages : TimeoutFires(n))

FairSpec == Spec /\ TimerFairness

-----------------------------------------------------------------------------
(* Properties *)

\* Every variable keeps its type; the window satisfies WindowOk.
TypeOK ==
    /\ txActive \in BOOLEAN /\ rxActive \in BOOLEAN
    /\ WindowOk(window)
    /\ nextTx \in Sequences16 /\ nextRx \in Sequences16
    /\ written \in 0..MaxMessages
    /\ seqOf \in [Messages -> Sequences16]
    /\ tries \in [Messages -> 0..MaxTries]
    /\ settlements \in [Messages -> Seq(Settlements)]
    /\ outstanding \in SUBSET Messages /\ buffered \in SUBSET Messages
    /\ dataNet \in SUBSET Messages /\ ackNet \in SUBSET Messages
    /\ signing \in SUBSET Messages /\ verifying \in SUBSET Messages
    /\ delivered \in Seq(Messages)

\* The receiving application sees message 1, 2, 3, ... with no gap, repetition
\* or swap (receive: "the ordering key for reliable in-order delivery").
InOrder == \A i \in 1..Len(delivered) : delivered[i] = i

\* A command settles exactly once: never while its message is outstanding, and
\* once and for all when it leaves the ring, whichever of a late proof, a
\* timeout and a link teardown gets there first (resume_channel_ack_verify,
\* teardown_channel_link, retire_link).
SettledExactlyOnce ==
    \A n \in Messages :
        Len(settlements[n]) = IF n <= written /\ n \notin outstanding THEN 1 ELSE 0

\* A retired link leaves no send behind in the channel table, so no due send is
\* ever orphaned (classify_due_send, OrphanedByLink).
NoOrphanedSend == ~txActive => outstanding = {}

Received == {delivered[i] : i \in 1..Len(delivered)} \cup buffered

\* A send that settled as delivered is in the receiving application's hands or in
\* the reorder buffer, as long as the receiving end lives: a proof is owed only
\* for what was kept (ReceiveOutcome::owes_proof).
DeliveredMeansReceived ==
    rxActive => \A n \in Messages : settlements[n] = <<"delivered">> => n \in Received

\* The abstract pipe, over the messages written and the messages delivered.
Pipe == INSTANCE OrderedPipe WITH accepted <- written, output <- delivered

\* The channel implements the ordered pipe: every step of the two ends and of the
\* network accepts one message, emits the next few accepted ones, or does neither.
ImplementsPipe == Pipe!PipeSpec

\* Every written message's command settles, the timer never abandons a send, and
\* the channel "delivers everything in order for as long as the Link lives": the
\* message is delivered unless one of the two ends retires the link.
EverySendConcludes ==
    (written > 0) ~>
        /\ \A n \in 1..written : settlements[n] # <<>>
        /\ Len(delivered) >= written \/ ~txActive \/ ~rxActive
=============================================================================
