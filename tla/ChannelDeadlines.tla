-------------------------- MODULE ChannelDeadlines --------------------------
(***************************************************************************)
(* When a channel's retry timers fire: the deadlines of the outstanding    *)
(* sends, the per-channel cache of the earliest one that the engine's wake *)
(* schedule is computed from, and fire_due_channel_timeouts               *)
(* (prns-core/src/routing/links/channel/send.rs and table/core.rs).        *)
(*                                                                         *)
(* A channel is a record [open, ring, earliest]: its link is active, the   *)
(* outstanding sends in store order, and the cached earliest deadline, a   *)
(* set with at most one element for the code's Option.                     *)
(***************************************************************************)
EXTENDS Naturals, Sequences, FiniteSets, FiniteSetsExt

CONSTANTS
    Links,
    Base,       \* max(rtt * 5 / 2, 25 ms) of the links, in the model's unit
    TryLimit,   \* CHANNEL_MAX_TRIES
    RingCap,    \* how many sends a channel may have outstanding
    MaxSends,   \* bound: sends per link
    LastTick    \* bound: last instant of the clock

ASSUME DeadlineConstants ==
    /\ Base \in Nat \ {0}
    /\ TryLimit \in Nat \ {0}
    /\ RingCap \in Nat
    /\ MaxSends \in Nat
    /\ LastTick \in Nat

VARIABLES
    clock,      \* the engine's clock
    channels,   \* the channel of each link
    sends       \* sends made so far on each link; the k-th is identified by k

dVars == <<clock, channels, sends>>

DInit ==
    /\ clock = 0
    /\ channels = [l \in Links |-> [open |-> TRUE, ring |-> <<>>, earliest |-> {}]]
    /\ sends = [l \in Links |-> 0]

Deadlines(c) == {c.ring[i].deadline : i \in 1..Len(c.ring)}
Earliest(times) == IF times = {} THEN {} ELSE {Min(times)}

\* channel_retry_timeout_ms
RetryTimeout(tries, inFlight) ==
    LET t == IF tries < TryLimit THEN tries ELSE TryLimit
        ringScaled == Base * (2 * inFlight + 3)
    IN  IF t = 0 THEN ringScaled \div 3
        ELSE (ringScaled * 3 ^ (t - 1)) \div 2 ^ t

-----------------------------------------------------------------------------
(* absorb_outstanding_timeout_change: c already holds the changed ring. *)

Rescan(c) == [c EXCEPT !.earliest = Earliest(Deadlines(c))]

AbsorbPushed(c, new) ==
    IF \A current \in c.earliest : new < current
    THEN [c EXCEPT !.earliest = {new}]
    ELSE c

\* A cache that ignores a raised deadline.
AbsorbRewrittenNoRescan(c, previous, new) ==
    IF \A current \in c.earliest : new <= current
    THEN [c EXCEPT !.earliest = {new}]
    ELSE c

AbsorbRewritten(c, previous, new) ==
    IF \A current \in c.earliest : new <= current
    THEN [c EXCEPT !.earliest = {new}]
    ELSE IF previous \in c.earliest THEN Rescan(c) ELSE c

AbsorbRetired(c, retired) == IF retired \in c.earliest THEN Rescan(c) ELSE c

-----------------------------------------------------------------------------
(* The three mutators of the ring. *)

PushOutstanding(c, send) ==
    AbsorbPushed([c EXCEPT !.ring = Append(@, send)], send.deadline)

SetTimeoutAt(c, i, at) ==
    AbsorbRewritten([c EXCEPT !.ring[i].deadline = at], c.ring[i].deadline, at)

\* The retired entry's place is taken by the last one.
RetireOutstanding(c, i) ==
    LET last == Len(c.ring)
        moved == [c.ring EXCEPT ![i] = c.ring[last]]
    IN  AbsorbRetired([c EXCEPT !.ring = SubSeq(moved, 1, last - 1)], c.ring[i].deadline)

\* No stretching at all.
StretchNothing(c) == c

\* stretch_channel_deadlines: from the last entry to the first, each deadline is
\* recomputed for the current ring and written only if it is later.
StretchDeadlines(c) ==
    LET n == Len(c.ring)
        From[k \in 0..n] ==
            IF k = 0 THEN c
            ELSE LET i == n - k + 1
                     s == c.ring[i]
                     stretched == s.sentAt + RetryTimeout(s.tries, n)
                 IN  IF stretched > s.deadline
                     THEN SetTimeoutAt(From[k - 1], i, stretched)
                     ELSE From[k - 1]
    IN  From[n]

-----------------------------------------------------------------------------
(* fire_due_channel_timeouts *)

IsDue(c) == \E at \in c.earliest : at <= clock

DueSends(c) == {i \in 1..Len(c.ring) : c.ring[i].deadline <= clock}

RetryOutstanding(c, i) ==
    LET s == c.ring[i]
        retried == [c EXCEPT !.ring[i].tries = @ + 1]
    IN  StretchDeadlines(
            SetTimeoutAt(retried, i, s.sentAt + RetryTimeout(s.tries + 1, Len(c.ring))))

Closed == [open |-> FALSE, ring |-> <<>>, earliest |-> {}]

\* teardown one try too early.
ExhaustedEarly(tries) == tries + 1 >= TryLimit

Exhausted(tries) == tries >= TryLimit

\* The while loop, on one channel: next_due_channel looks for a due send only in
\* a channel whose cache says so; the first one found is retried until none is
\* due, or is exhausted and takes the whole link down.
RECURSIVE FireChannel(_)
FireChannel(c) ==
    IF ~IsDue(c) \/ DueSends(c) = {} THEN c
    ELSE LET i == Min(DueSends(c))
         IN  IF Exhausted(c.ring[i].tries) THEN Closed
             ELSE FireChannel(RetryOutstanding(c, i))

FireDue ==
    /\ \E l \in Links : IsDue(channels[l])
    /\ channels' = [l \in Links |-> FireChannel(channels[l])]
    /\ UNCHANGED <<clock, sends>>

-----------------------------------------------------------------------------

\* write_commanded_send_to_channel on a link with room in its window.
Send(l) ==
    /\ channels[l].open
    /\ sends[l] < MaxSends
    /\ Len(channels[l].ring) < RingCap
    /\ LET c == channels[l]
           send == [id |-> sends[l] + 1, sentAt |-> clock, tries |-> 0,
                    deadline |-> clock + RetryTimeout(0, Len(c.ring) + 1)]
       IN  channels' = [channels EXCEPT ![l] = StretchDeadlines(PushOutstanding(c, send))]
    /\ sends' = [sends EXCEPT ![l] = @ + 1]
    /\ UNCHANGED clock

\* resume_channel_ack_verify with a valid proof for any outstanding send.
Acked(l) ==
    /\ \E i \in 1..Len(channels[l].ring) :
         channels' = [channels EXCEPT ![l] = RetireOutstanding(@, i)]
    /\ UNCHANGED <<clock, sends>>

\* retire_link for another reason: the ring is emptied front first, then closed.
RetireChannel(l) ==
    /\ channels[l].open
    /\ channels' = [channels EXCEPT ![l] = Closed]
    /\ UNCHANGED <<clock, sends>>

\* Time passes.  Nothing forces the timer to be served on time.
Tick ==
    /\ clock < LastTick
    /\ clock' = clock + 1
    /\ UNCHANGED <<channels, sends>>

DNext ==
    \/ FireDue
    \/ Tick
    \/ \E l \in Links : Send(l) \/ Acked(l) \/ RetireChannel(l)

DSpec == DInit /\ [][DNext]_dVars

-----------------------------------------------------------------------------
(* Properties *)

SendType == [id : 1..MaxSends, sentAt : 0..LastTick, tries : 0..TryLimit, deadline : Nat]

\* Every variable keeps its type, and a closed channel holds no send.
DTypeOK ==
    /\ clock \in 0..LastTick
    /\ sends \in [Links -> 0..MaxSends]
    /\ \A l \in Links :
         /\ \A i \in 1..Len(channels[l].ring) : channels[l].ring[i] \in SendType
         /\ Len(channels[l].ring) <= RingCap
         /\ ~channels[l].open => channels[l] = Closed

\* The state keeps its type, and the cached earliest deadline is the earliest deadline, whatever pushes,
\* rewrites, stretches and swap-removals led here (earliest_tx_timeout_at: "a
\* channel's cached earliest tx timeout desynced from its outstanding deadlines").
CacheExact == DTypeOK /\ \A l \in Links : channels[l].earliest = Earliest(Deadlines(channels[l]))

\* No send waits for less than the retry ladder prescribes for the sends that
\* are in flight with it now, although the ring grew and shrank in between
\* (stretch_channel_deadlines).
LadderHonoured ==
    \A l \in Links : \A i \in 1..Len(channels[l].ring) :
        LET s == channels[l].ring[i]
        IN  s.deadline >= s.sentAt + RetryTimeout(s.tries, Len(channels[l].ring))

\* A link is torn down by its channel only once some send has been outstanding
\* for the whole of its retry ladder, however late the timer was served.
NoEarlyTeardown ==
    [][FireDue =>
         \A l \in Links : (channels[l].open /\ ~channels'[l].open) =>
            \E i \in 1..Len(channels[l].ring) :
                clock >= channels[l].ring[i].sentAt
                         + RetryTimeout(TryLimit, Len(channels[l].ring))]_dVars
=============================================================================
