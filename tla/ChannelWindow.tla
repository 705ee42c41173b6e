---------------------------- MODULE ChannelWindow ----------------------------
(***************************************************************************)
(* The adaptive send window of a link channel                              *)
(* (prns-core/src/routing/links/channel/mod.rs, `ChannelWindow`).          *)
(*                                                                         *)
(* A window is a record [size, max, min, flexibility, fast, medium].  The  *)
(* constants are the source's.  The two round counters are u32 in the code *)
(* and are only ever compared for equality with FAST_RATE_THRESHOLD, so    *)
(* they are kept up to ROUNDS_CAP, one past that threshold.                *)
(***************************************************************************)
EXTENDS Naturals

WINDOW_INITIAL == 2
WINDOW_MIN == 2
MIN_LIMIT_MEDIUM == 5
MIN_LIMIT_FAST == 16
MAX_SLOW == 5
MAX_MEDIUM == 12
MAX_FAST == 48
FLEXIBILITY == 4
FAST_RATE_THRESHOLD == 10

\* Bound on the round counters (see above).
ROUNDS_CAP == FAST_RATE_THRESHOLD + 1

\* The measured round-trip time, as far as the window tells it apart: the three
\* tiers of ChannelRtt::tier, the slow one split by demands_stop_and_wait.
RttClasses == {"fast", "medium", "slow", "stop_and_wait"}

WindowType ==
    [size : 1..MAX_FAST, max : 1..MAX_FAST, min : 1..MIN_LIMIT_FAST,
     flexibility : 1..FLEXIBILITY, fast : 0..ROUNDS_CAP, medium : 0..ROUNDS_CAP]

ForRtt(rtt) ==
    IF rtt = "stop_and_wait"
    THEN [size |-> 1, max |-> 1, min |-> 1, flexibility |-> 1, fast |-> 0, medium |-> 0]
    ELSE [size |-> WINDOW_INITIAL, max |-> MAX_SLOW, min |-> WINDOW_MIN,
          flexibility |-> FLEXIBILITY, fast |-> 0, medium |-> 0]

\* Default::default(): the window of a channel that `ensure` has just created.
DefaultWindow == ForRtt("fast")

NextRound(rounds) == IF rounds < ROUNDS_CAP THEN rounds + 1 ELSE rounds

\* A tenth consecutive round at a rate raises max and min, once.
Promoted(w, rounds, newMax, newMin) ==
    IF w.max < newMax /\ rounds = FAST_RATE_THRESHOLD
    THEN [w EXCEPT !.max = newMax, !.min = newMin]
    ELSE w

\* A proof came back: one more in flight up to max, and the rounds are counted.
GrowOnAck(w, rtt) ==
    LET grown == IF w.size < w.max THEN [w EXCEPT !.size = @ + 1] ELSE w
    IN  CASE rtt = "fast" ->
               LET rounds == NextRound(w.fast)
               IN  Promoted([grown EXCEPT !.fast = rounds], rounds, MAX_FAST, MIN_LIMIT_FAST)
          [] rtt = "medium" ->
               LET rounds == NextRound(w.medium)
               IN  Promoted([grown EXCEPT !.fast = 0, !.medium = rounds],
                            rounds, MAX_MEDIUM, MIN_LIMIT_MEDIUM)
          [] OTHER -> [grown EXCEPT !.fast = 0, !.medium = 0]

\* A retry: one fewer in flight down to min; max follows only while it is high.
ShrinkOnLoss(w) ==
    IF w.size > w.min
    THEN [w EXCEPT !.size = @ - 1,
                   !.max = IF @ > w.min + w.flexibility THEN @ - 1 ELSE @]
    ELSE w

\* The in-flight limit of a window never leaves 1..max, and max never leaves
\* min..MAX_FAST.
WindowOk(w) ==
    /\ w \in WindowType
    /\ w.size <= w.max
    /\ w.min <= w.max
=============================================================================
