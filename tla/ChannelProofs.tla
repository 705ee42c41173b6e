--------------------------- MODULE ChannelProofs ---------------------------
(***************************************************************************)
(* Machine-checked proofs about module Channel, for every value of its     *)
(* constants.                                                              *)
(***************************************************************************)
EXTENDS Channel, SequenceTheorems, TLAPS

-----------------------------------------------------------------------------
(* The window arithmetic *)

\* Both initial windows are well formed.
LEMMA ForRttOk == \A rtt \in RttClasses : WindowOk(ForRtt(rtt))
  BY DEF RttClasses, WindowOk, ForRtt, WindowType, WINDOW_INITIAL, WINDOW_MIN, MAX_SLOW,
         FLEXIBILITY, MAX_FAST, MIN_LIMIT_FAST, ROUNDS_CAP, FAST_RATE_THRESHOLD

\* A promotion keeps a window well formed: it only happens below the new max.
LEMMA PromotedOk ==
  ASSUME NEW w, WindowOk(w), NEW rounds,
         NEW newMax \in 1..MAX_FAST, NEW newMin \in 1..MIN_LIMIT_FAST, newMin <= newMax
  PROVE  WindowOk(Promoted(w, rounds, newMax, newMin))
<1>1. CASE w.max < newMax /\ rounds = FAST_RATE_THRESHOLD
  <2> DEFINE p == [w EXCEPT !.max = newMax, !.min = newMin]
  <2>1. p \in WindowType
    BY Zenon DEF WindowOk, WindowType
  <2>2. p.size = w.size /\ p.max = newMax /\ p.min = newMin
    BY DEF WindowOk, WindowType
  <2>3. w.size \in Nat /\ w.max \in Nat /\ w.size <= w.max
    BY DEF WindowOk, WindowType
  <2>4. newMax \in Nat /\ w.max < newMax
    BY <1>1
  <2>5. p.size <= p.max /\ p.min <= p.max
    BY <2>2, <2>3, <2>4
  <2>6. Promoted(w, rounds, newMax, newMin) = p
    BY <1>1 DEF Promoted
  <2> QED
    BY <2>1, <2>5, <2>6 DEF WindowOk
<1>2. CASE ~(w.max < newMax /\ rounds = FAST_RATE_THRESHOLD)
  BY <1>2 DEF Promoted
<1> QED
  BY <1>1, <1>2

\* Counting the rounds does not touch the sizes.
LEMMA CountedOk ==
  ASSUME NEW w, WindowOk(w), NEW f \in 0..ROUNDS_CAP, NEW m \in 0..ROUNDS_CAP
  PROVE  WindowOk([w EXCEPT !.fast = f, !.medium = m])
<1> DEFINE c == [w EXCEPT !.fast = f, !.medium = m]
<1>1. c \in WindowType
  BY Zenon DEF WindowOk, WindowType
<1>2. c.size = w.size /\ c.max = w.max /\ c.min = w.min
  BY DEF WindowOk, WindowType
<1> QED
  BY <1>1, <1>2 DEF WindowOk

\* grow_on_ack keeps a window well formed: it adds one only below max, and a
\* promotion raises max to at least the new min.
LEMMA GrowOnAckOk ==
  ASSUME NEW w, WindowOk(w), NEW rtt \in RttClasses
  PROVE  WindowOk(GrowOnAck(w, rtt))
<1> DEFINE grown == IF w.size < w.max THEN [w EXCEPT !.size = @ + 1] ELSE w
<1>1. WindowOk(grown) /\ grown.max = w.max /\ grown.min = w.min
  BY DEF WindowOk, WindowType, MAX_FAST, MIN_LIMIT_FAST, FLEXIBILITY, ROUNDS_CAP,
         FAST_RATE_THRESHOLD
<1>2. \A rounds \in 0..ROUNDS_CAP : NextRound(rounds) \in 0..ROUNDS_CAP
  BY DEF NextRound, ROUNDS_CAP, FAST_RATE_THRESHOLD
<1>3. w.fast \in 0..ROUNDS_CAP /\ w.medium \in 0..ROUNDS_CAP /\ 0 \in 0..ROUNDS_CAP
  BY DEF WindowOk, WindowType, ROUNDS_CAP, FAST_RATE_THRESHOLD
<1>4. CASE rtt = "fast"
  <2> DEFINE rounds == NextRound(w.fast)
             counted == [grown EXCEPT !.fast = rounds]
  <2>1. rounds \in 0..ROUNDS_CAP
    BY <1>2, <1>3
  <2>2. WindowOk(counted)
    BY <1>1, <2>1 DEF WindowOk, WindowType
  <2> HIDE DEF grown, rounds, counted
  <2>3. WindowOk(Promoted(counted, rounds, MAX_FAST, MIN_LIMIT_FAST))
    BY <2>2, PromotedOk DEF MAX_FAST, MIN_LIMIT_FAST
  <2> QED
    BY <1>4, <2>3 DEF GrowOnAck, grown, rounds, counted
<1>5. CASE rtt = "medium"
  <2> DEFINE rounds == NextRound(w.medium)
             counted == [grown EXCEPT !.fast = 0, !.medium = rounds]
  <2>1. rounds \in 0..ROUNDS_CAP
    BY <1>2, <1>3
  <2>2. WindowOk(counted)
    BY <1>1, <2>1, <1>3, CountedOk
  <2> HIDE DEF grown, rounds, counted
  <2>3. WindowOk(Promoted(counted, rounds, MAX_MEDIUM, MIN_LIMIT_MEDIUM))
    BY <2>2, PromotedOk DEF MAX_FAST, MAX_MEDIUM, MIN_LIMIT_FAST, MIN_LIMIT_MEDIUM
  <2> QED
    BY <1>5, <2>3 DEF GrowOnAck, grown, rounds, counted
<1>6. CASE rtt \notin {"fast", "medium"}
  <2>1. WindowOk([grown EXCEPT !.fast = 0, !.medium = 0])
    BY <1>1, <1>3, CountedOk
  <2> QED
    BY <1>6, <2>1 DEF GrowOnAck
<1> QED
  BY <1>4, <1>5, <1>6

\* shrink_on_loss keeps a window well formed: it stops at min, and lowers max
\* only while max is above min + flexibility.
LEMMA ShrinkOnLossOk ==
  ASSUME NEW w, WindowOk(w)
  PROVE  WindowOk(ShrinkOnLoss(w))
<1> DEFINE newMax == IF w.max > w.min + w.flexibility THEN w.max - 1 ELSE w.max
           s == [w EXCEPT !.size = w.size - 1, !.max = newMax]
<1>1. /\ w \in WindowType
      /\ w.size \in 1..MAX_FAST /\ w.max \in 1..MAX_FAST
      /\ w.min \in 1..MIN_LIMIT_FAST /\ w.flexibility \in 1..FLEXIBILITY
      /\ w.size <= w.max /\ w.min <= w.max
  BY DEF WindowOk, WindowType
<1>2. CASE w.size > w.min
  <2>1. /\ w.size - 1 \in 1..MAX_FAST /\ newMax \in 1..MAX_FAST
        /\ w.size - 1 <= newMax /\ w.min <= newMax
    BY <1>1, <1>2 DEF MAX_FAST, MIN_LIMIT_FAST, FLEXIBILITY
  <2> HIDE DEF newMax
  <2>2. s \in WindowType
    BY <1>1, <2>1, Zenon DEF WindowType
  <2>3. s.size = w.size - 1 /\ s.max = newMax /\ s.min = w.min
    BY <1>1 DEF WindowType
  <2>4. ShrinkOnLoss(w) = s
    BY <1>1, <1>2 DEF ShrinkOnLoss, newMax
  <2> QED
    BY <2>1, <2>2, <2>3, <2>4 DEF WindowOk
<1>3. CASE ~(w.size > w.min)
  BY <1>3 DEF ShrinkOnLoss
<1> QED
  BY <1>2, <1>3
-----------------------------------------------------------------------------
(* Type correctness *)

\* What one drain of the reorder buffer takes out is a sequence of messages.
LEMMA DrainType ==
  ASSUME buffered \subseteq Messages, NEW k \in Nat, ContiguousRun(k)
  PROVE  /\ [j \in 1..k |-> CHOOSE b \in buffered : seqOf[b] = (nextRx + j) % SeqModulus]
              \in [1..k -> buffered]
         /\ \A j \in 1..k :
              seqOf[CHOOSE b \in buffered : seqOf[b] = (nextRx + j) % SeqModulus]
                = (nextRx + j) % SeqModulus
<1> DEFINE Picked(j) == CHOOSE b \in buffered : seqOf[b] = (nextRx + j) % SeqModulus
<1>1. ASSUME NEW j \in 1..k
      PROVE  Picked(j) \in buffered /\ seqOf[Picked(j)] = (nextRx + j) % SeqModulus
  <2>1. \E b \in buffered : seqOf[b] = (nextRx + j) % SeqModulus
    BY DEF ContiguousRun, BufferedAt
  <2> QED
    BY <2>1
<1> QED
  BY <1>1

\* Appending a settlement to some of the messages keeps the type.
LEMMA SettleType ==
  ASSUME settlements \in [Messages -> Seq(Settlements)], NEW ms,
         NEW how \in Settlements, SettleSends(ms, how)
  PROVE  settlements' \in [Messages -> Seq(Settlements)]
  BY DEF SettleSends

\* A channel that `ensure` has just created is well typed.
LEMMA InitType == Init => TypeOK
<1> SUFFICES ASSUME Init PROVE TypeOK
  OBVIOUS
<1>1. WindowOk(window)
  BY ForRttOk DEF Init, DefaultWindow, RttClasses
<1> QED
  BY <1>1, ChannelConstants DEF Init, TypeOK, Sequences16, Messages

\* Every step of either end or of the network keeps the types, action by action.
LEMMA NextType == TypeOK /\ [Next]_vars => TypeOK'
<1> SUFFICES ASSUME TypeOK, [Next]_vars PROVE TypeOK'
  OBVIOUS
<1> USE ChannelConstants
<1>w. WindowOk(WriteWindow)
  BY ForRttOk DEF TypeOK, WriteWindow
<1>m. \A i \in Nat : i % SeqModulus \in Sequences16
  BY DEF Sequences16
<1>n. nextTx \in Nat /\ nextRx \in Nat
  BY DEF TypeOK, Sequences16
<1>1. CASE SendToChannel
  <2>1. written + 1 \in Messages
    BY <1>1 DEF SendToChannel, TypeOK, Messages
  <2>2. nextTx' \in Sequences16
    BY <1>1, <1>m, <1>n DEF SendToChannel, NextSequence
  <2>3. WindowOk(window') /\ written' \in 0..MaxMessages
    BY <1>1, <1>w DEF SendToChannel, TypeOK
  <2>4. /\ seqOf' \in [Messages -> Sequences16]
        /\ tries' \in [Messages -> 0..MaxTries]
        /\ outstanding' \subseteq Messages /\ dataNet' \subseteq Messages
    BY <1>1, <2>1 DEF SendToChannel, TypeOK
  <2> QED
    BY <1>1, <2>2, <2>3, <2>4 DEF SendToChannel, TypeOK, rxVars
<1>2. CASE SendToChannelWriteFails
  BY <1>2, <1>w DEF SendToChannelWriteFails, TypeOK, rxVars
<1>3. CASE TxRetireLink
  BY <1>3, SettleType, Zenon DEF TxRetireLink, TypeOK, rxVars, Settlements
<1>4. CASE RxRetireLink
  <2>1. nextRx' \in Sequences16
    BY <1>4, <1>m DEF RxRetireLink, Sequences16
  <2> QED
    BY <1>4, <2>1, Zenon DEF RxRetireLink, TypeOK, txVars
<1>5. ASSUME NEW n \in Messages, AckArrives(n) PROVE TypeOK'
  BY <1>5 DEF AckArrives, TypeOK, txVars, rxVars
<1>6. ASSUME NEW n \in Messages, NEW valid \in BOOLEAN, AckVerified(n, valid) PROVE TypeOK'
  <2>1. WindowOk(window') /\ settlements' \in [Messages -> Seq(Settlements)]
    BY <1>6, GrowOnAckOk, SettleType DEF AckVerified, TypeOK, Settlements
  <2> QED
    BY <1>6, <2>1 DEF AckVerified, TypeOK, rxVars
<1>7. ASSUME NEW n \in Messages, NEW eligible \in BOOLEAN, TimeoutRetry(n, eligible)
      PROVE  TypeOK'
  <2>1. WindowOk(window')
    BY <1>7, ShrinkOnLossOk DEF TimeoutRetry, TypeOK
  <2>2. tries' \in [Messages -> 0..MaxTries]
    BY <1>7 DEF TimeoutRetry, TypeOK
  <2> QED
    BY <1>7, <2>1, <2>2 DEF TimeoutRetry, TypeOK, rxVars
<1>8. ASSUME NEW n \in Messages, TimeoutExhausted(n) PROVE TypeOK'
  BY <1>8, SettleType, Zenon DEF TimeoutExhausted, TypeOK, rxVars, Settlements
<1>9. ASSUME NEW n \in Messages, ReceiveInOrder(n) PROVE TypeOK'
  <2>1. PICK k \in 0..Cardinality(buffered) :
          /\ ContiguousRun(k)
          /\ LET run == [j \in 1..k |-> CHOOSE b \in buffered :
                                           seqOf[b] = (nextRx + j) % SeqModulus]
             IN  /\ delivered' = Append(delivered, n) \o run
                 /\ buffered' = buffered \ {run[j] : j \in 1..k}
          /\ nextRx' = (nextRx + 1 + k) % SeqModulus
    BY <1>9 DEF ReceiveInOrder
  <2>2. k \in Nat
    OBVIOUS
  <2> DEFINE run == [j \in 1..k |-> CHOOSE b \in buffered :
                                       seqOf[b] = (nextRx + j) % SeqModulus]
  <2>3. run \in [1..k -> buffered]
    BY <2>1, <2>2, DrainType DEF TypeOK
  <2>4. delivered' = Append(delivered, n) \o run /\ buffered' \subseteq buffered
    BY <2>1
  <2> HIDE DEF run
  <2>5. run \in Seq(Messages)
    BY <2>2, <2>3 DEF TypeOK
  <2>6. delivered' \in Seq(Messages)
    BY <2>4, <2>5 DEF TypeOK
  <2>7. nextRx' \in Sequences16
    <3>1. nextRx + 1 + k \in Nat
      BY <2>2, <1>n
    <3> QED
      BY <2>1, <3>1, <1>m
  <2> QED
    BY <1>9, <2>4, <2>6, <2>7, Zenon DEF ReceiveInOrder, TypeOK, txVars
<1>10. ASSUME NEW n \in Messages, ReceiveAhead(n) PROVE TypeOK'
  BY <1>10 DEF ReceiveAhead, TypeOK, txVars
<1>11. ASSUME NEW n \in Messages, ReceiveRepeated(n) PROVE TypeOK'
  BY <1>11 DEF ReceiveRepeated, TypeOK, txVars, rxVars
<1>12. ASSUME NEW n \in Messages, AckSigned(n) PROVE TypeOK'
  BY <1>12 DEF AckSigned, TypeOK, txVars, rxVars
<1>13. ASSUME NEW n \in Messages, LoseData(n) \/ LoseAck(n) PROVE TypeOK'
  BY <1>13 DEF LoseData, LoseAck, TypeOK, txVars, rxVars
<1>14. CASE UNCHANGED vars
  BY <1>14 DEF TypeOK, vars, txVars, rxVars
<1> QED
  BY <1>1, <1>2, <1>3, <1>4, <1>5, <1>6, <1>7, <1>8, <1>9, <1>10, <1>11, <1>12, <1>13, <1>14
     DEF Next, TimeoutFires

\* Type correctness of the channel, whatever the sizes of the sequence space,
\* the windows and the buffers: in particular no proof, retry or promotion ever
\* makes the send window exceed its maximum or the retry count its limit.
THEOREM TypeCorrect == Spec => []TypeOK
  BY InitType, NextType, PTL DEF Spec
-----------------------------------------------------------------------------
(* Settlements *)

\* The strengthening that makes SettledExactlyOnce inductive: only written
\* messages are outstanding.
SettleInv ==
    /\ \A n \in outstanding : n <= written
    /\ SettledExactlyOnce
    /\ NoOrphanedSend

\* Settling a set of outstanding messages adds one settlement to each of them.
LEMMA SettleLen ==
  ASSUME settlements \in [Messages -> Seq(Settlements)], NEW ms,
         NEW how \in Settlements, SettleSends(ms, how), NEW n \in Messages
  PROVE  Len(settlements'[n]) = IF n \in ms THEN Len(settlements[n]) + 1 ELSE Len(settlements[n])
  BY DEF SettleSends

\* Every step keeps the settlement invariant: the teardowns settle the whole ring,
\* a verdict settles one send and retires it, and nothing else touches either.
LEMMA NextSettle == TypeOK /\ SettleInv /\ [Next]_vars => SettleInv'
<1> SUFFICES ASSUME TypeOK, SettleInv, [Next]_vars PROVE SettleInv'
  OBVIOUS
<1> USE ChannelConstants
<1>0. ASSUME UNCHANGED <<outstanding, written, settlements, txActive>> PROVE SettleInv'
  BY <1>0 DEF SettleInv, SettledExactlyOnce, NoOrphanedSend
<1>t. ASSUME NEW how \in Settlements, SettleSends(outstanding, how), outstanding' = {},
             written' = written
      PROVE  SettleInv'
  <2>1. ASSUME NEW n \in Messages
        PROVE  Len(settlements'[n]) = IF n <= written THEN 1 ELSE 0
    <3>1. Len(settlements'[n]) = IF n \in outstanding THEN Len(settlements[n]) + 1
                                  ELSE Len(settlements[n])
      BY <1>t, SettleLen DEF TypeOK
    <3>2. Len(settlements[n]) = IF n <= written /\ n \notin outstanding THEN 1 ELSE 0
      BY DEF SettleInv, SettledExactlyOnce
    <3>3. n \in outstanding => n <= written
      BY DEF SettleInv
    <3> QED
      BY <3>1, <3>2, <3>3
  <2> QED
    BY <1>t, <2>1 DEF SettleInv, SettledExactlyOnce, NoOrphanedSend
<1>1. CASE SendToChannel
  <2>1. written + 1 \in Messages /\ written \in Nat
    BY <1>1 DEF SendToChannel, TypeOK, Messages
  <2>2. /\ written' = written + 1 /\ outstanding' = outstanding \cup {written + 1}
        /\ UNCHANGED <<settlements, txActive>> /\ txActive
    BY <1>1 DEF SendToChannel
  <2>3. ASSUME NEW n \in Messages
        PROVE  Len(settlements'[n]) = IF n <= written' /\ n \notin outstanding' THEN 1 ELSE 0
    <3>1. n \in Nat /\ (n <= written' /\ n \notin outstanding'
                          <=> n <= written /\ n \notin outstanding)
      BY <2>1, <2>2 DEF Messages
    <3>2. Len(settlements[n]) = IF n <= written /\ n \notin outstanding THEN 1 ELSE 0
      BY DEF SettleInv, SettledExactlyOnce
    <3> QED
      BY <2>2, <3>1, <3>2
  <2>4. \A n \in outstanding' : n <= written'
    BY <2>1, <2>2 DEF SettleInv, TypeOK, Messages
  <2> QED
    BY <2>2, <2>3, <2>4 DEF SettleInv, SettledExactlyOnce, NoOrphanedSend
<1>2. CASE SendToChannelWriteFails
  BY <1>0, <1>2 DEF SendToChannelWriteFails
<1>3. CASE TxRetireLink
  BY <1>3, <1>t DEF TxRetireLink, Settlements
<1>4. CASE RxRetireLink
  BY <1>0, <1>4 DEF RxRetireLink, txVars
<1>5. ASSUME NEW n \in Messages, AckArrives(n) PROVE SettleInv'
  BY <1>0, <1>5 DEF AckArrives, txVars
<1>6. ASSUME NEW n \in Messages, NEW valid \in BOOLEAN, AckVerified(n, valid)
      PROVE  SettleInv'
  <2>1. CASE valid /\ txActive /\ n \in outstanding
    <3>1. /\ outstanding' = outstanding \ {n} /\ SettleSends({n}, "delivered")
          /\ written' = written /\ txActive' = txActive
      BY <1>6, <2>1 DEF AckVerified
    <3>2. \A m \in Messages : Len(settlements'[m]) = IF m \in {n} THEN Len(settlements[m]) + 1
                                                       ELSE Len(settlements[m])
      BY <3>1, SettleLen DEF TypeOK, Settlements
    <3>3. ASSUME NEW m \in Messages
          PROVE  Len(settlements'[m]) = IF m <= written /\ m \notin outstanding' THEN 1 ELSE 0
      <4>1. Len(settlements[m]) = IF m <= written /\ m \notin outstanding THEN 1 ELSE 0
        BY DEF SettleInv, SettledExactlyOnce
      <4>2. m \in outstanding => m <= written
        BY DEF SettleInv
      <4> QED
        BY <2>1, <3>1, <3>2, <4>1, <4>2
    <3> QED
      BY <2>1, <3>1, <3>3 DEF SettleInv, SettledExactlyOnce, NoOrphanedSend
  <2>2. CASE ~(valid /\ txActive /\ n \in outstanding)
    BY <1>0, <1>6, <2>2 DEF AckVerified
  <2> QED
    BY <2>1, <2>2
<1>7. ASSUME NEW n \in Messages, NEW eligible \in BOOLEAN, TimeoutRetry(n, eligible)
      PROVE  SettleInv'
  BY <1>0, <1>7 DEF TimeoutRetry
<1>8. ASSUME NEW n \in Messages, TimeoutExhausted(n) PROVE SettleInv'
  BY <1>8, <1>t DEF TimeoutExhausted, Settlements
<1>9. ASSUME NEW n \in Messages,
             ReceiveInOrder(n) \/ ReceiveAhead(n) \/ ReceiveRepeated(n) \/ AckSigned(n)
               \/ LoseData(n) \/ LoseAck(n)
      PROVE  SettleInv'
  BY <1>0, <1>9 DEF ReceiveInOrder, ReceiveAhead, ReceiveRepeated, AckSigned, LoseData,
                    LoseAck, txVars
<1>10. CASE UNCHANGED vars
  BY <1>0, <1>10 DEF vars, txVars
<1> QED
  BY <1>1, <1>2, <1>3, <1>4, <1>5, <1>6, <1>7, <1>8, <1>9, <1>10 DEF Next, TimeoutFires

\* Every command settles exactly once, when its message leaves the ring of
\* outstanding sends: a proof whose verification completes late, after a timeout
\* or a teardown has settled the send, changes nothing
\* (resume_channel_ack_verify), and a torn-down link settles all that is left.
THEOREM SettlesOnce == Spec => []SettledExactlyOnce
<1>1. Init => SettleInv
  BY ChannelConstants DEF Init, SettleInv, SettledExactlyOnce, NoOrphanedSend, Messages
<1>2. SettleInv => SettledExactlyOnce
  BY DEF SettleInv
<1> QED
  BY <1>1, <1>2, TypeCorrect, NextSettle, PTL DEF Spec

\* No send outlives its link in the channel table (classify_due_send's
\* OrphanedByLink verdict is unreachable): every teardown empties the ring.
THEOREM NeverOrphaned == Spec => []NoOrphanedSend
<1>1. Init => SettleInv
  BY ChannelConstants DEF Init, SettleInv, SettledExactlyOnce, NoOrphanedSend, Messages
<1>2. SettleInv => NoOrphanedSend
  BY DEF SettleInv
<1> QED
  BY <1>1, <1>2, TypeCorrect, NextSettle, PTL DEF Spec
-----------------------------------------------------------------------------
(* Order *)

\* The sequence space is not used up: no stale packet can look like a new one.
\* With the code's 16-bit sequences and window of 48 this holds for the first
\* 65487 messages of a link.
NoWrap == MaxMessages + RxWindow < SeqModulus

\* While the sequence space lasts, the n-th message carries sequence n - 1, the
\* receiver expects the successor of what it delivered, and what it buffers lies
\* strictly beyond that.
OrderInv ==
    /\ nextTx = written
    /\ \A n \in 1..written : seqOf[n] = n - 1
    /\ dataNet \subseteq 1..written
    /\ buffered \subseteq 1..written
    /\ Len(delivered) <= written
    /\ InOrder
    /\ rxActive => nextRx = Len(delivered) /\ \A b \in buffered : b > nextRx + 1
    /\ ~rxActive => buffered = {}

\* Sequences that have not wrapped are plain numbers.
LEMMA ModSmall == \A a \in Nat, m \in Nat : a < m => a % m = a
  OBVIOUS

\* The end of the sequence space is sequence zero.
LEMMA ModSelf == \A m \in Nat : m > 0 => m % m = 0
  OBVIOUS

\* The drain, while the sequence space lasts: the k messages it takes are exactly
\* the ones that follow message nextRx + 1, all of them written, and nothing
\* buffered is left in reach.
LEMMA DrainExact ==
  ASSUME NoWrap, TypeOK, OrderInv, rxActive, NEW k \in Nat, ContiguousRun(k)
  PROVE  /\ nextRx + k < SeqModulus
         /\ \A j \in 1..k :
              (CHOOSE b \in buffered : seqOf[b] = (nextRx + j) % SeqModulus) = nextRx + 1 + j
         /\ \A j \in 1..k : nextRx + 1 + j \in buffered
         /\ nextRx + 1 + k < SeqModulus => nextRx + 2 + k \notin buffered
<1> USE ChannelConstants
<1> DEFINE Picked(j) == CHOOSE b \in buffered : seqOf[b] = (nextRx + j) % SeqModulus
<1>0. /\ nextRx \in Nat /\ SeqModulus \in Nat /\ SeqModulus > 0 /\ written \in Nat
      /\ nextRx < SeqModulus /\ written < SeqModulus
  BY DEF TypeOK, Sequences16, NoWrap
<1>1. ASSUME NEW j \in 1..k
      PROVE  Picked(j) \in buffered /\ seqOf[Picked(j)] = (nextRx + j) % SeqModulus
  BY DrainType DEF TypeOK
<1>2. \A b \in buffered : b \in Nat /\ seqOf[b] = b - 1 /\ b > nextRx + 1
  BY <1>0 DEF OrderInv
<1>3. nextRx + k < SeqModulus
  <2> SUFFICES ASSUME nextRx + k >= SeqModulus PROVE FALSE
    BY <1>0
  <2>1. SeqModulus - nextRx \in 1..k
    BY <1>0
  <2>2. (nextRx + (SeqModulus - nextRx)) % SeqModulus = 0
    BY <1>0, ModSelf
  <2>3. Picked(SeqModulus - nextRx) \in buffered /\ seqOf[Picked(SeqModulus - nextRx)] = 0
    BY <1>1, <2>1, <2>2
  <2> HIDE DEF Picked
  <2> QED
    BY <1>0, <1>2, <2>3
<1>4. ASSUME NEW j \in 1..k PROVE Picked(j) = nextRx + 1 + j
  <2>1. (nextRx + j) % SeqModulus = nextRx + j
    BY <1>0, <1>3, ModSmall
  <2>2. Picked(j) \in buffered /\ seqOf[Picked(j)] = nextRx + j
    BY <1>1, <2>1
  <2> HIDE DEF Picked
  <2> QED
    BY <1>0, <1>2, <2>2
<1>5. ASSUME nextRx + 1 + k < SeqModulus PROVE nextRx + 2 + k \notin buffered
  <2>1. (nextRx + k + 1) % SeqModulus = nextRx + k + 1
    BY <1>0, <1>5, ModSmall
  <2>2. BufferedAt(nextRx + k + 1) = {}
    BY <2>1 DEF ContiguousRun
  <2> QED
    BY <1>0, <1>2, <2>2 DEF BufferedAt
<1> QED
  BY <1>1, <1>3, <1>4, <1>5

\* Counting on from a sequence's length, one element and then k more, is
\* counting on by 1 + k elements.
LEMMA ConcatCount ==
  ASSUME NEW d \in Seq(Nat), NEW k \in Nat
  PROVE  Append(d, Len(d) + 1) \o [j \in 1..k |-> Len(d) + 1 + j]
           = d \o [j \in 1..(1 + k) |-> Len(d) + j]
<1> DEFINE L == Len(d)
           a == Append(d, L + 1)
           run == [j \in 1..k |-> L + 1 + j]
           out == [j \in 1..(1 + k) |-> L + j]
<1>1. L \in Nat
  OBVIOUS
<1>2. /\ a \in Seq(Nat) /\ Len(a) = L + 1
      /\ \A i \in 1..L : a[i] = d[i]
      /\ a[L + 1] = L + 1
  BY <1>1
<1>3. run \in Seq(Nat) /\ Len(run) = k /\ \A i \in 1..k : run[i] = L + 1 + i
  BY <1>1
<1>4. out \in Seq(Nat) /\ Len(out) = 1 + k /\ \A i \in 1..(1 + k) : out[i] = L + i
  BY <1>1
<1> HIDE DEF a, run, out
<1> DEFINE x == a \o run
           y == d \o out
<1>5. x \in Seq(Nat) /\ Len(x) = L + 1 + k
  <2>1. a \in Seq(Nat) /\ run \in Seq(Nat)
    BY <1>2, <1>3
  <2>2. x \in Seq(Nat) /\ Len(x) = Len(a) + Len(run)
    BY <2>1, ConcatProperties
  <2> QED
    BY <1>2, <1>3, <2>2
<1>6. y \in Seq(Nat) /\ Len(y) = L + 1 + k
  BY <1>1, <1>4
<1>7. ASSUME NEW i \in 1..(L + 1 + k) PROVE x[i] = y[i]
  <2>1. CASE i <= L
    <3>1. i \in 1..Len(a) /\ i \in 1..Len(d)
      BY <1>1, <1>2, <2>1
    <3>2. x[i] = a[i] /\ y[i] = d[i]
      BY <1>2, <1>3, <1>4, <3>1
    <3> QED
      BY <1>2, <3>1, <3>2
  <2>2. CASE i = L + 1
    <3>1. x[i] = a[L + 1]
      BY <1>1, <1>2, <1>3, <2>2
    <3>2. y[i] = out[1]
      BY <1>1, <1>4, <2>2
    <3>3. out[1] = L + 1
      BY <1>1, <1>4
    <3> QED
      BY <1>2, <3>1, <3>2, <3>3
  <2>3. CASE i > L + 1
    <3>1. x[i] = run[i - (L + 1)] /\ i - (L + 1) \in 1..k
      BY <1>1, <1>2, <1>3, <2>3
    <3>2. y[i] = out[i - L] /\ i - L \in 1..(1 + k)
      BY <1>1, <1>4, <2>3
    <3>3. run[i - (L + 1)] = L + 1 + (i - (L + 1)) /\ out[i - L] = L + (i - L)
      BY <1>3, <1>4, <3>1, <3>2, Zenon
    <3> QED
      BY <1>1, <3>1, <3>2, <3>3
  <2>4. i <= L \/ i = L + 1 \/ i > L + 1
    BY <1>1
  <2> QED
    BY <2>1, <2>2, <2>3, <2>4, Zenon
<1> HIDE DEF x, y
<1>8. Len(x) = Len(y) /\ \A i \in 1..Len(x) : x[i] = y[i]
  BY <1>5, <1>6, <1>7
<1>9. x = y
  BY <1>5, <1>6, <1>8, SeqEqual
<1> QED
  BY <1>9 DEF x, y, a, run, out

\* An in-order arrival delivers the next few written messages, and nothing else:
\* the step of the receiver on which both the order and the refinement rest.
LEMMA InOrderStep ==
  ASSUME NoWrap, TypeOK, OrderInv, NEW n \in Messages, ReceiveInOrder(n)
  PROVE  \E k \in Nat :
           /\ Len(delivered) + 1 + k <= written
           /\ delivered' = delivered \o [j \in 1..(1 + k) |-> Len(delivered) + j]
           /\ nextRx' = Len(delivered) + 1 + k
           /\ buffered' \subseteq buffered
           /\ \A b \in buffered' : b > nextRx' + 1
           /\ \A b \in buffered \ buffered' : b <= nextRx'
<1> USE ChannelConstants
<1>1. PICK k \in 0..Cardinality(buffered) :
        /\ ContiguousRun(k)
        /\ LET run == [j \in 1..k |-> CHOOSE b \in buffered :
                                         seqOf[b] = (nextRx + j) % SeqModulus]
           IN  /\ delivered' = Append(delivered, n) \o run
               /\ buffered' = buffered \ {run[j] : j \in 1..k}
        /\ nextRx' = (nextRx + 1 + k) % SeqModulus
  BY Zenon DEF ReceiveInOrder
<1> DEFINE L == Len(delivered)
           run == [j \in 1..k |-> nextRx + 1 + j]
           picked == [j \in 1..k |-> CHOOSE b \in buffered :
                                        seqOf[b] = (nextRx + j) % SeqModulus]
<1>2. k \in Nat /\ rxActive /\ n \in dataNet /\ seqOf[n] = nextRx
  BY DEF ReceiveInOrder
<1>3. /\ nextRx = L /\ L \in Nat /\ written \in Nat /\ n \in Nat
      /\ n <= written /\ seqOf[n] = n - 1
      /\ delivered \in Seq(Messages) /\ L <= written /\ written < SeqModulus
      /\ \A b \in buffered : b \in Nat /\ b <= written /\ b > nextRx + 1
  <2> HIDE DEF run, picked
  <2>1. /\ written \in Nat /\ n \in Nat /\ L \in Nat /\ delivered \in Seq(Messages)
        /\ buffered \subseteq Messages
    BY DEF TypeOK, Messages
  <2>2. nextRx = L /\ n <= written /\ seqOf[n] = n - 1 /\ L <= written
    BY <1>2 DEF OrderInv
  <2>3. written < SeqModulus
    BY <2>1 DEF TypeOK, NoWrap
  <2>4. \A b \in buffered : b <= written /\ b > nextRx + 1
    BY DEF OrderInv
  <2>5. \A b \in buffered : b \in Nat
    BY <2>1 DEF Messages
  <2> QED
    BY <2>1, <2>2, <2>3, <2>4, <2>5
<1>4. n = L + 1
  BY <1>2, <1>3
<1>5. /\ \A j \in 1..k : nextRx + 1 + j \in buffered
      /\ nextRx + 1 + k < SeqModulus => nextRx + 2 + k \notin buffered
      /\ picked = run
  BY <1>1, <1>2, DrainExact
<1>6. delivered' = Append(delivered, n) \o run /\ buffered' = buffered \ {run[j] : j \in 1..k}
  <2>1. /\ delivered' = Append(delivered, n) \o picked
        /\ buffered' = buffered \ {picked[j] : j \in 1..k}
    BY <1>1
  <2> HIDE DEF picked, run
  <2> QED
    BY <1>5, <2>1
<1>7. L + 1 + k <= written
  <2>1. CASE k = 0
    BY <1>2, <1>3, <1>4, <2>1
  <2>2. CASE k # 0
    <3>1. k \in 1..k
      BY <1>2, <2>2
    <3>2. nextRx + 1 + k \in buffered
      BY <1>5, <3>1
    <3> QED
      BY <1>3, <3>2
  <2> QED
    BY <2>1, <2>2
<1>8. nextRx' = L + 1 + k
  <2>1. nextRx + 1 + k \in Nat /\ nextRx + 1 + k < SeqModulus
    BY <1>2, <1>3, <1>7
  <2>2. (nextRx + 1 + k) % SeqModulus = nextRx + 1 + k
    BY <2>1, ModSmall
  <2> QED
    BY <1>1, <1>3, <2>2
<1>9. \A b \in buffered' : b > nextRx' + 1
  <2> SUFFICES ASSUME NEW b \in buffered' PROVE b > nextRx' + 1
    OBVIOUS
  <2>1. b \in buffered /\ b \in Nat /\ b > L + 1 /\ \A j \in 1..k : b # L + 1 + j
    BY <1>3, <1>6
  <2>2. b # L + 2 + k
    BY <1>2, <1>3, <1>5, <1>7, <2>1
  <2>3. ~(b <= L + 1 + k)
    <3> SUFFICES ASSUME b <= L + 1 + k PROVE FALSE
      OBVIOUS
    <3>1. b - L - 1 \in 1..k /\ b = L + 1 + (b - L - 1)
      BY <1>2, <1>3, <2>1
    <3> QED
      BY <2>1, <3>1, Zenon
  <2> QED
    BY <1>2, <1>3, <1>8, <2>1, <2>2, <2>3
<1>10. delivered' = delivered \o [j \in 1..(1 + k) |-> L + j]
  <2>1. delivered \in Seq(Nat)
    BY <1>3 DEF Messages
  <2>2. delivered' = Append(delivered, L + 1) \o [j \in 1..k |-> L + 1 + j]
    BY <1>3, <1>4, <1>6
  <2> QED
    BY <1>2, <2>1, <2>2, ConcatCount, Zenon
<1>11. \A b \in buffered \ buffered' : b <= nextRx'
  BY <1>2, <1>3, <1>6, <1>8
<1> QED
  BY <1>2, <1>6, <1>7, <1>8, <1>9, <1>10, <1>11, Zenon

\* A new channel has written and delivered nothing, in order.
LEMMA InitOrder == Init => OrderInv
  BY ChannelConstants DEF Init, OrderInv, InOrder

\* Every step keeps the order invariant, while the sequence space lasts: only
\* ReceiveInOrder delivers (InOrderStep), and only ReceiveAhead buffers.
LEMMA NextOrder == NoWrap /\ TypeOK /\ SettleInv /\ OrderInv /\ [Next]_vars => OrderInv'
<1> SUFFICES ASSUME NoWrap, TypeOK, SettleInv, OrderInv, [Next]_vars PROVE OrderInv'
  OBVIOUS
<1> USE ChannelConstants
<1>0. /\ written \in Nat /\ SeqModulus \in Nat /\ RxWindow \in Nat /\ MaxMessages \in Nat
      /\ written <= MaxMessages /\ MaxMessages + RxWindow < SeqModulus
      /\ delivered \in Seq(Messages) /\ Len(delivered) \in Nat
      /\ nextRx \in Nat /\ nextRx < SeqModulus
  BY DEF TypeOK, NoWrap, Sequences16
<1>u. ASSUME UNCHANGED <<nextTx, written, seqOf, delivered, rxActive, nextRx, buffered>>,
             dataNet' \subseteq 1..written
      PROVE  OrderInv'
  BY <1>u DEF OrderInv, InOrder
<1>1. CASE SendToChannel
  <2>1. /\ written < MaxMessages /\ written' = written + 1
        /\ seqOf' = [seqOf EXCEPT ![written + 1] = nextTx]
        /\ dataNet' = dataNet \cup {written + 1}
        /\ nextTx' = (nextTx + 1) % SeqModulus
        /\ UNCHANGED <<delivered, rxActive, nextRx, buffered>>
    BY <1>1 DEF SendToChannel, NextSequence, rxVars
  <2>2. nextTx' = written'
    <3>1. written + 1 \in Nat /\ written + 1 < SeqModulus
      BY <1>0, <2>1
    <3> QED
      BY <2>1, <3>1, ModSmall DEF OrderInv
  <2>3. \A n \in 1..written' : seqOf'[n] = n - 1
    <3> SUFFICES ASSUME NEW n \in 1..written' PROVE seqOf'[n] = n - 1
      OBVIOUS
    <3>1. n \in Messages /\ seqOf \in [Messages -> Sequences16] /\ (n = written + 1 \/ n \in 1..written)
      BY <1>0, <2>1 DEF Messages, TypeOK
    <3> QED
      BY <1>0, <2>1, <3>1 DEF OrderInv
  <2>4. dataNet' \subseteq 1..written' /\ buffered' \subseteq 1..written' /\ Len(delivered') <= written'
    BY <1>0, <2>1 DEF OrderInv
  <2> QED
    BY <2>1, <2>2, <2>3, <2>4, Zenon DEF OrderInv, InOrder
<1>2. CASE SendToChannelWriteFails \/ TxRetireLink
  BY <1>u, <1>2, Zenon DEF SendToChannelWriteFails, TxRetireLink, rxVars, OrderInv
<1>3. CASE RxRetireLink
  BY <1>3 DEF RxRetireLink, txVars, OrderInv, InOrder
<1>4. ASSUME NEW n \in Messages, AckArrives(n) \/ ReceiveRepeated(n) \/ AckSigned(n) \/ LoseAck(n)
      PROVE  OrderInv'
  BY <1>u, <1>4, Zenon DEF AckArrives, ReceiveRepeated, AckSigned, LoseAck, txVars, rxVars, OrderInv
<1>5. ASSUME NEW n \in Messages, LoseData(n) PROVE OrderInv'
  BY <1>u, <1>5 DEF LoseData, txVars, rxVars, OrderInv
<1>6. ASSUME NEW n \in Messages, NEW valid \in BOOLEAN, AckVerified(n, valid) PROVE OrderInv'
  BY <1>u, <1>6 DEF AckVerified, rxVars, OrderInv
<1>7. ASSUME NEW n \in Messages, TimeoutExhausted(n) PROVE OrderInv'
  BY <1>u, <1>7 DEF TimeoutExhausted, rxVars, OrderInv
<1>r. ASSUME NEW n \in Messages, NEW eligible \in BOOLEAN, TimeoutRetry(n, eligible)
      PROVE  OrderInv'
  <2> SUFFICES dataNet' \subseteq 1..written
    BY <1>u, <1>r DEF TimeoutRetry, rxVars
  <2> QED
    BY <1>0, <1>r DEF TimeoutRetry, OrderInv, SettleInv, Messages
<1>8. ASSUME NEW n \in Messages, ReceiveInOrder(n) PROVE OrderInv'
  <2>1. PICK k \in Nat :
          /\ Len(delivered) + 1 + k <= written
          /\ delivered' = delivered \o [j \in 1..(1 + k) |-> Len(delivered) + j]
          /\ nextRx' = Len(delivered) + 1 + k
          /\ buffered' \subseteq buffered
          /\ \A b \in buffered' : b > nextRx' + 1
    BY <1>8, InOrderStep, Zenon
  <2>2. UNCHANGED <<nextTx, written, seqOf, dataNet, rxActive>> /\ rxActive
    BY <1>8 DEF ReceiveInOrder, txVars
  <2>3. Len(delivered') = Len(delivered) + 1 + k /\ \A i \in 1..Len(delivered') : delivered'[i] = i
    <3> DEFINE out == [j \in 1..(1 + k) |-> Len(delivered) + j]
    <3>1. out \in Seq(Nat) /\ Len(out) = 1 + k /\ \A j \in 1..(1 + k) : out[j] = Len(delivered) + j
      BY <1>0
    <3>2. delivered \in Seq(Nat) /\ \A i \in 1..Len(delivered) : delivered[i] = i
      BY <1>0 DEF OrderInv, InOrder, Messages
    <3> HIDE DEF out
    <3>3. Len(delivered \o out) = Len(delivered) + (1 + k)
      BY <3>1, <3>2
    <3>4. ASSUME NEW i \in 1..(Len(delivered) + (1 + k)) PROVE (delivered \o out)[i] = i
      <4>1. CASE i <= Len(delivered)
        BY <1>0, <3>1, <3>2, <4>1
      <4>2. CASE i > Len(delivered)
        <5>1. (delivered \o out)[i] = out[i - Len(delivered)] /\ i - Len(delivered) \in 1..(1 + k)
          BY <1>0, <3>1, <3>2, <4>2
        <5> QED
          BY <1>0, <3>1, <5>1
      <4>3. i <= Len(delivered) \/ i > Len(delivered)
        BY <1>0
      <4> QED
        BY <4>1, <4>2, <4>3, Zenon
    <3>5. delivered' = delivered \o out
      BY <2>1 DEF out
    <3> QED
      BY <1>0, <3>3, <3>4, <3>5
  <2> QED
    BY <1>0, <2>1, <2>2, <2>3 DEF OrderInv, InOrder
<1>9. ASSUME NEW n \in Messages, ReceiveAhead(n) PROVE OrderInv'
  <2>1. /\ n \in dataNet /\ rxActive /\ seqOf[n] # nextRx
        /\ (seqOf[n] + SeqModulus - nextRx) % SeqModulus <= RxWindow
        /\ buffered' = buffered \cup {n}
        /\ UNCHANGED <<nextTx, written, seqOf, dataNet, rxActive, nextRx, delivered>>
    BY <1>9 DEF ReceiveAhead, WithinReceiveWindow, txVars
  <2>2. /\ n \in 1..written /\ seqOf[n] = n - 1 /\ nextRx = Len(delivered)
        /\ Len(delivered) <= written
    BY <2>1 DEF OrderInv
  <2>3. n > nextRx + 1
    <3>n. n \in Nat /\ nextRx \in Nat
      BY <1>0, <2>2
    <3>s. n - 1 # nextRx
      BY <2>1, <2>2, Zenon
    <3> SUFFICES ASSUME n <= nextRx PROVE FALSE
      BY <3>n, <3>s
    <3>1. /\ seqOf[n] + SeqModulus - nextRx \in Nat
          /\ seqOf[n] + SeqModulus - nextRx < SeqModulus
          /\ seqOf[n] + SeqModulus - nextRx > RxWindow
      BY <1>0, <2>2
    <3> QED
      BY <1>0, <2>1, <3>1, ModSmall
  <2> QED
    BY <2>1, <2>2, <2>3 DEF OrderInv, InOrder
<1>10. CASE UNCHANGED vars
  BY <1>u, <1>10 DEF vars, txVars, rxVars, OrderInv
<1> QED
  BY <1>1, <1>2, <1>3, <1>4, <1>5, <1>6, <1>7, <1>r, <1>8, <1>9, <1>10 DEF Next, TimeoutFires
\* While the sequence space lasts, the receiving application sees message 1, 2,
\* 3, ... without gap, repetition or swap, for all window and buffer sizes and
\* all losses, duplications, reorderings, retries and teardowns (receive).
THEOREM DeliversInOrder == NoWrap /\ Spec => []InOrder
<1>1. Init => SettleInv
  BY ChannelConstants DEF Init, SettleInv, SettledExactlyOnce, NoOrphanedSend, Messages
<1>2. OrderInv => InOrder
  BY DEF OrderInv
<1>3. NoWrap => NoWrap'
  BY DEF NoWrap
<1> QED
  BY <1>1, <1>2, <1>3, TypeCorrect, NextSettle, InitOrder, NextOrder, PTL DEF Spec

-----------------------------------------------------------------------------
(* The channel implements the ordered pipe *)

\* A step of the channel is a step of the pipe or leaves both of its ends alone:
\* SendToChannel accepts, ReceiveInOrder emits, everything else stutters.
LEMMA StepRefines ==
  NoWrap /\ TypeOK /\ OrderInv /\ [Next]_vars => [Pipe!PipeNext]_Pipe!pipeVars
<1> SUFFICES ASSUME NoWrap, TypeOK, OrderInv, [Next]_vars
             PROVE  Pipe!PipeNext \/ UNCHANGED <<written, delivered>>
  BY DEF Pipe!pipeVars
<1>1. CASE SendToChannel
  BY <1>1 DEF SendToChannel, rxVars, Pipe!PipeNext, Pipe!Accept
<1>2. ASSUME NEW n \in Messages, ReceiveInOrder(n) PROVE Pipe!Emit
  <2>1. PICK k \in Nat :
          /\ Len(delivered) + 1 + k <= written
          /\ delivered' = delivered \o [j \in 1..(1 + k) |-> Len(delivered) + j]
    BY <1>2, InOrderStep
  <2>2. written \in Nat /\ Len(delivered) \in Nat
    BY ChannelConstants DEF TypeOK
  <2>3. 1 + k \in 1..(written - Len(delivered))
    BY <2>1, <2>2
  <2>4. written' = written
    BY <1>2 DEF ReceiveInOrder, txVars
  <2> QED
    BY <2>1, <2>3, <2>4 DEF Pipe!Emit
<1>3. CASE SendToChannelWriteFails \/ TxRetireLink \/ RxRetireLink \/ UNCHANGED vars
  BY <1>3 DEF SendToChannelWriteFails, TxRetireLink, RxRetireLink, vars, txVars, rxVars
<1>4. ASSUME NEW n \in Messages,
             \/ AckArrives(n) \/ (\E valid \in BOOLEAN : AckVerified(n, valid))
             \/ TimeoutFires(n) \/ ReceiveAhead(n) \/ ReceiveRepeated(n)
             \/ AckSigned(n) \/ LoseData(n) \/ LoseAck(n)
      PROVE  UNCHANGED <<written, delivered>>
  BY <1>4, Zenon DEF AckArrives, AckVerified, TimeoutFires, TimeoutExhausted, TimeoutRetry,
              ReceiveAhead, ReceiveRepeated, AckSigned, LoseData, LoseAck, txVars, rxVars
<1> QED
  BY <1>1, <1>2, <1>3, <1>4 DEF Next, Pipe!PipeNext

\* While the sequence space lasts, the channel implements the ordered pipe: each
\* step of either end or of the network accepts a message, emits the next
\* accepted ones in order, or changes nothing the two users can see.
THEOREM RefinesPipe == NoWrap /\ Spec => ImplementsPipe
<1>1. Init => SettleInv
  BY ChannelConstants DEF Init, SettleInv, SettledExactlyOnce, NoOrphanedSend, Messages
<1>2. Init => Pipe!PipeInit
  BY DEF Init, Pipe!PipeInit
<1>3. NoWrap => NoWrap'
  BY DEF NoWrap
<1> QED
  BY <1>1, <1>2, <1>3, TypeCorrect, NextSettle, InitOrder, NextOrder, StepRefines, PTL
     DEF Spec, ImplementsPipe, Pipe!PipeSpec

-----------------------------------------------------------------------------
(* What a proof says *)

\* The sender has not run past what the receiver can still take in: the next
\* message it expects and a receive window beyond it.
NoOverrun == rxActive => written <= nextRx + 1 + RxWindow

\* What the receiver has handed over or holds.
Kept == 1..Len(delivered) \cup buffered

\* While the receiving end lives, a proof being signed, on the wire or being
\* verified is of a message that was kept, and so is every send that settled as
\* delivered.
ProofInv ==
    rxActive =>
      /\ signing \subseteq Kept /\ ackNet \subseteq Kept /\ verifying \subseteq Kept
      /\ \A n \in Messages : settlements[n] = <<"delivered">> => n \in Kept

\* A message's only settlement is "delivered" if it was before, or if that is what
\* it settles as now.
LEMMA SettledDelivered ==
  ASSUME settlements \in [Messages -> Seq(Settlements)], NEW ms, NEW how \in Settlements,
         SettleSends(ms, how), NEW n \in Messages, settlements'[n] = <<"delivered">>
  PROVE  settlements[n] = <<"delivered">> \/ (n \in ms /\ how = "delivered")
<1>1. CASE n \notin ms
  BY <1>1 DEF SettleSends
<1>2. CASE n \in ms
  <2>1. Append(settlements[n], how) = <<"delivered">> /\ settlements[n] \in Seq(Settlements)
    BY <1>2 DEF SettleSends
  <2> DEFINE s == settlements[n]
             a == Append(s, how)
  <2>2. s \in Seq(Settlements) /\ a = <<"delivered">>
    BY <2>1
  <2> HIDE DEF s
  <2>s. s \in Seq(Settlements) /\ how \in Settlements
    BY <2>2
  <2>3. Len(a) = Len(s) + 1 /\ a[Len(s) + 1] = how
    BY <2>s
  <2>4. Len(s) \in Nat
    BY <2>2
  <2> HIDE DEF a
  <2>5. Len(a) = 1 /\ a[1] = "delivered"
    BY <2>2
  <2>6. Len(s) + 1 = 1
    BY <2>3, <2>5
  <2> QED
    BY <1>2, <2>3, <2>5, <2>6, Zenon
<1> QED
  BY <1>1, <1>2

\* The receiver proves only what it keeps: a repeated message has been handed over
\* or is buffered already, unless it lies beyond the receive window.
LEMMA RepeatedIsKept ==
  ASSUME NoWrap, TypeOK, OrderInv, NoOverrun, NEW n \in Messages, ReceiveRepeated(n)
  PROVE  n \in Kept
<1> USE ChannelConstants
<1>0. /\ written \in Nat /\ SeqModulus \in Nat /\ RxWindow \in Nat /\ MaxMessages \in Nat
      /\ written <= MaxMessages /\ MaxMessages + RxWindow < SeqModulus /\ Len(delivered) \in Nat
  BY DEF TypeOK, NoWrap
<1>1. /\ rxActive /\ seqOf[n] # nextRx
      /\ ~WithinReceiveWindow(seqOf[n]) \/ BufferedAt(seqOf[n]) # {}
      /\ n \in dataNet
  BY DEF ReceiveRepeated
<1>2. n \in 1..written /\ seqOf[n] = n - 1 /\ nextRx = Len(delivered) /\ Len(delivered) <= written
  BY <1>1 DEF OrderInv
<1>3. written <= nextRx + 1 + RxWindow
  BY <1>1 DEF NoOverrun
<1>4. CASE BufferedAt(seqOf[n]) # {}
  <2>1. PICK b \in buffered : seqOf[b] = n - 1
    BY <1>2, <1>4 DEF BufferedAt
  <2>2. b \in 1..written /\ seqOf[b] = b - 1
    BY DEF OrderInv
  <2>3. b = n
    BY <1>0, <1>2, <2>1, <2>2
  <2> QED
    BY <2>1, <2>3 DEF Kept
<1>5. CASE ~WithinReceiveWindow(seqOf[n])
  <2>1. n <= nextRx
    <3> SUFFICES ASSUME n > nextRx PROVE FALSE
      BY <1>0, <1>2
    <3>1. n - 1 - nextRx \in Nat /\ n - 1 - nextRx <= RxWindow /\ n - 1 - nextRx < SeqModulus
      BY <1>0, <1>2, <1>3
    <3>2. (n - 1 + SeqModulus - nextRx) % SeqModulus = n - 1 - nextRx
      BY <1>0, <1>2, <3>1
    <3> QED
      BY <1>2, <1>5, <3>1, <3>2 DEF WithinReceiveWindow
  <2> QED
    BY <1>0, <1>2, <2>1 DEF Kept
<1> QED
  BY <1>1, <1>4, <1>5

\* What was kept stays kept while the receiving end lives.
LEMMA KeptGrows ==
  ASSUME NoWrap, TypeOK, OrderInv, OrderInv', [Next]_vars, rxActive'
  PROVE  rxActive /\ Kept \subseteq Kept'
<1>1. ASSUME UNCHANGED rxVars PROVE rxActive /\ Kept \subseteq Kept'
  BY <1>1 DEF rxVars, Kept
<1>2. ASSUME NEW n \in Messages, ReceiveInOrder(n) PROVE rxActive /\ Kept \subseteq Kept'
  <2>1. PICK k \in Nat :
          /\ delivered' = delivered \o [j \in 1..(1 + k) |-> Len(delivered) + j]
          /\ nextRx' = Len(delivered) + 1 + k
          /\ \A b \in buffered \ buffered' : b <= nextRx'
    BY <1>2, InOrderStep
  <2>2. Len(delivered) \in Nat /\ delivered \in Seq(Messages) /\ buffered \subseteq Messages
    BY DEF TypeOK
  <2>3. Len(delivered') = Len(delivered) + (1 + k)
    BY <2>1, <2>2 DEF OrderInv
  <2>4. \A b \in buffered : b \in buffered' \/ b \in 1..Len(delivered')
    BY <2>1, <2>2, <2>3 DEF Messages
  <2>5. 1..Len(delivered) \subseteq 1..Len(delivered')
    BY <2>2, <2>3
  <2> QED
    BY <1>2, <2>4, <2>5 DEF Kept, ReceiveInOrder
<1>3. ASSUME NEW n \in Messages, ReceiveAhead(n) PROVE rxActive /\ Kept \subseteq Kept'
  BY <1>3 DEF ReceiveAhead, Kept
<1>4. CASE SendToChannel \/ SendToChannelWriteFails \/ TxRetireLink \/ UNCHANGED vars
  BY <1>1, <1>4 DEF SendToChannel, SendToChannelWriteFails, TxRetireLink, vars
<1>5. CASE RxRetireLink
  BY <1>5 DEF RxRetireLink
<1>6. ASSUME NEW n \in Messages,
             \/ AckArrives(n) \/ (\E valid \in BOOLEAN : AckVerified(n, valid))
             \/ TimeoutFires(n) \/ ReceiveRepeated(n)
             \/ AckSigned(n) \/ LoseData(n) \/ LoseAck(n)
      PROVE  rxActive /\ Kept \subseteq Kept'
  BY <1>1, <1>6 DEF AckArrives, AckVerified, TimeoutFires, TimeoutExhausted, TimeoutRetry,
              ReceiveRepeated, AckSigned, LoseData, LoseAck
<1> QED
  BY <1>2, <1>3, <1>4, <1>5, <1>6 DEF Next

\* Every step keeps the proofs honest, while the sender does not overrun.
LEMMA NextProof ==
  NoWrap /\ TypeOK /\ OrderInv /\ OrderInv' /\ ProofInv /\ NoOverrun /\ [Next]_vars => ProofInv'
<1> SUFFICES ASSUME NoWrap, TypeOK, OrderInv, OrderInv', ProofInv, NoOverrun, [Next]_vars,
                    rxActive'
             PROVE  /\ signing' \subseteq Kept' /\ ackNet' \subseteq Kept' /\ verifying' \subseteq Kept'
                    /\ \A n \in Messages : settlements'[n] = <<"delivered">> => n \in Kept'
  BY DEF ProofInv
<1>0. rxActive /\ Kept \subseteq Kept'
  BY KeptGrows
<1>1. /\ signing \subseteq Kept /\ ackNet \subseteq Kept /\ verifying \subseteq Kept
      /\ \A n \in Messages : settlements[n] = <<"delivered">> => n \in Kept
      /\ settlements \in [Messages -> Seq(Settlements)]
  BY <1>0 DEF ProofInv, TypeOK
<1> DEFINE Goal == /\ signing' \subseteq Kept' /\ ackNet' \subseteq Kept' /\ verifying' \subseteq Kept'
                   /\ \A n \in Messages : settlements'[n] = <<"delivered">> => n \in Kept'
<1> SUFFICES Goal
  OBVIOUS
<1>2. ASSUME UNCHANGED <<signing, ackNet, verifying, settlements>> PROVE Goal
  BY <1>0, <1>1, <1>2
<1>3. ASSUME NEW n \in Messages, n \in Kept', signing' = signing \cup {n},
             UNCHANGED <<ackNet, verifying, settlements>>
      PROVE  Goal
  BY <1>0, <1>1, <1>3
<1>4. ASSUME NEW ms, ms \subseteq Kept, NEW how \in Settlements, SettleSends(ms, how),
             signing' \subseteq signing, ackNet' \subseteq ackNet, verifying' \subseteq verifying
      PROVE  Goal
  <2>1. \A n \in Messages : settlements'[n] = <<"delivered">> =>
           settlements[n] = <<"delivered">> \/ n \in ms
    BY <1>1, <1>4, SettledDelivered
  <2> QED
    BY <1>0, <1>1, <1>4, <2>1
<1>5. ASSUME NEW ms, SettleSends(ms, "timeout") \/ SettleSends(ms, "link_closed"),
             UNCHANGED <<signing, ackNet, verifying>>
      PROVE  Goal
  <2>1. "timeout" \in Settlements /\ "link_closed" \in Settlements
    BY DEF Settlements
  <2>2. \A n \in Messages : settlements'[n] = <<"delivered">> => settlements[n] = <<"delivered">>
    BY <1>1, <1>5, <2>1, SettledDelivered
  <2> QED
    BY <1>0, <1>1, <1>5, <2>2
<1> HIDE DEF Goal
<1>6. CASE SendToChannel \/ SendToChannelWriteFails \/ RxRetireLink \/ UNCHANGED vars
  BY <1>2, <1>6 DEF SendToChannel, SendToChannelWriteFails, RxRetireLink, vars, txVars
<1>7. CASE TxRetireLink
  BY <1>5, <1>7 DEF TxRetireLink
<1>8. ASSUME NEW n \in Messages, LoseData(n) \/ (\E eligible \in BOOLEAN : TimeoutRetry(n, eligible))
      PROVE  Goal
  BY <1>2, <1>8 DEF LoseData, TimeoutRetry, txVars
<1>9. ASSUME NEW n \in Messages, TimeoutExhausted(n) PROVE Goal
  BY <1>5, <1>9 DEF TimeoutExhausted
<1>10. ASSUME NEW n \in Messages, LoseAck(n) PROVE Goal
  BY <1>0, <1>1, <1>10 DEF LoseAck, txVars, Goal
<1>11. ASSUME NEW n \in Messages, AckArrives(n) PROVE Goal
  BY <1>0, <1>1, <1>11 DEF AckArrives, txVars, Goal
<1>12. ASSUME NEW n \in Messages, AckSigned(n) PROVE Goal
  BY <1>0, <1>1, <1>12 DEF AckSigned, txVars, Goal
<1>13. ASSUME NEW n \in Messages, NEW valid \in BOOLEAN, AckVerified(n, valid) PROVE Goal
  <2>1. n \in verifying /\ verifying' \subseteq verifying /\ signing' = signing /\ ackNet' = ackNet
    BY <1>13 DEF AckVerified
  <2>2. CASE valid /\ txActive /\ n \in outstanding
    <3>1. SettleSends({n}, "delivered") /\ {n} \subseteq Kept /\ "delivered" \in Settlements
      BY <1>1, <1>13, <2>1, <2>2 DEF AckVerified, Settlements
    <3> QED
      BY <1>4, <2>1, <3>1
  <2>3. CASE ~(valid /\ txActive /\ n \in outstanding)
    <3>1. settlements' = settlements
      BY <1>13, <2>3 DEF AckVerified
    <3> QED
      BY <1>0, <1>1, <2>1, <3>1 DEF Goal
  <2> QED
    BY <2>2, <2>3
<1>14. ASSUME NEW n \in Messages, ReceiveInOrder(n) PROVE Goal
  <2>1. PICK k \in Nat :
          /\ delivered' = delivered \o [j \in 1..(1 + k) |-> Len(delivered) + j]
          /\ nextRx' = Len(delivered) + 1 + k
    BY <1>14, InOrderStep
  <2>2. Len(delivered) \in Nat /\ delivered \in Seq(Messages)
    BY DEF TypeOK
  <2>3. Len(delivered') = Len(delivered) + (1 + k)
    BY <2>1, <2>2 DEF OrderInv
  <2>4. n = Len(delivered) + 1
    <3>1. n \in dataNet /\ seqOf[n] = nextRx /\ rxActive
      BY <1>14 DEF ReceiveInOrder
    <3>2. n \in 1..written /\ seqOf[n] = n - 1 /\ nextRx = Len(delivered)
      BY <3>1 DEF OrderInv
    <3>3. n \in Nat
      BY ChannelConstants DEF Messages
    <3>4. n - 1 = Len(delivered)
      BY <3>1, <3>2, Zenon
    <3> QED
      BY <2>2, <3>3, <3>4
  <2>5. n \in Kept'
    BY <2>2, <2>3, <2>4 DEF Kept
  <2> QED
    BY <1>3, <1>14, <2>5 DEF ReceiveInOrder, txVars
<1>15. ASSUME NEW n \in Messages, ReceiveAhead(n) PROVE Goal
  <2>1. n \in Kept'
    BY <1>15 DEF ReceiveAhead, Kept
  <2> QED
    BY <1>3, <1>15, <2>1 DEF ReceiveAhead, txVars
<1>16. ASSUME NEW n \in Messages, ReceiveRepeated(n) PROVE Goal
  <2>1. n \in Kept'
    BY <1>0, <1>16, RepeatedIsKept
  <2> QED
    BY <1>3, <1>16, <2>1 DEF ReceiveRepeated, txVars
<1> QED
  BY <1>6, <1>7, <1>8, <1>9, <1>10, <1>11, <1>12, <1>13, <1>14, <1>15, <1>16 DEF Next, TimeoutFires

\* A send that settles as delivered is in the receiving application's hands or in
\* its reorder buffer, while the receiving end lives, the sequence space lasts and
\* the sender does not overrun the receive window: an overrun is the only way to
\* a proof for a message that was not kept (receive, owes_proof).
THEOREM DeliveredIsReceived == NoWrap /\ Spec /\ []NoOverrun => []DeliveredMeansReceived
<1>1. Init => SettleInv
  BY ChannelConstants DEF Init, SettleInv, SettledExactlyOnce, NoOrphanedSend, Messages
<1>2. Init => ProofInv
  BY DEF Init, ProofInv
<1>3. NoWrap => NoWrap'
  BY DEF NoWrap
<1>4. OrderInv /\ ProofInv => DeliveredMeansReceived
  <2>1. OrderInv => {delivered[i] : i \in 1..Len(delivered)} = 1..Len(delivered)
    BY DEF OrderInv, InOrder
  <2> QED
    BY <2>1 DEF ProofInv, DeliveredMeansReceived, Received, Kept
<1> QED
  BY <1>1, <1>2, <1>3, <1>4, TypeCorrect, NextSettle, InitOrder, NextOrder, NextProof, PTL DEF Spec
=============================================================================
