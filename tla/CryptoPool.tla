---------------------------- MODULE CryptoPool ----------------------------
(***************************************************************************)
(* The host runtime's event loop ("the manifold") and its crypto workers:  *)
(* prns-runtime/impls/tokio/src/manifold/driver.  The manifold thread      *)
(* turns frames into jobs, hands them to worker threads through one        *)
(* single-producer ring per worker and lane, and takes the results back    *)
(* from one ring per worker.  Three sleepers wake each other without       *)
(* locks: a worker (wake_on_submit and a park token), the manifold for     *)
(* completions (the armed bit of CompletionReadiness and a Notify), and    *)
(* the manifold for frames (ManifoldWake).                                 *)
(*                                                                         *)
(* Every access to a shared atomic is a step of its own, unless the        *)
(* neighbouring access commutes with every step of the other threads.      *)
(* All of these atomics are read-modify-write pairs on one location, so    *)
(* sequential consistency loses no behaviour.                              *)
(*                                                                         *)
(* Abstracted: which accepting worker worker_for picks (any), how long an  *)
(* idle worker polls before it parks (any time), the bytes of a job, and   *)
(* turn_work, which is the sum of the four batches of a turn.              *)
(* Commands, timers and follow-up work enter as frames of the lanes.       *)
(***************************************************************************)
EXTENDS Naturals, Sequences, FiniteSets

CONSTANTS
  Workers,          \* 1..n, the worker threads
  Lanes,            \* 1..l, the inbound lanes
  Role,             \* CryptoWorkerRole of each worker
  JobRing,          \* CRYPTO_WORKER_JOB_RING_DEPTH
  ResultRing,       \* CRYPTO_WORKER_RESULT_RING_DEPTH
  Batch,            \* interactive_batch
  Depth,            \* backpressure_depth
  WorkCap,          \* maximum_outstanding_work
  HashCap,          \* RESOURCE_PART_HASH_CONCURRENCY
  CompletionBatch, InboundTotal, InboundPerLane, OwedBatch,
  HotTurns,         \* PACKET_VERDICT_HOT_TURNS
  Backlog,          \* frames in every lane when the loop starts
  Arrivals,         \* bound: frames the interfaces deliver after that
  FrameJobs         \* the jobs one frame may owe

ASSUME PoolConstants ==
  /\ Workers = 1..Cardinality(Workers) /\ Workers # {}
  /\ Lanes = 1..Cardinality(Lanes)
  /\ Role \in [Workers -> {"shared", "interactive", "bulk"}]
  /\ {JobRing, ResultRing, Batch, Depth, WorkCap, HashCap, CompletionBatch,
      InboundTotal, InboundPerLane, OwedBatch} \subseteq Nat \ {0}
  /\ {HotTurns, Backlog, Arrivals} \subseteq Nat
  /\ FrameJobs \subseteq {"sign", "seal", "hash", "none"}

VARIABLES
  m,        \* the manifold thread: program counter and locals of a turn
  book,     \* the manifold's own accounts of the pool (the Cells)
  owed,     \* PendingOwedWork: jobs waiting for a submit
  lanes,    \* committed frames of each inbound lane
  src,      \* the interface tasks that commit and signal; closing
  wake,     \* ManifoldWakeState: armed flag and stored notification
  comp,     \* CompletionReadiness and the completion Notify's permit
  queued,   \* CryptoPoolState.queued_jobs
  shut,     \* CryptoPoolState.shutdown
  ring,     \* unclaimed jobs of each worker's two rings
  wk,       \* each worker thread
  results   \* each worker's result ring

poolVars == <<m, book, owed, lanes, src, wake, comp, queued, shut, ring, wk, results>>

\* "sign" stands for SignLink jobs, which leave ingress in batches and are
\* published in batches; "seal" for any other interactive job; "hash" for
\* HashResourcePart, a bulk job that owes no packet verdict.
Kinds == {"sign", "seal", "hash"}
JobLanes == {"interactive", "bulk"}
scheduling_class(k) == IF k = "hash" THEN "bulk" ELSE "interactive"
owes_packet_verdict(k) == k # "hash"
estimated_work(k) == IF k = "sign" THEN 1 ELSE 2

\* CryptoWorkerRole::accepts.
accepts(w, k) == Role[w] \in {"shared", scheduling_class(k)}

NoJob == "none"
Idle == [pc |-> "top", chunk |-> <<>>, held |-> 0, lane |-> "interactive",
         out |-> <<>>, arm |-> FALSE, token |-> FALSE]
Turn == [pc |-> "pop", n |-> 0, lane |-> 1, inLane |-> 0,
         progressed |-> FALSE, waitArmed |-> FALSE, signs |-> 0,
         push |-> NoJob, touched |-> {}, back |-> "pop"]

PInit ==
  /\ m = Turn
  /\ book = [jobs |-> [w \in Workers |-> 0], work |-> [w \in Workers |-> 0],
             verdicts |-> 0, hot |-> 0, hashes |-> 0, next |-> 1]
  /\ owed = [seal |-> 0, hash |-> 0]
  /\ lanes = [l \in Lanes |-> Backlog]
  /\ src = [left |-> Arrivals, signal |-> {}, closed |-> FALSE]
  /\ wake = [armed |-> FALSE, permit |-> FALSE]
  /\ comp = [ready |-> 0, armed |-> FALSE, permit |-> FALSE]
  /\ queued = 0
  /\ shut = FALSE
  /\ ring = [w \in Workers |-> [l \in JobLanes |-> <<>>]]
  /\ wk = [w \in Workers |-> Idle]
  /\ results = [w \in Workers |-> <<>>]

---------------------------------------------------------------------------
(* The interface tasks: commit a frame to the lane, then signal.           *)

commit_inbound(l) ==
  /\ ~src.closed /\ src.left > 0 /\ l \notin src.signal
  /\ lanes' = [lanes EXCEPT ![l] = @ + 1]
  /\ src' = [src EXCEPT !.left = @ - 1, !.signal = @ \cup {l}]
  /\ UNCHANGED <<m, book, owed, wake, comp, queued, shut, ring, wk, results>>

\* ManifoldWakeSender::signal: notify only a receiver whose arm it took.
Signal == IF wake.armed THEN [armed |-> FALSE, permit |-> TRUE] ELSE wake

signal(l) ==
  /\ l \in src.signal
  /\ wake' = Signal
  /\ src' = [src EXCEPT !.signal = @ \ {l}]
  /\ UNCHANGED <<m, book, owed, lanes, comp, queued, shut, ring, wk, results>>

\* The last sender is dropped: the receiver is notified, armed or not.
drop_senders ==
  /\ ~src.closed /\ src.signal = {}
  /\ src' = [src EXCEPT !.closed = TRUE, !.left = 0]
  /\ wake' = [wake EXCEPT !.permit = TRUE]
  /\ UNCHANGED <<m, book, owed, lanes, comp, queued, shut, ring, wk, results>>

---------------------------------------------------------------------------
(* The manifold's turn: completions, inbound frames, owed work.            *)

Less(a, b) == IF a > b THEN a - b ELSE 0

\* The next iteration of the loop; manifold_wait_armed outlives the turn.
NewTurn(waitArmed) == [Turn EXCEPT !.waitArmed = waitArmed]

ToInbound(s) == [s EXCEPT !.pc = "inbound", !.lane = 1, !.inLane = 0, !.n = 0]
ToOwed(s) == [s EXCEPT !.pc = "owed", !.n = 0, !.inLane = 0, !.lane = 1,
                       !.progressed = @ \/ s.n > 0]
NextLane(s) == IF s.lane + 1 \in Lanes
               THEN [s EXCEPT !.pc = "inbound", !.lane = @ + 1, !.inLane = 0]
               ELSE ToOwed(s)

\* has_completion: enter the pop loop, or go on to the inbound lanes.
has_completion ==
  /\ m.pc = "pop"
  /\ m' = IF comp.ready > 0
          THEN [m EXCEPT !.pc = "popping", !.progressed = TRUE]
          ELSE ToInbound(m)
  /\ UNCHANGED <<book, owed, lanes, src, wake, comp, queued, shut, ring, wk, results>>

\* The order in which pop_completion visits the workers.
Rotation(i) == LET n == Cardinality(Workers) IN ((book.next + i - 2) % n) + 1
Popped == LET filled == {i \in Workers : results[Rotation(i)] # <<>>}
          IN  Rotation(CHOOSE i \in filled : \A j \in filled : i <= j)

\* CompletionReadiness::release.
Release(count) == comp' = [comp EXCEPT !.ready = @ - count]

\* Mutant: the verdict count is left alone.
Recorded_KeepsVerdict(b, w, k) ==
  [b EXCEPT !.jobs[w] = @ - 1, !.work[w] = @ - estimated_work(k),
            !.hashes = IF k = "hash" THEN @ - 1 ELSE @]

\* record_completed, resource_part_hash_completed and packet_verdict_settled.
Recorded(b, w, k) ==
  [b EXCEPT !.jobs[w] = @ - 1, !.work[w] = @ - estimated_work(k),
            !.hashes = IF k = "hash" THEN @ - 1 ELSE @,
            !.verdicts = IF owes_packet_verdict(k) THEN @ - 1 ELSE @,
            !.hot = IF owes_packet_verdict(k) /\ b.verdicts = 1 THEN HotTurns ELSE @]

pop_completion ==
  /\ m.pc = "popping"
  /\ IF \A w \in Workers : results[w] = <<>>
     THEN m' = ToInbound(m) /\ UNCHANGED <<book, comp, results>>
     ELSE LET w == Popped
              k == Head(results[w])
          IN  /\ results' = [results EXCEPT ![w] = Tail(@)]
              /\ Release(1)
              /\ book' = [Recorded(book, w, k)
                            EXCEPT !.next = IF w = Cardinality(Workers) THEN 1 ELSE w + 1]
              /\ m' = IF m.n + 1 = CompletionBatch THEN ToInbound(m)
                      ELSE [m EXCEPT !.n = @ + 1]
  /\ UNCHANGED <<owed, lanes, src, wake, queued, shut, ring, wk>>

has_queue_capacity(additional) == queued + additional <= Depth
pool_jobs_len == owed.seal + owed.hash

InboundOpen ==
  /\ m.n < InboundTotal /\ m.inLane < InboundPerLane
  /\ has_queue_capacity(pool_jobs_len + m.signs + 2)
  /\ lanes[m.lane] > 0

\* One frame of InboundDispatch::process: its link sign joins the batch, its
\* other work the owed queue.
ProcessFrame(k) ==
  /\ m.pc = "inbound" /\ InboundOpen
  /\ lanes' = [lanes EXCEPT ![m.lane] = @ - 1]
  /\ m' = [m EXCEPT !.n = @ + 1, !.inLane = @ + 1,
                    !.signs = IF k = "sign" THEN @ + 1 ELSE @]
  /\ owed' = [j \in DOMAIN owed |-> IF k = j THEN owed[j] + 1 ELSE owed[j]]
  /\ UNCHANGED <<book, src, wake, comp, queued, shut, ring, wk, results>>

\* The lane is done: submit_link_signs counts the whole batch before it
\* pushes the first job.  No lane is left: the turn goes on to owed work.
CloseLane ==
  /\ m.pc = "inbound" /\ ~InboundOpen
  /\ m' = IF m.signs > 0
          THEN [m EXCEPT !.pc = "push", !.push = "sign", !.back = "inbound"]
          ELSE NextLane(m)
  /\ queued' = queued + m.signs
  /\ UNCHANGED <<book, owed, lanes, src, wake, comp, shut, ring, wk, results>>

TotalWork == LET Sum[w \in 0..Cardinality(Workers)] ==
                   IF w = 0 THEN 0 ELSE book.work[w] + Sum[w - 1]
             IN  Sum[Cardinality(Workers)]
has_work_capacity(additional) == TotalWork = 0 \/ TotalWork + additional <= WorkCap

\* The job PendingOwedWork::dispatch would take: interactive before hashes.
NextOwed ==
  IF owed.seal > 0 THEN "seal"
  ELSE IF owed.hash > 0 /\ book.hashes < HashCap THEN "hash" ELSE NoJob

\* The end of a turn.  Progress disarms the frame wake and starts over.  An
\* idle turn stays hot while a packet verdict is owed and for HotTurns turns
\* after the last one; then prepare_wait begins with has_ready.
EndTurn(progressed) ==
  \/ /\ progressed
     /\ m' = NewTurn(FALSE)
     /\ wake' = IF m.waitArmed THEN [wake EXCEPT !.armed = FALSE] ELSE wake
     /\ UNCHANGED book
  \/ /\ ~progressed /\ (book.verdicts > 0 \/ book.hot > 0)
     /\ m' = NewTurn(m.waitArmed)
     /\ book' = [book EXCEPT !.hot = IF book.verdicts > 0 THEN @ ELSE @ - 1]
     /\ UNCHANGED wake
  \/ /\ ~progressed /\ book.verdicts = 0 /\ book.hot = 0
     /\ m' = IF comp.ready > 0 THEN NewTurn(m.waitArmed) ELSE [m EXCEPT !.pc = "fetch_or"]
     /\ UNCHANGED <<book, wake>>

\* One round of dispatch: submit the next owed job, or end the turn.
Dispatch ==
  /\ m.pc = "owed"
  /\ LET k == NextOwed
         submits == /\ m.n < OwedBatch
                    /\ has_queue_capacity(1)
                    /\ k # NoJob /\ has_work_capacity(estimated_work(k))
     IN  IF submits
         THEN /\ m' = [m EXCEPT !.pc = "push", !.push = k, !.back = "owed"]
              /\ owed' = [owed EXCEPT ![k] = @ - 1]
              /\ queued' = queued + 1
              /\ UNCHANGED <<book, wake>>
         ELSE /\ EndTurn(m.progressed \/ m.n > 0)
              /\ UNCHANGED <<owed, queued>>
  /\ UNCHANGED <<lanes, src, comp, shut, ring, wk, results>>

\* A ring slot is free again only when the chunk that claimed it is dropped.
Room(w, l) ==
  Len(ring[w][l]) + (IF wk[w].lane = l THEN wk[w].held ELSE 0) < JobRing

\* record_submitted_to_worker and the verdict count of the two submits.
Submitted(w, k) ==
  [book EXCEPT !.jobs[w] = @ + 1, !.work[w] = @ + estimated_work(k),
               !.hashes = IF k = "hash" THEN @ + 1 ELSE @,
               !.hot = IF owes_packet_verdict(k) /\ book.verdicts = 0 THEN 0 ELSE @,
               !.verdicts = IF owes_packet_verdict(k) THEN @ + 1 ELSE @]

\* push_scheduled_job: any accepting worker with room; it spins, and the
\* action is not enabled, while there is none.
push_scheduled_job(w) ==
  /\ m.pc = "push"
  /\ accepts(w, m.push) /\ Room(w, scheduling_class(m.push))
  /\ ring' = [ring EXCEPT ![w][scheduling_class(m.push)] = Append(@, m.push)]
  /\ book' = Submitted(w, m.push)
  /\ LET s == [m EXCEPT !.touched = @ \cup {w}, !.signs = Less(@, 1)]
     IN  m' = IF s.signs > 0 THEN s ELSE [s EXCEPT !.pc = "unpark"]
  /\ UNCHANGED <<owed, lanes, src, wake, comp, queued, shut, wk, results>>

\* wake_worker_if_armed, once per touched worker, after every push.
wake_worker_if_armed(w) ==
  /\ m.pc = "unpark" /\ w \in m.touched
  /\ wk' = [wk EXCEPT ![w].arm = FALSE, ![w].token = @ \/ wk[w].arm]
  /\ LET s == [m EXCEPT !.touched = @ \ {w}]
     IN  m' = IF s.touched # {} THEN s
              ELSE IF s.back = "inbound" THEN NextLane([s EXCEPT !.push = NoJob])
              ELSE [s EXCEPT !.pc = "owed", !.push = NoJob, !.n = @ + 1]
  /\ UNCHANGED <<book, owed, lanes, src, wake, comp, queued, shut, ring, results>>

---------------------------------------------------------------------------
(* Going to sleep, waking up and shutting down.                            *)

\* Mutant: the count fetch_or returns is not looked at.
prepare_wait_NoRecheck ==
  /\ \/ /\ m.pc = "fetch_or"
        /\ comp' = [comp EXCEPT !.armed = TRUE]
        /\ m' = [m EXCEPT !.pc = "armed"]
     \/ /\ m.pc = "fetch_and"
        /\ comp' = [comp EXCEPT !.armed = FALSE]
        /\ m' = NewTurn(m.waitArmed)
  /\ UNCHANGED <<book, owed, lanes, src, wake, queued, shut, ring, wk, results>>

\* The rest of CompletionReadiness::prepare_wait, after its first has_ready:
\* one atomic operation at a time.
prepare_wait ==
  /\ \/ /\ m.pc = "fetch_or"
        /\ comp' = [comp EXCEPT !.armed = TRUE]
        /\ m' = [m EXCEPT !.pc = IF comp.ready = 0 THEN "armed" ELSE "fetch_and"]
     \/ /\ m.pc = "fetch_and"
        /\ comp' = [comp EXCEPT !.armed = FALSE]
        /\ m' = NewTurn(m.waitArmed)
  /\ UNCHANGED <<book, owed, lanes, src, wake, queued, shut, ring, wk, results>>

\* Mutant: straight to select, without the turn that looks at the lanes again.
arm_NoTurn ==
  /\ m.pc = "armed"
  /\ m' = [m EXCEPT !.pc = "select", !.waitArmed = TRUE]
  /\ wake' = [wake EXCEPT !.armed = TRUE]
  /\ UNCHANGED <<book, owed, lanes, src, comp, queued, shut, ring, wk, results>>

\* ManifoldWakeReceiver::arm, followed by one more full turn before select.
arm ==
  /\ m.pc = "armed"
  /\ IF m.waitArmed
     THEN m' = [m EXCEPT !.pc = "select"] /\ UNCHANGED wake
     ELSE m' = NewTurn(TRUE) /\ wake' = [wake EXCEPT !.armed = TRUE]
  /\ UNCHANGED <<book, owed, lanes, src, comp, queued, shut, ring, wk, results>>

\* The select: a stored notification of either Notify ends it.
WakeOnCompletion ==
  /\ m.pc = "select" /\ comp.permit
  /\ comp' = [comp EXCEPT !.permit = FALSE]
  /\ m' = NewTurn(m.waitArmed)
  /\ UNCHANGED <<book, owed, lanes, src, wake, queued, shut, ring, wk, results>>

WakeOnSignal ==
  /\ m.pc = "select" /\ wake.permit /\ ~src.closed
  /\ wake' = [wake EXCEPT !.permit = FALSE]
  /\ m' = NewTurn(FALSE)
  /\ UNCHANGED <<book, owed, lanes, src, comp, queued, shut, ring, wk, results>>

\* Mutant: the workers are unparked before shutdown is set.
drop_UnparkFirst ==
  /\ \/ /\ m.pc = "select" /\ src.closed
        /\ m' = [m EXCEPT !.pc = "shutdown"]
        /\ wk' = [w \in Workers |-> [wk[w] EXCEPT !.token = TRUE]]
        /\ UNCHANGED <<shut, queued, comp>>
     \/ /\ m.pc = "shutdown"
        /\ m' = [m EXCEPT !.pc = "join"] /\ shut' = TRUE
        /\ UNCHANGED <<wk, queued, comp>>
     \/ /\ m.pc = "join" /\ \A w \in Workers : wk[w].pc = "exit"
        /\ m' = [m EXCEPT !.pc = "dropped"]
        /\ queued' = 0 /\ comp' = [comp EXCEPT !.ready = 0, !.armed = FALSE]
        /\ UNCHANGED <<shut, wk>>
  /\ UNCHANGED <<book, owed, lanes, src, wake, ring, results>>

\* SendersDropped: the loop returns and drops the pool, with whatever jobs
\* are still in it.
drop ==
  /\ \/ /\ m.pc = "select" /\ src.closed
        /\ m' = [m EXCEPT !.pc = "shutdown"] /\ shut' = TRUE
        /\ UNCHANGED <<wk, queued, comp>>
     \/ /\ m.pc = "shutdown"
        /\ m' = [m EXCEPT !.pc = "join"]
        /\ wk' = [w \in Workers |-> [wk[w] EXCEPT !.token = TRUE]]
        /\ UNCHANGED <<shut, queued, comp>>
     \/ /\ m.pc = "join" /\ \A w \in Workers : wk[w].pc = "exit"
        /\ m' = [m EXCEPT !.pc = "dropped"]
        /\ queued' = 0 /\ comp' = [comp EXCEPT !.ready = 0, !.armed = FALSE]
        /\ UNCHANGED <<shut, wk>>
  /\ UNCHANGED <<book, owed, lanes, src, wake, ring, results>>

---------------------------------------------------------------------------
(* A worker thread: crypto_worker, run_worker_jobs, publish_crypto_results.*)

WorkerLocal == <<m, book, owed, lanes, src, wake, shut>>

\* The top of the loop and the look at the two rings.
crypto_worker(w) ==
  /\ wk[w].pc = "top"
  /\ \/ /\ shut
        /\ wk' = [wk EXCEPT ![w].pc = "exit"]
        /\ UNCHANGED <<ring, queued>>
     \/ /\ ~shut
        /\ \E l \in JobLanes :
             /\ ring[w][l] # <<>>
             /\ l = "bulk" => ring[w]["interactive"] = <<>>
             /\ LET limit == IF l = "bulk" THEN 1 ELSE Batch
                    n == IF Len(ring[w][l]) < limit THEN Len(ring[w][l]) ELSE limit
                IN  /\ wk' = [wk EXCEPT ![w].pc = "run", ![w].held = n, ![w].lane = l,
                                        ![w].chunk = SubSeq(ring[w][l], 1, n)]
                    /\ ring' = [ring EXCEPT ![w][l] = SubSeq(@, n + 1, Len(@))]
                    /\ queued' = queued - n
     \/ /\ ~shut /\ \A l \in JobLanes : ring[w][l] = <<>>
        /\ wk' = [wk EXCEPT ![w].pc = "arm"]
        /\ UNCHANGED <<ring, queued>>
  /\ UNCHANGED <<WorkerLocal, comp, results>>

\* Park: arm wake_on_submit, look again, then wait for the token.
Park(w) ==
  /\ \/ /\ wk[w].pc = "arm"
        /\ wk' = [wk EXCEPT ![w].pc = "recheck", ![w].arm = TRUE]
     \/ /\ wk[w].pc = "recheck"
        /\ wk' = [wk EXCEPT ![w].pc =
             IF shut \/ \E l \in JobLanes : ring[w][l] # <<>> THEN "top" ELSE "parked"]
     \/ /\ wk[w].pc = "parked" /\ wk[w].token
        /\ wk' = [wk EXCEPT ![w].pc = "top", ![w].token = FALSE]
  /\ UNCHANGED <<WorkerLocal, comp, queued, ring, results>>

\* The jobs that are computed and published together: a run of link signs,
\* or one job.
RunLength(chunk) ==
  IF chunk[1] # "sign" THEN 1
  ELSE Cardinality({n \in 1..Len(chunk) : \A i \in 1..n : chunk[i] = "sign"})

\* CompletionReadiness::reserve, before the results are in the ring; or the
\* chunk is finished and its slots go back to the producer.
run_worker_jobs(w) ==
  /\ wk[w].pc = "run"
  /\ LET chunk == wk[w].chunk
         n == RunLength(chunk)
     IN  IF chunk = <<>>
         THEN wk' = [wk EXCEPT ![w].pc = "top", ![w].held = 0] /\ UNCHANGED comp
         ELSE /\ wk' = [wk EXCEPT ![w].pc = "publish", ![w].out = SubSeq(chunk, 1, n),
                                  ![w].chunk = SubSeq(chunk, n + 1, Len(chunk))]
              /\ comp' = [comp EXCEPT !.ready = @ + n]
  /\ UNCHANGED <<WorkerLocal, queued, ring, results>>


\* results.slots() >= count.
Fits(w) == Len(results[w]) + Len(wk[w].out) <= ResultRing

publish_crypto_results(w) ==
  /\ wk[w].pc = "publish"
  /\ \/ /\ shut
        /\ wk' = [wk EXCEPT ![w].pc = "exit", ![w].out = <<>>]
        /\ Release(Len(wk[w].out))
        /\ UNCHANGED results
     \/ /\ ~shut /\ Fits(w)
        /\ results' = [results EXCEPT ![w] = @ \o wk[w].out]
        /\ wk' = [wk EXCEPT ![w].pc = "notify", ![w].out = <<>>]
        /\ UNCHANGED comp
     \/ /\ ~shut /\ ~Fits(w)
        /\ wk' = [wk EXCEPT ![w].pc = "notify"]
        /\ UNCHANGED <<results, comp>>
  /\ UNCHANGED <<WorkerLocal, queued, ring>>

\* Published and notified: the next run; still holding results: try again.
AfterNotify(w) == IF wk[w].out = <<>> THEN "run" ELSE "publish"

\* notify_if_armed: test the bit, then take it; only the taker notifies.
notify_if_armed(w) ==
  /\ \/ /\ wk[w].pc = "notify"
        /\ wk' = [wk EXCEPT ![w].pc = IF comp.armed THEN "take" ELSE AfterNotify(w)]
        /\ UNCHANGED comp
     \/ /\ wk[w].pc = "take"
        /\ wk' = [wk EXCEPT ![w].pc = AfterNotify(w)]
        /\ comp' = [comp EXCEPT !.armed = FALSE, !.permit = @ \/ comp.armed]
  /\ UNCHANGED <<WorkerLocal, queued, ring, results>>

---------------------------------------------------------------------------
Manifold ==
  \/ has_completion \/ pop_completion \/ CloseLane \/ Dispatch
  \/ \E k \in FrameJobs : ProcessFrame(k)
  \/ \E w \in Workers : push_scheduled_job(w) \/ wake_worker_if_armed(w)
  \/ prepare_wait \/ arm \/ WakeOnCompletion \/ WakeOnSignal \/ drop

Worker(w) ==
  \/ crypto_worker(w) \/ Park(w) \/ run_worker_jobs(w)
  \/ publish_crypto_results(w) \/ notify_if_armed(w)

PNext ==
  \/ Manifold
  \/ \E w \in Workers : Worker(w)
  \/ \E l \in Lanes : commit_inbound(l) \/ signal(l)
  \/ drop_senders

\* The threads are scheduled, and an interface task that committed a frame
\* signals it.  Nothing obliges a frame to arrive or a sender to be dropped.
PSpec ==
  /\ PInit /\ [][PNext]_poolVars
  /\ WF_poolVars(Manifold)
  /\ \A w \in Workers : WF_poolVars(Worker(w))
  /\ WF_poolVars(\E l \in Lanes : signal(l))

---------------------------------------------------------------------------
(* Properties.                                                             *)

ManifoldPcs == {"pop", "popping", "inbound", "push", "unpark", "owed",
                "fetch_or", "fetch_and", "armed", "select",
                "shutdown", "join", "dropped"}
WorkerPcs == {"top", "arm", "recheck", "parked", "run", "publish",
              "notify", "take", "exit"}

\* The state has the shape of the code's structures; no count wraps below
\* zero and no ring holds more than its slots.
PTypeOK ==
  /\ m.pc \in ManifoldPcs /\ m.touched \subseteq Workers
  /\ {m.n, m.signs, m.inLane} \subseteq Nat
  /\ {m.progressed, m.waitArmed, shut, src.closed} \subseteq BOOLEAN
  /\ book.jobs \in [Workers -> Nat] /\ book.work \in [Workers -> Nat]
  /\ {book.verdicts, book.hot, book.hashes, queued, comp.ready} \subseteq Nat
  /\ {wake.armed, wake.permit, comp.armed, comp.permit} \subseteq BOOLEAN
  /\ owed \in [{"seal", "hash"} -> Nat] /\ lanes \in [Lanes -> Nat]
  /\ src.signal \subseteq Lanes
  /\ \A w \in Workers :
       /\ wk[w].pc \in WorkerPcs
       /\ {wk[w].arm, wk[w].token} \subseteq BOOLEAN
       /\ Len(results[w]) <= ResultRing
       /\ \A l \in JobLanes :
            Len(ring[w][l]) + (IF wk[w].lane = l THEN wk[w].held ELSE 0) <= JobRing

\* The jobs of a worker between its submit and its completion.
InPool(w) == ring[w]["interactive"] \o ring[w]["bulk"] \o wk[w].chunk \o wk[w].out \o results[w]

SumOver(f) == LET Sum[w \in 0..Cardinality(Workers)] ==
                    IF w = 0 THEN 0 ELSE f[w] + Sum[w - 1]
              IN  Sum[Cardinality(Workers)]
CountIn(s, k) == Cardinality({i \in DOMAIN s : s[i] = k})

\* The state keeps its shape and, until the pool is dropped, what the
\* manifold's Cells and the shared counters say is what the rings and the
\* workers hold: every outstanding job is in exactly one place, queued_jobs
\* counts the unclaimed ones and those about to be pushed, the ready count
\* covers every result in a ring.  Admission by crypto_backpressure_depth and
\* RESOURCE_PART_HASH_CONCURRENCY holds although the workers change
\* queued_jobs between check and submit.
AccountsAgree ==
  /\ PTypeOK
  /\ queued <= Depth /\ book.hashes <= HashCap
  /\ ~shut =>
       /\ \A w \in Workers : book.jobs[w] = Len(InPool(w))
       /\ book.verdicts = SumOver([w \in Workers |-> Len(InPool(w)) - CountIn(InPool(w), "hash")])
       /\ book.hashes = SumOver([w \in Workers |-> CountIn(InPool(w), "hash")])
       /\ comp.ready = SumOver([w \in Workers |-> Len(results[w]) + Len(wk[w].out)])
       /\ queued = SumOver([w \in Workers |->
                              Len(ring[w]["interactive"]) + Len(ring[w]["bulk"])])
                   + (IF m.pc # "push" THEN 0 ELSE IF m.push = "sign" THEN m.signs ELSE 1)

Publishing(w) == wk[w].pc \in {"publish", "notify", "take"}

\* The manifold never sleeps through a completion (prepare_wait against
\* publish and notify_if_armed): asleep, its bit is armed or its permit is
\* there, and if a result is counted some worker is still on its way to
\* notify or the permit is there.
NoLostCompletion ==
  m.pc = "select" =>
    /\ comp.armed \/ comp.permit
    /\ comp.ready > 0 => comp.permit \/ \E w \in Workers : Publishing(w)

\* A worker never parks on a job: parked beside a filled ring it has its
\* token, or the submit that filled the ring has yet to test wake_on_submit
\* and will find it set.
NoLostJob ==
  \A w \in Workers :
    (wk[w].pc = "parked" /\ \E l \in JobLanes : ring[w][l] # <<>>) =>
      \/ wk[w].token
      \/ m.pc \in {"push", "unpark"} /\ w \in m.touched /\ wk[w].arm

\* No thread of the pool sleeps through what it waits for, in any order of
\* arming, publishing, testing and parking.
NoLostWake == NoLostCompletion /\ NoLostJob

\* The manifold never sleeps beside a committed frame: its wake permit is
\* stored, the frame's signal is still to come and will find it armed, or a
\* job is in the pool whose completion will start the next turn.  Nor does it
\* sleep beside owed work that no completion will bring back.
NoStrandedWork ==
  m.pc = "select" =>
    /\ (\E l \in Lanes : lanes[l] > 0) =>
         \/ wake.permit
         \/ wake.armed /\ src.signal # {}
         \/ \E w \in Workers : book.jobs[w] > 0
    /\ pool_jobs_len > 0 => \E w \in Workers : book.jobs[w] > 0

\* The manifold is spinning in push_scheduled_job on full job rings, and every
\* worker that could make room is spinning on a full result ring, which only
\* the manifold empties.
Standoff ==
  /\ m.pc = "push"
  /\ \A w \in Workers : accepts(w, m.push) =>
       /\ ~Room(w, scheduling_class(m.push))
       /\ Publishing(w) /\ wk[w].out # <<>> /\ ~Fits(w)

\* CRYPTO_WORKER_RESULT_RING_DEPTH: "A worker must always be able to return a
\* command-sized burst while the single manifold is still submitting it."
NoStandoff == ~Standoff

\* What the pool and the event loop owe their callers.
Pending ==
  \/ \E l \in Lanes : lanes[l] > 0
  \/ pool_jobs_len > 0
  \/ \E w \in Workers : book.jobs[w] > 0


\* Once the senders are gone the loop ends and Drop joins every worker,
\* whatever they were doing when shutdown was set.
DropJoins == src.closed ~> m.pc = "dropped"
===========================================================================
