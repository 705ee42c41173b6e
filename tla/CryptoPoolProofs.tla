------------------------- MODULE CryptoPoolProofs -------------------------
(***************************************************************************)
(* The two sleep protocols of the crypto pool, for any number of workers,  *)
(* any ring sizes and any traffic: no worker parks on a job and the        *)
(* manifold does not sleep through a completion.                           *)
(***************************************************************************)
EXTENDS CryptoPool, FiniteSetTheorems, SequenceTheorems, TLAPS

\* The shapes the two protocols rest on.
Jobs == Kinds \cup {NoJob}
ManifoldType ==
  [pc : ManifoldPcs, n : Nat, lane : Nat, inLane : Nat, progressed : BOOLEAN,
   waitArmed : BOOLEAN, signs : Nat, push : Jobs,
   touched : SUBSET Workers, back : {"pop", "inbound", "owed"}]
WorkerType ==
  [pc : WorkerPcs, chunk : Seq(Jobs), held : Int, lane : JobLanes,
   out : Seq(Jobs), arm : BOOLEAN, token : BOOLEAN]
PoolTypes ==
  /\ m \in ManifoldType
  /\ comp \in [ready : Int, armed : BOOLEAN, permit : BOOLEAN]
  /\ wk \in [Workers -> WorkerType]
  /\ ring \in [Workers -> [JobLanes -> Seq(Jobs)]]
  /\ shut \in BOOLEAN

\* A worker that is about to park, or parked, is armed or has its token; and
\* beside a filled ring the submit has not forgotten it.
JobWake ==
  /\ \A w \in Workers : wk[w].pc \in {"recheck", "parked"} => wk[w].arm \/ wk[w].token
  /\ NoLostJob

\* The manifold's bit is armed, or was taken, from fetch_or until it sleeps;
\* and an armed bit beside counted results means a worker that will take it.
CompletionWake ==
  /\ shut <=> m.pc \in {"shutdown", "join", "dropped"}
  /\ m.pc \in {"armed", "select"} => comp.armed \/ comp.permit
  /\ (~shut /\ comp.armed /\ comp.ready > 0 /\ m.pc # "fetch_and") =>
       \E w \in Workers : Publishing(w)

PoolInv == PoolTypes /\ JobWake /\ CompletionWake

\* A run of jobs is a number of jobs of the chunk.
LEMMA RunLengthType ==
  ASSUME NEW chunk \in Seq(Jobs), chunk # <<>>
  PROVE  RunLength(chunk) \in Nat /\ RunLength(chunk) <= Len(chunk)
<1> DEFINE S == {n \in 1..Len(chunk) : \A i \in 1..n : chunk[i] = "sign"}
<1>1. Len(chunk) \in Nat /\ Len(chunk) >= 1
  BY EmptySeq, LenProperties
<1>2. IsFiniteSet(1..Len(chunk)) /\ Cardinality(1..Len(chunk)) = Len(chunk)
  BY <1>1, FS_Interval
<1>3. S \in SUBSET (1..Len(chunk))
  OBVIOUS
<1>4. IsFiniteSet(S) /\ Cardinality(S) <= Len(chunk)
  BY <1>2, <1>3, FS_Subset
<1>5. Cardinality(S) \in Nat
  BY <1>4, FS_CardinalityType
<1>6. QED
  BY <1>1, <1>4, <1>5 DEF RunLength

\* The part of a sequence after its first n members is a sequence, and so
\* are these first members.
LEMMA CutTypes ==
  ASSUME NEW s \in Seq(Jobs), NEW n \in Nat
  PROVE  /\ SubSeq(s, n + 1, Len(s)) \in Seq(Jobs)
         /\ n <= Len(s) => SubSeq(s, 1, n) \in Seq(Jobs)
<1>1. Len(s) \in Nat /\ \A i \in 1..Len(s) : s[i] \in Jobs
  BY ElementOfSeq, LenProperties
<1>2. SubSeq(s, n + 1, Len(s)) \in Seq(Jobs)
  BY <1>1, SubSeqProperties
<1>3. n <= Len(s) => SubSeq(s, 1, n) \in Seq(Jobs)
  BY <1>1, SubSeqProperties
<1>4. QED
  BY <1>2, <1>3

\* A fresh turn.
LEMMA NewTurnType ==
  ASSUME NEW a \in BOOLEAN
  PROVE  NewTurn(a) \in ManifoldType /\ NewTurn(a).pc = "pop"
  BY Zenon DEF NewTurn, Turn, ManifoldType, ManifoldPcs, NoJob, Kinds, Jobs

\* On to the inbound lanes.
LEMMA ToInboundType ==
  ASSUME NEW s \in ManifoldType
  PROVE  ToInbound(s) \in ManifoldType /\ ToInbound(s).pc = "inbound"
  BY Zenon DEF ManifoldType, ToInbound, ManifoldPcs

\* The next lane, or the owed work after the last one.
LEMMA NextLaneType ==
  ASSUME NEW s \in ManifoldType
  PROVE  NextLane(s) \in ManifoldType /\ NextLane(s).pc \in {"inbound", "owed"}
<1>1. (s.progressed \/ s.n > 0) \in BOOLEAN
  OBVIOUS
<1>2. ToOwed(s) \in ManifoldType /\ ToOwed(s).pc = "owed"
  BY <1>1, Zenon DEF ToOwed, ManifoldPcs, ManifoldType
<1>3. ASSUME NEW x \in Nat, NEW t, t = [s EXCEPT !.pc = "inbound", !.lane = x, !.inLane = 0]
      PROVE  t \in ManifoldType /\ t.pc = "inbound"
  BY <1>3, Zenon DEF ManifoldPcs, ManifoldType
<1>4. s.lane + 1 \in Nat
  BY DEF ManifoldType
<1>5. CASE s.lane + 1 \in Lanes
  <2>1. NextLane(s) = [s EXCEPT !.pc = "inbound", !.lane = s.lane + 1, !.inLane = 0]
    BY <1>5 DEF NextLane
  <2>2. QED
    BY <1>3, <1>4, <2>1
<1>6. QED
  BY <1>2, <1>5 DEF NextLane

\* A step that moves the program counter and nothing else.
LEMMA GotoType ==
  ASSUME NEW s \in ManifoldType, NEW p \in ManifoldPcs
  PROVE  [s EXCEPT !.pc = p] \in ManifoldType /\ [s EXCEPT !.pc = p].pc = p
  BY DEF ManifoldType

\* Into the pop loop.
LEMMA ToPoppingType ==
  ASSUME NEW s \in ManifoldType
  PROVE  LET t == [s EXCEPT !.pc = "popping", !.progressed = TRUE]
         IN  t \in ManifoldType /\ t.pc = "popping"
  BY Zenon DEF ManifoldType, ManifoldPcs

\* Into push_scheduled_job with a job and the place to return to.
LEMMA ToPushType ==
  ASSUME NEW s \in ManifoldType, NEW k \in Kinds, NEW b \in {"inbound", "owed"}
  PROVE  LET t == [s EXCEPT !.pc = "push", !.push = k, !.back = b]
         IN  t \in ManifoldType /\ t.pc = "push"
  BY Zenon DEF ManifoldType, ManifoldPcs, Jobs

\* spawn_with_policy and a fresh event loop.
LEMMA PoolInvInit == PInit => PoolInv
<1> SUFFICES ASSUME PInit PROVE PoolInv
  OBVIOUS
<1>1. <<>> \in Seq(Jobs)
  OBVIOUS
<1>2. PoolTypes
  <2>1. Turn \in ManifoldType
    BY DEF Turn, ManifoldType, ManifoldPcs, NoJob, Kinds, Jobs
  <2>2. Idle \in WorkerType
    BY <1>1 DEF Idle, WorkerType, WorkerPcs, JobLanes
  <2>3. ring \in [Workers -> [JobLanes -> Seq(Jobs)]]
    <3>1. [l \in JobLanes |-> <<>>] \in [JobLanes -> Seq(Jobs)]
      BY <1>1
    <3>2. QED
      BY <3>1 DEF PInit
  <2>4. wk \in [Workers -> WorkerType]
    BY <1>1, <2>2 DEF PInit
  <2>5. comp \in [ready : Int, armed : BOOLEAN, permit : BOOLEAN]
    BY DEF PInit
  <2>6. QED
    BY <2>1, <2>3, <2>4, <2>5, Zenon DEF PInit, PoolTypes
<1>3. JobWake
  BY DEF PInit, JobWake, NoLostJob, Idle
<1>4. CompletionWake
  BY DEF PInit, CompletionWake, Turn
<1>5. QED
  BY <1>2, <1>3, <1>4 DEF PoolInv

\* A step that touches neither a worker nor a ring nor shared completions,
\* and does not leave push or unpark, keeps everything.
LEMMA PoolInvSame ==
  ASSUME PoolInv, UNCHANGED <<m, comp, wk, ring, shut>>
  PROVE  PoolInv'
  BY DEF PoolInv, PoolTypes, JobWake, NoLostJob, CompletionWake, Publishing

\* The steps of the manifold that concern only itself.
LEMMA PoolInvQuietManifold ==
  ASSUME PoolInv,
         \/ has_completion \/ CloseLane \/ Dispatch \/ arm
         \/ WakeOnCompletion \/ WakeOnSignal
         \/ \E k \in FrameJobs : ProcessFrame(k)
  PROVE  PoolInv'
<1> USE DEF PoolInv
<1>1. UNCHANGED <<wk, ring, shut>>
  BY DEF has_completion, CloseLane, Dispatch, arm, WakeOnCompletion, WakeOnSignal, ProcessFrame
<1>2. m' \in ManifoldType /\ m'.pc \in {"popping", "inbound", "push", "owed", "pop", "fetch_or", "select"}
      /\ (m'.pc = "select" => m.pc = "armed")
  <2>0. m \in ManifoldType /\ m.waitArmed \in BOOLEAN
    BY DEF PoolTypes, ManifoldType
  <2>1. CASE has_completion
    BY <2>0, <2>1, ToPoppingType, ToInboundType DEF has_completion
  <2>2. CASE CloseLane
    BY <2>0, <2>2, ToPushType, NextLaneType DEF CloseLane, Kinds
  <2>3. CASE Dispatch
    <3>1. NextOwed \in Kinds \/ NextOwed = NoJob
      BY DEF NextOwed, Kinds
    <3>2. \/ NextOwed # NoJob /\ m' = [m EXCEPT !.pc = "push", !.push = NextOwed, !.back = "owed"]
          \/ EndTurn(m.progressed \/ m.n > 0)
      BY <2>3 DEF Dispatch
    <3>3. CASE EndTurn(m.progressed \/ m.n > 0)
      <4>1. \/ m' = NewTurn(FALSE)
            \/ m' = NewTurn(m.waitArmed)
            \/ m' = [m EXCEPT !.pc = "fetch_or"]
        BY <3>3, Zenon DEF EndTurn
      <4>2. LET t == [m EXCEPT !.pc = "fetch_or"] IN t \in ManifoldType /\ t.pc = "fetch_or"
        BY <2>0, GotoType DEF ManifoldPcs
      <4>3. NewTurn(FALSE) \in ManifoldType /\ NewTurn(FALSE).pc = "pop"
        BY NewTurnType, Zenon
      <4>4. NewTurn(m.waitArmed) \in ManifoldType /\ NewTurn(m.waitArmed).pc = "pop"
        BY <2>0, NewTurnType
      <4>5. QED
        BY <4>1, <4>2, <4>3, <4>4, Zenon
    <3>4. CASE NextOwed # NoJob /\ m' = [m EXCEPT !.pc = "push", !.push = NextOwed, !.back = "owed"]
      BY <2>0, <3>1, <3>4, ToPushType
    <3>5. QED
      BY <3>2, <3>3, <3>4
  <2>4. CASE arm
    <3>1. LET t == [m EXCEPT !.pc = "select"] IN t \in ManifoldType /\ t.pc = "select"
      BY <2>0, GotoType DEF ManifoldPcs
    <3>2. NewTurn(TRUE) \in ManifoldType /\ NewTurn(TRUE).pc = "pop"
      BY NewTurnType, Zenon
    <3>3. QED
      BY <2>4, <3>1, <3>2, Zenon DEF arm
  <2>5. CASE WakeOnCompletion \/ WakeOnSignal
    BY <2>0, <2>5, NewTurnType, Zenon DEF WakeOnCompletion, WakeOnSignal
  <2>6. CASE \E k \in FrameJobs : ProcessFrame(k)
    <3>1. PICK k \in FrameJobs : ProcessFrame(k)
      BY <2>6
    <3> DEFINE x == m.n + 1
               y == m.inLane + 1
               z == IF k = "sign" THEN m.signs + 1 ELSE m.signs
    <3>2. x \in Nat /\ y \in Nat /\ z \in Nat
      BY <2>0 DEF ManifoldType
    <3>3. m' = [m EXCEPT !.n = x, !.inLane = y, !.signs = z] /\ m.pc = "inbound"
      BY <3>1 DEF ProcessFrame
    <3> HIDE DEF x, y, z
    <3>4. LET t == [m EXCEPT !.n = x, !.inLane = y, !.signs = z]
          IN  t \in ManifoldType /\ t.pc = m.pc
      BY <2>0, <3>2, Zenon DEF ManifoldType
    <3>5. QED
      BY <3>3, <3>4
  <2>7. QED
    BY <2>1, <2>2, <2>3, <2>4, <2>5, <2>6
<1>3. m.pc \notin {"push", "unpark", "shutdown", "join", "dropped", "fetch_and"}
  BY DEF has_completion, CloseLane, Dispatch, arm, WakeOnCompletion, WakeOnSignal, ProcessFrame
<1>4. \/ UNCHANGED comp
      \/ WakeOnCompletion /\ comp' = [comp EXCEPT !.permit = FALSE] /\ m'.pc = "pop"
  <2>1. CASE WakeOnCompletion
    BY <2>1, NewTurnType DEF WakeOnCompletion, PoolTypes, ManifoldType
  <2>2. QED
    BY <2>1 DEF has_completion, CloseLane, Dispatch, arm, WakeOnSignal, ProcessFrame
<1>5. comp' \in [ready : Int, armed : BOOLEAN, permit : BOOLEAN]
      /\ comp'.armed = comp.armed /\ comp'.ready = comp.ready
      /\ (m'.pc = "select" => comp'.permit = comp.permit)
  BY <1>4, Zenon DEF PoolTypes
<1>6. PoolTypes'
  BY <1>1, <1>2, <1>5 DEF PoolTypes
<1>7. JobWake'
  BY <1>1, <1>3 DEF JobWake, NoLostJob
<1>8. CompletionWake'
  BY <1>1, <1>2, <1>3, <1>5 DEF CompletionWake, Publishing
<1>9. QED
  BY <1>6, <1>7, <1>8

\* The submit: the ring it fills belongs to a worker it will wake.
LEMMA PoolInvPush ==
  ASSUME PoolInv, NEW w \in Workers, push_scheduled_job(w)
  PROVE  PoolInv'
<1> DEFINE l == scheduling_class(m.push)
           signs == Less(m.signs, 1)
           touched == m.touched \cup {w}
<1>1. m \in ManifoldType /\ m.pc = "push" /\ l \in JobLanes /\ m.push \in Jobs
  BY DEF PoolInv, PoolTypes, push_scheduled_job, scheduling_class, JobLanes, ManifoldType
<1>2. signs \in Nat /\ touched \in SUBSET Workers
  BY <1>1 DEF Less, ManifoldType
<1>3. LET s == [m EXCEPT !.touched = touched, !.signs = signs]
      IN  /\ s \in ManifoldType /\ s.touched = touched /\ s.pc = "push"
          /\ [s EXCEPT !.pc = "unpark"] \in ManifoldType
          /\ [s EXCEPT !.pc = "unpark"].touched = touched
          /\ [s EXCEPT !.pc = "unpark"].pc = "unpark"
          /\ m' = IF s.signs > 0 THEN s ELSE [s EXCEPT !.pc = "unpark"]
  <2>1. LET s == [m EXCEPT !.touched = touched, !.signs = signs]
        IN  m' = IF s.signs > 0 THEN s ELSE [s EXCEPT !.pc = "unpark"]
    BY DEF push_scheduled_job
  <2> HIDE DEF touched, signs
  <2>2. LET s == [m EXCEPT !.touched = touched, !.signs = signs]
        IN  s \in ManifoldType /\ s.touched = touched /\ s.pc = "push"
    BY <1>1, <1>2, Zenon DEF ManifoldType
  <2>3. LET s == [m EXCEPT !.touched = touched, !.signs = signs]
        IN  /\ [s EXCEPT !.pc = "unpark"] \in ManifoldType
            /\ [s EXCEPT !.pc = "unpark"].touched = touched
            /\ [s EXCEPT !.pc = "unpark"].pc = "unpark"
    BY <1>1, <1>2, Zenon DEF ManifoldType, ManifoldPcs
  <2>4. QED
    BY <2>1, <2>2, <2>3
<1>4. m' \in ManifoldType /\ m'.pc \in {"push", "unpark"} /\ m'.touched = m.touched \cup {w}
  BY <1>3
<1>5. ring \in [Workers -> [JobLanes -> Seq(Jobs)]]
  BY DEF PoolInv, PoolTypes
<1>6. ring' = [ring EXCEPT ![w][l] = Append(@, m.push)]
  BY DEF push_scheduled_job
<1>7. Append(ring[w][l], m.push) \in Seq(Jobs)
  BY <1>1, <1>5, AppendProperties
<1> HIDE DEF l
<1>8. ring' \in [Workers -> [JobLanes -> Seq(Jobs)]] /\ \A v \in Workers \ {w} : ring'[v] = ring[v]
  BY <1>1, <1>5, <1>6, <1>7
<1>9. UNCHANGED <<comp, shut, wk>>
  BY DEF push_scheduled_job
<1>10. PoolTypes'
  BY <1>4, <1>8, <1>9 DEF PoolInv, PoolTypes
<1>11. JobWake'
  <2>1. \A v \in Workers : wk[v].pc \in {"recheck", "parked"} => wk[v].arm \/ wk[v].token
    BY DEF PoolInv, JobWake
  <2>2. SUFFICES ASSUME NEW v \in Workers, wk[v].pc = "parked", ~wk[v].token,
                        \E i \in JobLanes : ring'[v][i] # <<>>
                 PROVE  v \in m'.touched /\ wk[v].arm
    BY <1>4, <1>9, <2>1 DEF JobWake, NoLostJob
  <2>3. wk[v].arm
    BY <2>1, <2>2
  <2>4. CASE v = w
    BY <1>4, <2>3, <2>4
  <2>5. CASE v # w
    BY <1>1, <1>4, <1>8, <2>2, <2>5, Zenon DEF PoolInv, JobWake, NoLostJob
  <2>6. QED
    BY <2>4, <2>5
<1>12. CompletionWake'
  BY <1>1, <1>4, <1>9 DEF PoolInv, CompletionWake, Publishing
<1>13. QED
  BY <1>10, <1>11, <1>12 DEF PoolInv

\* The wake of one touched worker: it loses its place in touched and, if it
\* was armed, has the token.
LEMMA PoolInvWake ==
  ASSUME PoolInv, NEW w \in Workers, wake_worker_if_armed(w)
  PROVE  PoolInv'
<1> DEFINE touched == m.touched \ {w}
           s == [m EXCEPT !.touched = touched]
<1>1. m \in ManifoldType /\ m.pc = "unpark" /\ touched \in SUBSET Workers
  BY DEF PoolInv, PoolTypes, wake_worker_if_armed, ManifoldType
<1>2. s \in ManifoldType /\ s.touched = touched /\ s.pc = "unpark"
  <2> HIDE DEF touched
  <2>1. QED
    BY <1>1 DEF ManifoldType
<1>3. m' = IF s.touched # {} THEN s
           ELSE IF s.back = "inbound" THEN NextLane([s EXCEPT !.push = NoJob])
           ELSE [s EXCEPT !.pc = "owed", !.push = NoJob, !.n = @ + 1]
  BY DEF wake_worker_if_armed
<1> HIDE DEF s
<1>4. NextLane([s EXCEPT !.push = NoJob]) \in ManifoldType
      /\ NextLane([s EXCEPT !.push = NoJob]).pc \in {"inbound", "owed"}
  <2>1. [s EXCEPT !.push = NoJob] \in ManifoldType
    BY <1>2 DEF ManifoldType, Jobs
  <2>2. QED
    BY <2>1, NextLaneType
<1>5. LET t == [s EXCEPT !.pc = "owed", !.push = NoJob, !.n = @ + 1]
      IN  t \in ManifoldType /\ t.pc = "owed"
  <2> DEFINE x == s.n + 1
  <2>1. x \in Nat
    BY <1>2 DEF ManifoldType
  <2>2. [s EXCEPT !.pc = "owed", !.push = NoJob, !.n = @ + 1]
          = [s EXCEPT !.pc = "owed", !.push = NoJob, !.n = x]
    OBVIOUS
  <2> HIDE DEF x
  <2>3. LET t == [s EXCEPT !.pc = "owed", !.push = NoJob, !.n = x]
        IN  t \in ManifoldType /\ t.pc = "owed"
    BY <1>2, <2>1, Zenon DEF ManifoldType, ManifoldPcs, Jobs
  <2>4. QED
    BY <2>2, <2>3
<1>6. m' \in ManifoldType /\ \/ m'.pc = "unpark" /\ m'.touched = touched
                             \/ m'.pc \in {"inbound", "owed"} /\ touched = {}
  BY <1>2, <1>3, <1>4, <1>5
<1>7. wk \in [Workers -> WorkerType]
  BY DEF PoolInv, PoolTypes
<1>8. wk' = [wk EXCEPT ![w] = [wk[w] EXCEPT !.arm = FALSE, !.token = wk[w].token \/ wk[w].arm]]
  BY <1>7, Zenon DEF wake_worker_if_armed
<1>9. LET r == [wk[w] EXCEPT !.arm = FALSE, !.token = wk[w].token \/ wk[w].arm]
      IN  /\ r \in WorkerType /\ r.pc = wk[w].pc
          /\ wk[w].arm \/ wk[w].token => r.token
  <2> DEFINE b == wk[w].token \/ wk[w].arm
  <2>1. wk[w] \in WorkerType /\ b \in BOOLEAN /\ (wk[w].arm \/ wk[w].token => b)
    BY <1>7
  <2> HIDE DEF b
  <2>2. LET r == [wk[w] EXCEPT !.arm = FALSE, !.token = b]
        IN  r \in WorkerType /\ r.pc = wk[w].pc /\ r.token = b
    BY <2>1, Zenon DEF WorkerType
  <2>3. QED
    BY <2>1, <2>2, Zenon DEF b
<1>10. /\ wk' \in [Workers -> WorkerType]
       /\ wk'[w].pc = wk[w].pc /\ (wk[w].arm \/ wk[w].token => wk'[w].token)
       /\ \A v \in Workers \ {w} : wk'[v] = wk[v]
  BY <1>7, <1>8, <1>9
<1>11. UNCHANGED <<comp, shut, ring>>
  BY DEF wake_worker_if_armed
<1>12. PoolTypes'
  BY <1>6, <1>10, <1>11 DEF PoolInv, PoolTypes
<1>13. JobWake'
  <2>1. SUFFICES ASSUME NEW v \in Workers
                 PROVE  /\ wk'[v].pc \in {"recheck", "parked"} => wk'[v].arm \/ wk'[v].token
                        /\ (wk'[v].pc = "parked" /\ \E l \in JobLanes : ring[v][l] # <<>>) =>
                             \/ wk'[v].token
                             \/ m'.pc \in {"push", "unpark"} /\ v \in m'.touched /\ wk'[v].arm
    BY <1>11 DEF JobWake, NoLostJob
  <2>2. CASE v = w
    BY <1>10, <2>2 DEF PoolInv, JobWake
  <2>3. CASE v # w
    BY <1>1, <1>6, <1>10, <2>3 DEF PoolInv, JobWake, NoLostJob
  <2>4. QED
    BY <2>2, <2>3
<1>14. CompletionWake'
  <2>1. \A v \in Workers : wk'[v].pc = wk[v].pc
    BY <1>10
  <2>2. QED
    BY <1>1, <1>6, <1>11, <2>1 DEF PoolInv, CompletionWake, Publishing
<1>15. QED
  BY <1>12, <1>13, <1>14 DEF PoolInv

\* Taking a result only lowers the ready count.
LEMMA PoolInvPop ==
  ASSUME PoolInv, pop_completion
  PROVE  PoolInv'
<1>1. m \in ManifoldType /\ m.pc = "popping" /\ UNCHANGED <<shut, ring, wk>>
  BY DEF PoolInv, PoolTypes, pop_completion
<1>2. comp \in [ready : Int, armed : BOOLEAN, permit : BOOLEAN]
  BY DEF PoolInv, PoolTypes
<1>3. /\ m' \in ManifoldType /\ m'.pc \in {"inbound", "popping"}
      /\ comp' \in [ready : Int, armed : BOOLEAN, permit : BOOLEAN]
      /\ comp'.ready <= comp.ready /\ comp'.armed = comp.armed /\ comp'.permit = comp.permit
  <2>1. CASE \A w \in Workers : results[w] = <<>>
    BY <1>1, <1>2, <2>1, ToInboundType DEF pop_completion
  <2>2. CASE ~\A w \in Workers : results[w] = <<>>
    <3> DEFINE x == m.n + 1
               y == comp.ready - 1
    <3>1. /\ comp' = [comp EXCEPT !.ready = y]
          /\ m' = IF x = CompletionBatch THEN ToInbound(m) ELSE [m EXCEPT !.n = x]
      BY <2>2 DEF pop_completion, Release
    <3>2. x \in Nat /\ y \in Int /\ y <= comp.ready
      BY <1>1, <1>2 DEF ManifoldType
    <3> HIDE DEF x, y
    <3>3. [m EXCEPT !.n = x] \in ManifoldType /\ [m EXCEPT !.n = x].pc = "popping"
      BY <1>1, <3>2 DEF ManifoldType
    <3>4. m' \in ManifoldType /\ m'.pc \in {"inbound", "popping"}
      BY <1>1, <3>1, <3>3, ToInboundType
    <3>5. comp' \in [ready : Int, armed : BOOLEAN, permit : BOOLEAN]
          /\ comp'.ready <= comp.ready /\ comp'.armed = comp.armed /\ comp'.permit = comp.permit
      BY <1>2, <3>1, <3>2
    <3>6. QED
      BY <3>4, <3>5
  <2>3. QED
    BY <2>1, <2>2
<1>4. PoolTypes'
  BY <1>1, <1>3 DEF PoolInv, PoolTypes
<1>5. JobWake'
  BY <1>1 DEF PoolInv, JobWake, NoLostJob
<1>6. CompletionWake'
  BY <1>1, <1>2, <1>3 DEF PoolInv, CompletionWake, Publishing
<1>7. QED
  BY <1>4, <1>5, <1>6 DEF PoolInv

\* prepare_wait: armed beside a nonzero count only on the way to disarm.
LEMMA PoolInvPrepareWait ==
  ASSUME PoolInv, prepare_wait
  PROVE  PoolInv'
<1>1. /\ m \in ManifoldType /\ m.waitArmed \in BOOLEAN
      /\ comp \in [ready : Int, armed : BOOLEAN, permit : BOOLEAN]
  BY DEF PoolInv, PoolTypes, ManifoldType
<1>2. UNCHANGED <<shut, ring, wk>> /\ m.pc \in {"fetch_or", "fetch_and"}
  BY DEF prepare_wait
<1>3. /\ m' \in ManifoldType
      /\ comp' \in [ready : Int, armed : BOOLEAN, permit : BOOLEAN]
      /\ \/ m'.pc = "armed" /\ comp'.armed /\ comp'.ready = 0
         \/ m'.pc = "fetch_and"
         \/ m'.pc = "pop" /\ ~comp'.armed
  <2>1. CASE m.pc = "fetch_or"
    <3>1. comp' = [comp EXCEPT !.armed = TRUE]
          /\ m' = [m EXCEPT !.pc = IF comp.ready = 0 THEN "armed" ELSE "fetch_and"]
      BY <2>1 DEF prepare_wait
    <3>2. comp' \in [ready : Int, armed : BOOLEAN, permit : BOOLEAN]
          /\ comp'.armed /\ comp'.ready = comp.ready
      BY <1>1, <3>1, Zenon
    <3>3. LET t == [m EXCEPT !.pc = "armed"] IN t \in ManifoldType /\ t.pc = "armed"
      BY <1>1, GotoType DEF ManifoldPcs
    <3>4. LET t == [m EXCEPT !.pc = "fetch_and"] IN t \in ManifoldType /\ t.pc = "fetch_and"
      BY <1>1, GotoType DEF ManifoldPcs
    <3>5. CASE comp.ready = 0
      BY <3>1, <3>2, <3>3, <3>5
    <3>6. CASE comp.ready # 0
      BY <3>1, <3>2, <3>4, <3>6
    <3>7. QED
      BY <3>5, <3>6
  <2>2. CASE m.pc = "fetch_and"
    BY <1>1, <2>2, NewTurnType, Zenon DEF prepare_wait
  <2>3. QED
    BY <1>2, <2>1, <2>2
<1>4. PoolTypes'
  BY <1>2, <1>3 DEF PoolInv, PoolTypes
<1>5. JobWake'
  BY <1>2 DEF PoolInv, JobWake, NoLostJob
<1>6. CompletionWake'
  BY <1>2, <1>3 DEF PoolInv, CompletionWake, Publishing
<1>7. QED
  BY <1>4, <1>5, <1>6 DEF PoolInv

\* Drop: shutdown before the tokens.
LEMMA PoolInvDrop ==
  ASSUME PoolInv, drop
  PROVE  PoolInv'
<1>1. /\ m \in ManifoldType /\ wk \in [Workers -> WorkerType]
      /\ comp \in [ready : Int, armed : BOOLEAN, permit : BOOLEAN]
  BY DEF PoolInv, PoolTypes
<1>2. UNCHANGED ring /\ m.pc \in {"select", "shutdown", "join"}
  BY DEF drop
<1>3. m' \in ManifoldType /\ m'.pc \in {"shutdown", "join", "dropped"}
  <2>1. \E p \in {"shutdown", "join", "dropped"} : m' = [m EXCEPT !.pc = p]
    BY DEF drop
  <2>2. PICK p \in {"shutdown", "join", "dropped"} : m' = [m EXCEPT !.pc = p]
    BY <2>1
  <2>3. p \in ManifoldPcs
    BY DEF ManifoldPcs
  <2>4. QED
    BY <1>1, <2>2, <2>3, GotoType
<1>4. comp' \in [ready : Int, armed : BOOLEAN, permit : BOOLEAN]
  <2>1. comp' = comp \/ comp' = [comp EXCEPT !.ready = 0, !.armed = FALSE]
    BY DEF drop
  <2>2. ASSUME NEW c \in [ready : Int, armed : BOOLEAN, permit : BOOLEAN], NEW n \in Int, NEW b \in BOOLEAN
        PROVE  [c EXCEPT !.ready = n, !.armed = b] \in [ready : Int, armed : BOOLEAN, permit : BOOLEAN]
    BY Zenon
  <2>3. CASE comp' = [comp EXCEPT !.ready = 0, !.armed = FALSE]
    <3>1. 0 \in Int /\ FALSE \in BOOLEAN
      OBVIOUS
    <3>2. [comp EXCEPT !.ready = 0, !.armed = FALSE] \in [ready : Int, armed : BOOLEAN, permit : BOOLEAN]
      BY <1>1, <2>2, <3>1
    <3>3. QED
      BY <2>3, <3>2
  <2>4. QED
    BY <1>1, <2>1, <2>3
<1>5. shut' \in BOOLEAN /\ (m.pc = "select" => shut') /\ (shut => shut')
      /\ (m.pc # "select" => shut' = shut)
  BY Zenon DEF PoolInv, PoolTypes, drop
<1>6. wk' \in [Workers -> WorkerType]
      /\ \A w \in Workers : wk'[w] = wk[w] \/ wk'[w].token
  <2>1. CASE UNCHANGED wk
    BY <1>1, <2>1
  <2>2. CASE wk' = [w \in Workers |-> [wk[w] EXCEPT !.token = TRUE]]
    <3>1. \A w \in Workers : [wk[w] EXCEPT !.token = TRUE] \in WorkerType
                             /\ [wk[w] EXCEPT !.token = TRUE].token
      BY <1>1, Zenon DEF WorkerType
    <3>2. QED
      BY <2>2, <3>1, Zenon
  <2>3. QED
    BY <2>1, <2>2 DEF drop
<1>7. shut'
  BY <1>2, <1>5 DEF PoolInv, CompletionWake
<1>8. PoolTypes'
  BY <1>3, <1>4, <1>2, <1>5, <1>6 DEF PoolInv, PoolTypes
<1>9. JobWake'
  BY <1>2, <1>6 DEF PoolInv, JobWake, NoLostJob
<1>10. CompletionWake'
  BY <1>3, <1>7 DEF CompletionWake
<1>11. QED
  BY <1>8, <1>9, <1>10 DEF PoolInv

\* A worker's step, from what it does to its own record: parked only beside
\* empty rings, armed or with its token; out of publishing only when the bit
\* is no longer set.
LEMMA PoolInvWorker ==
  ASSUME PoolInv, NEW w \in Workers, UNCHANGED <<m, shut>>,
         wk' = [wk EXCEPT ![w] = wk'[w]], wk'[w] \in WorkerType,
         ring' \in [Workers -> [JobLanes -> Seq(Jobs)]],
         \A v \in Workers \ {w} : ring'[v] = ring[v],
         comp' \in [ready : Int, armed : BOOLEAN, permit : BOOLEAN],
         comp'.armed => comp.armed,
         comp.armed => comp'.armed \/ comp'.permit, comp.permit => comp'.permit,
         wk'[w].pc \in {"recheck", "parked"} => wk'[w].arm \/ wk'[w].token,
         wk'[w].pc = "parked" => \A l \in JobLanes : ring'[w][l] = <<>>,
         ~shut /\ comp'.armed =>
           \/ Publishing(w)'
           \/ ~Publishing(w) /\ comp'.ready = comp.ready
  PROVE  PoolInv'
<1>1. wk \in [Workers -> WorkerType]
  BY DEF PoolInv, PoolTypes
<1>2. wk' \in [Workers -> WorkerType] /\ \A v \in Workers \ {w} : wk'[v] = wk[v]
  BY <1>1, Zenon
<1>3. PoolTypes'
  BY <1>2 DEF PoolInv, PoolTypes
<1>4. JobWake'
  <2>1. SUFFICES ASSUME NEW v \in Workers
                 PROVE  /\ wk'[v].pc \in {"recheck", "parked"} => wk'[v].arm \/ wk'[v].token
                        /\ (wk'[v].pc = "parked" /\ \E l \in JobLanes : ring'[v][l] # <<>>) =>
                             \/ wk'[v].token
                             \/ m'.pc \in {"push", "unpark"} /\ v \in m'.touched /\ wk'[v].arm
    BY DEF JobWake, NoLostJob
  <2>2. CASE v = w
    BY <2>2
  <2>3. CASE v # w
    <3>1. wk'[v] = wk[v] /\ ring'[v] = ring[v] /\ m' = m
      BY <1>2, <2>3
    <3>2. /\ wk[v].pc \in {"recheck", "parked"} => wk[v].arm \/ wk[v].token
          /\ (wk[v].pc = "parked" /\ \E l \in JobLanes : ring[v][l] # <<>>) =>
               \/ wk[v].token
               \/ m.pc \in {"push", "unpark"} /\ v \in m.touched /\ wk[v].arm
      BY DEF PoolInv, JobWake, NoLostJob
    <3>3. QED
      BY <3>1, <3>2
  <2>4. QED
    BY <2>2, <2>3
<1>5. CompletionWake'
  <2>1. (shut <=> m.pc \in {"shutdown", "join", "dropped"})'
        /\ (m.pc \in {"armed", "select"} => comp.armed \/ comp.permit)'
    BY DEF PoolInv, CompletionWake
  <2>2. ASSUME ~shut, comp'.armed, comp'.ready > 0, m.pc # "fetch_and"
        PROVE  \E v \in Workers : Publishing(v)'
    <3>1. CASE Publishing(w)'
      BY <3>1
    <3>2. CASE ~Publishing(w) /\ comp'.ready = comp.ready
      <4>1. PICK v \in Workers : Publishing(v)
        BY <2>2, <3>2 DEF PoolInv, CompletionWake
      <4>2. QED
        BY <1>2, <3>2, <4>1 DEF Publishing
    <3>3. QED
      BY <2>2, <3>1, <3>2
  <2>3. QED
    BY <2>1, <2>2 DEF CompletionWake
<1>6. QED
  BY <1>3, <1>4, <1>5 DEF PoolInv

\* The steps of a worker, each through the lemma above.
LEMMA PoolInvWorkerSteps ==
  ASSUME PoolInv, NEW w \in Workers, Worker(w)
  PROVE  PoolInv'
<1>1. /\ wk \in [Workers -> WorkerType] /\ wk[w] \in WorkerType
      /\ comp \in [ready : Int, armed : BOOLEAN, permit : BOOLEAN]
      /\ ring \in [Workers -> [JobLanes -> Seq(Jobs)]]
      /\ (wk[w].pc \in {"recheck", "parked"} => wk[w].arm \/ wk[w].token)
  BY DEF PoolInv, PoolTypes, JobWake
<1>2. UNCHANGED <<m, shut>>
  BY DEF Worker, crypto_worker, Park, run_worker_jobs, publish_crypto_results,
         notify_if_armed, WorkerLocal
<1>3. CASE crypto_worker(w)
  <2>1. UNCHANGED comp /\ ~Publishing(w)
    BY <1>3 DEF crypto_worker, Publishing
  <2>2. CASE ring' = ring /\ \E p \in {"exit", "arm"} : wk' = [wk EXCEPT ![w].pc = p]
    <3>1. PICK p \in {"exit", "arm"} : wk' = [wk EXCEPT ![w].pc = p]
      BY <2>2, Zenon
    <3>2. LET r == [wk[w] EXCEPT !.pc = p]
          IN  r \in WorkerType /\ r.pc = p /\ wk' = [wk EXCEPT ![w] = r]
      BY <1>1, <3>1, Zenon DEF WorkerType, WorkerPcs
    <3>3. wk' = [wk EXCEPT ![w] = wk'[w]] /\ wk'[w] \in WorkerType /\ wk'[w].pc = p
      BY <1>1, <3>2
    <3>4. QED
      BY <1>1, <1>2, <2>1, <2>2, <3>3, PoolInvWorker, Zenon
  <2>3. CASE \E l \in JobLanes, n \in Nat :
               /\ n <= Len(ring[w][l])
               /\ wk' = [wk EXCEPT ![w].pc = "run", ![w].held = n, ![w].lane = l,
                                   ![w].chunk = SubSeq(ring[w][l], 1, n)]
               /\ ring' = [ring EXCEPT ![w][l] = SubSeq(@, n + 1, Len(@))]
    <3>1. PICK l \in JobLanes, n \in Nat :
               /\ n <= Len(ring[w][l])
               /\ wk' = [wk EXCEPT ![w].pc = "run", ![w].held = n, ![w].lane = l,
                                   ![w].chunk = SubSeq(ring[w][l], 1, n)]
               /\ ring' = [ring EXCEPT ![w][l] = SubSeq(@, n + 1, Len(@))]
      BY <2>3
    <3> DEFINE c == SubSeq(ring[w][l], 1, n)
               rest == SubSeq(ring[w][l], n + 1, Len(ring[w][l]))
    <3>2. c \in Seq(Jobs) /\ rest \in Seq(Jobs)
      BY <1>1, <3>1, CutTypes
    <3>3. /\ wk' = [wk EXCEPT ![w] = [wk[w] EXCEPT !.pc = "run", !.held = n, !.lane = l, !.chunk = c]]
          /\ ring' = [ring EXCEPT ![w][l] = rest]
      <4>1. ring' = [ring EXCEPT ![w][l] = rest]
        BY <3>1
      <4>2. wk' = [wk EXCEPT ![w].pc = "run", ![w].held = n, ![w].lane = l, ![w].chunk = c]
        BY <3>1
      <4> HIDE DEF c, rest
      <4>3. wk' = [wk EXCEPT ![w] = [wk[w] EXCEPT !.pc = "run", !.held = n, !.lane = l, !.chunk = c]]
        BY <1>1, <4>2, Zenon
      <4>4. QED
        BY <4>1, <4>3
    <3> HIDE DEF c, rest
    <3>4. LET r == [wk[w] EXCEPT !.pc = "run", !.held = n, !.lane = l, !.chunk = c]
          IN  r \in WorkerType /\ r.pc = "run"
      <4>1. n \in Int /\ "run" \in WorkerPcs
        BY DEF WorkerPcs
      <4>2. QED
        BY <1>1, <3>2, <4>1, Zenon DEF WorkerType
    <3>5. wk' = [wk EXCEPT ![w] = wk'[w]] /\ wk'[w] \in WorkerType /\ wk'[w].pc = "run"
      BY <1>1, <3>3, <3>4
    <3>6. ring' \in [Workers -> [JobLanes -> Seq(Jobs)]] /\ \A v \in Workers \ {w} : ring'[v] = ring[v]
      BY <1>1, <3>2, <3>3
    <3>7. QED
      BY <1>1, <1>2, <2>1, <3>5, <3>6, PoolInvWorker, Zenon
  <2>4. QED
    <3>1. CASE \E l \in JobLanes :
             /\ ring[w][l] # <<>>
             /\ LET limit == IF l = "bulk" THEN 1 ELSE Batch
                    n == IF Len(ring[w][l]) < limit THEN Len(ring[w][l]) ELSE limit
                IN  /\ wk' = [wk EXCEPT ![w].pc = "run", ![w].held = n, ![w].lane = l,
                                        ![w].chunk = SubSeq(ring[w][l], 1, n)]
                    /\ ring' = [ring EXCEPT ![w][l] = SubSeq(@, n + 1, Len(@))]
      <4>1. PICK l \in JobLanes :
             LET limit == IF l = "bulk" THEN 1 ELSE Batch
                 n == IF Len(ring[w][l]) < limit THEN Len(ring[w][l]) ELSE limit
             IN  /\ wk' = [wk EXCEPT ![w].pc = "run", ![w].held = n, ![w].lane = l,
                                     ![w].chunk = SubSeq(ring[w][l], 1, n)]
                 /\ ring' = [ring EXCEPT ![w][l] = SubSeq(@, n + 1, Len(@))]
        BY <3>1
      <4> DEFINE limit == IF l = "bulk" THEN 1 ELSE Batch
                 n == IF Len(ring[w][l]) < limit THEN Len(ring[w][l]) ELSE limit
      <4>2. limit \in Nat /\ Len(ring[w][l]) \in Nat
        BY <1>1, PoolConstants, LenProperties
      <4>3. n \in Nat /\ n <= Len(ring[w][l])
        <5> HIDE DEF limit
        <5>1. QED
          BY <4>2
      <4>4. /\ wk' = [wk EXCEPT ![w].pc = "run", ![w].held = n, ![w].lane = l,
                                ![w].chunk = SubSeq(ring[w][l], 1, n)]
            /\ ring' = [ring EXCEPT ![w][l] = SubSeq(@, n + 1, Len(@))]
        BY <4>1
      <4> HIDE DEF n, limit
      <4>5. QED
        BY <2>3, <4>3, <4>4
    <3>2. QED
      BY <1>3, <2>2, <3>1 DEF crypto_worker
<1>4. CASE Park(w)
  <2>1. UNCHANGED <<comp, ring>> /\ ~Publishing(w)
    BY <1>4 DEF Park, Publishing
  <2>2. /\ wk' = [wk EXCEPT ![w] = wk'[w]] /\ wk'[w] \in WorkerType
        /\ wk'[w].pc \in {"recheck", "parked"} => wk'[w].arm \/ wk'[w].token
        /\ wk'[w].pc = "parked" => \A l \in JobLanes : ring[w][l] = <<>>
    <3>1. CASE wk[w].pc = "arm"
      <4>1. wk' = [wk EXCEPT ![w] = [wk[w] EXCEPT !.pc = "recheck", !.arm = TRUE]]
        BY <1>1, <1>4, <3>1, Zenon DEF Park
      <4>2. LET r == [wk[w] EXCEPT !.pc = "recheck", !.arm = TRUE]
            IN  r \in WorkerType /\ r.pc = "recheck" /\ r.arm
        BY <1>1, Zenon DEF WorkerType, WorkerPcs
      <4>3. QED
        BY <1>1, <4>1, <4>2
    <3>2. CASE wk[w].pc = "recheck"
      <4>1. \E p \in {"top", "parked"} :
              /\ wk' = [wk EXCEPT ![w] = [wk[w] EXCEPT !.pc = p]]
              /\ p = "parked" => \A l \in JobLanes : ring[w][l] = <<>>
        BY <1>1, <1>4, <3>2 DEF Park
      <4>2. PICK p \in {"top", "parked"} :
              /\ wk' = [wk EXCEPT ![w] = [wk[w] EXCEPT !.pc = p]]
              /\ p = "parked" => \A l \in JobLanes : ring[w][l] = <<>>
        BY <4>1, Zenon
      <4>3. LET r == [wk[w] EXCEPT !.pc = p]
            IN  r \in WorkerType /\ r.pc = p /\ r.arm = wk[w].arm /\ r.token = wk[w].token
        BY <1>1, Zenon DEF WorkerType, WorkerPcs
      <4>4. QED
        BY <1>1, <3>2, <4>2, <4>3
    <3>3. CASE wk[w].pc = "parked"
      <4>1. wk' = [wk EXCEPT ![w] = [wk[w] EXCEPT !.pc = "top", !.token = FALSE]]
        BY <1>1, <1>4, <3>3, Zenon DEF Park
      <4>2. LET r == [wk[w] EXCEPT !.pc = "top", !.token = FALSE]
            IN  r \in WorkerType /\ r.pc = "top"
        BY <1>1, Zenon DEF WorkerType, WorkerPcs
      <4>3. QED
        BY <1>1, <4>1, <4>2
    <3>4. QED
      BY <1>4, <3>1, <3>2, <3>3 DEF Park
  <2>3. QED
    BY <1>1, <1>2, <2>1, <2>2, PoolInvWorker, Zenon
<1>5. CASE run_worker_jobs(w)
  <2>1. UNCHANGED ring /\ ~Publishing(w)
    BY <1>5 DEF run_worker_jobs, Publishing
  <2>2. CASE wk[w].chunk = <<>>
    <3>1. UNCHANGED comp /\ wk' = [wk EXCEPT ![w] = [wk[w] EXCEPT !.pc = "top", !.held = 0]]
      BY <1>1, <1>5, <2>2, Zenon DEF run_worker_jobs
    <3>2. LET r == [wk[w] EXCEPT !.pc = "top", !.held = 0]
          IN  r \in WorkerType /\ r.pc = "top"
      <4>1. ASSUME NEW n \in Int, NEW p \in WorkerPcs
            PROVE  LET r == [wk[w] EXCEPT !.pc = p, !.held = n] IN r \in WorkerType /\ r.pc = p
        BY <1>1, Zenon DEF WorkerType
      <4>2. 0 \in Int /\ "top" \in WorkerPcs
        BY DEF WorkerPcs
      <4>3. QED
        BY <4>1, <4>2
    <3>3. wk' = [wk EXCEPT ![w] = wk'[w]] /\ wk'[w] \in WorkerType /\ wk'[w].pc = "top"
      BY <1>1, <3>1, <3>2
    <3>4. QED
      BY <1>1, <1>2, <2>1, <3>1, <3>3, PoolInvWorker, Zenon
  <2>3. CASE wk[w].chunk # <<>>
    <3> DEFINE n == RunLength(wk[w].chunk)
               o == SubSeq(wk[w].chunk, 1, n)
               c == SubSeq(wk[w].chunk, n + 1, Len(wk[w].chunk))
               x == comp.ready + n
    <3>0. wk[w].chunk \in Seq(Jobs)
      BY <1>1 DEF WorkerType
    <3>1. n \in Nat /\ n <= Len(wk[w].chunk)
      BY <2>3, <3>0, RunLengthType
    <3>2. o \in Seq(Jobs) /\ c \in Seq(Jobs) /\ x \in Int
      <4> HIDE DEF n
      <4>1. QED
        BY <1>1, <3>0, <3>1, CutTypes
    <3>3. /\ comp' = [comp EXCEPT !.ready = x]
          /\ wk' = [wk EXCEPT ![w].pc = "publish", ![w].out = o, ![w].chunk = c]
      BY <1>5, <2>3 DEF run_worker_jobs
    <3> HIDE DEF n, o, c, x
    <3>4. wk' = [wk EXCEPT ![w] = [wk[w] EXCEPT !.pc = "publish", !.out = o, !.chunk = c]]
      BY <1>1, <3>3, Zenon
    <3>5. LET r == [wk[w] EXCEPT !.pc = "publish", !.out = o, !.chunk = c]
          IN  r \in WorkerType /\ r.pc = "publish"
      BY <1>1, <3>2, Zenon DEF WorkerType, WorkerPcs
    <3>6. wk' = [wk EXCEPT ![w] = wk'[w]] /\ wk'[w] \in WorkerType /\ wk'[w].pc = "publish"
      BY <1>1, <3>4, <3>5
    <3>7. /\ comp' \in [ready : Int, armed : BOOLEAN, permit : BOOLEAN]
          /\ comp'.armed = comp.armed /\ comp'.permit = comp.permit
      BY <1>1, <3>2, <3>3, Zenon
    <3>8. Publishing(w)'
      BY <3>6 DEF Publishing
    <3>9. QED
      BY <1>1, <1>2, <2>1, <3>6, <3>7, <3>8, PoolInvWorker, Zenon
  <2>4. QED
    BY <2>2, <2>3
<1>6. CASE publish_crypto_results(w)
  <2>1. UNCHANGED ring /\ wk[w].pc = "publish"
    BY <1>6 DEF publish_crypto_results
  <2>2. CASE shut
    <3> DEFINE x == comp.ready - Len(wk[w].out)
    <3>1. x \in Int
      <4>1. Len(wk[w].out) \in Nat
        BY <1>1, LenProperties DEF WorkerType
      <4>2. QED
        BY <1>1, <4>1
    <3>2. /\ comp' = [comp EXCEPT !.ready = x]
          /\ wk' = [wk EXCEPT ![w] = [wk[w] EXCEPT !.pc = "exit", !.out = <<>>]]
      BY <1>1, <1>6, <2>2, Zenon DEF publish_crypto_results, Release
    <3> HIDE DEF x
    <3>3. LET r == [wk[w] EXCEPT !.pc = "exit", !.out = <<>>]
          IN  r \in WorkerType /\ r.pc = "exit"
      <4>1. <<>> \in Seq(Jobs) /\ "exit" \in WorkerPcs
        BY DEF WorkerPcs
      <4>2. ASSUME NEW o \in Seq(Jobs), NEW p \in WorkerPcs
            PROVE  LET r == [wk[w] EXCEPT !.pc = p, !.out = o] IN r \in WorkerType /\ r.pc = p
        BY <1>1, Zenon DEF WorkerType
      <4>3. QED
        BY <4>1, <4>2
    <3>4. wk' = [wk EXCEPT ![w] = wk'[w]] /\ wk'[w] \in WorkerType /\ wk'[w].pc = "exit"
      BY <1>1, <3>2, <3>3
    <3>5. /\ comp' \in [ready : Int, armed : BOOLEAN, permit : BOOLEAN]
          /\ comp'.armed = comp.armed /\ comp'.permit = comp.permit
      BY <1>1, <3>1, <3>2
    <3>6. QED
      BY <1>1, <1>2, <2>1, <2>2, <3>4, <3>5, PoolInvWorker, Zenon
  <2>3. CASE ~shut
    <3>1. PICK o \in {<<>>, wk[w].out} :
               wk' = [wk EXCEPT ![w] = [wk[w] EXCEPT !.pc = "notify", !.out = o]]
      <4>1. CASE wk' = [wk EXCEPT ![w].pc = "notify", ![w].out = <<>>]
        BY <1>1, <4>1, Zenon
      <4>2. CASE wk' = [wk EXCEPT ![w].pc = "notify"]
        <5>1. wk' = [wk EXCEPT ![w] = [wk[w] EXCEPT !.pc = "notify", !.out = wk[w].out]]
          BY <1>1, <4>2, Zenon DEF WorkerType
        <5>2. QED
          BY <5>1
      <4>3. QED
        BY <1>6, <2>3, <4>1, <4>2, Zenon DEF publish_crypto_results
    <3>2. UNCHANGED comp
      BY <1>6, <2>3, Zenon DEF publish_crypto_results
    <3>3. LET r == [wk[w] EXCEPT !.pc = "notify", !.out = o]
          IN  r \in WorkerType /\ r.pc = "notify"
      <4>1. o \in Seq(Jobs)
        <5>1. wk[w].out \in Seq(Jobs) /\ <<>> \in Seq(Jobs)
          BY <1>1 DEF WorkerType
        <5>2. QED
          BY <5>1, Zenon
      <4>2. QED
        BY <1>1, <4>1, Zenon DEF WorkerType, WorkerPcs
    <3>4. wk' = [wk EXCEPT ![w] = wk'[w]] /\ wk'[w] \in WorkerType /\ wk'[w].pc = "notify"
      BY <1>1, <3>1, <3>3
    <3>5. Publishing(w)'
      BY <3>4 DEF Publishing
    <3>6. QED
      BY <1>1, <1>2, <2>1, <3>2, <3>4, <3>5, PoolInvWorker, Zenon
  <2>4. QED
    BY <2>2, <2>3
<1>7. CASE notify_if_armed(w)
  <2>1. UNCHANGED ring /\ AfterNotify(w) \in {"run", "publish"}
    BY <1>7 DEF notify_if_armed, AfterNotify
  <2>2. ASSUME NEW p \in {"take", "run", "publish"}, wk' = [wk EXCEPT ![w].pc = p]
        PROVE  wk' = [wk EXCEPT ![w] = wk'[w]] /\ wk'[w] \in WorkerType /\ wk'[w].pc = p
    <3>1. LET r == [wk[w] EXCEPT !.pc = p]
          IN  r \in WorkerType /\ r.pc = p /\ wk' = [wk EXCEPT ![w] = r]
      BY <1>1, <2>2, Zenon DEF WorkerType, WorkerPcs
    <3>2. QED
      BY <1>1, <3>1
  <2>3. CASE wk[w].pc = "notify"
    <3>1. UNCHANGED comp
      BY <1>7, <2>3 DEF notify_if_armed
    <3>2. CASE comp.armed
      <4>1. wk' = [wk EXCEPT ![w] = wk'[w]] /\ wk'[w] \in WorkerType /\ wk'[w].pc = "take"
        BY <1>7, <2>2, <2>3, <3>2 DEF notify_if_armed
      <4>2. Publishing(w)'
        BY <4>1 DEF Publishing
      <4>3. QED
        BY <1>1, <1>2, <2>1, <3>1, <4>1, <4>2, PoolInvWorker, Zenon
    <3>3. CASE ~comp.armed
      <4>1. /\ wk' = [wk EXCEPT ![w] = wk'[w]] /\ wk'[w] \in WorkerType
            /\ wk'[w].pc \in {"run", "publish"}
        BY <1>7, <2>1, <2>2, <2>3, <3>3 DEF notify_if_armed
      <4>2. QED
        BY <1>1, <1>2, <2>1, <3>1, <3>3, <4>1, PoolInvWorker, Zenon
    <3>4. QED
      BY <3>2, <3>3
  <2>4. CASE wk[w].pc = "take"
    <3>1. /\ wk' = [wk EXCEPT ![w] = wk'[w]] /\ wk'[w] \in WorkerType
          /\ wk'[w].pc \in {"run", "publish"}
      BY <1>7, <2>1, <2>2, <2>4 DEF notify_if_armed
    <3> DEFINE b == comp.permit \/ comp.armed
    <3>2. b \in BOOLEAN /\ (comp.armed => b) /\ (comp.permit => b)
      OBVIOUS
    <3>3. comp' = [comp EXCEPT !.armed = FALSE, !.permit = b]
      BY <1>7, <2>4 DEF notify_if_armed
    <3> HIDE DEF b
    <3>4. /\ comp' \in [ready : Int, armed : BOOLEAN, permit : BOOLEAN]
          /\ ~comp'.armed /\ comp'.permit = b
      BY <1>1, <3>2, <3>3, Zenon
    <3>5. QED
      BY <1>1, <1>2, <2>1, <3>1, <3>2, <3>4, PoolInvWorker, Zenon
  <2>5. QED
    BY <1>7, <2>3, <2>4 DEF notify_if_armed
<1>8. QED
  BY <1>3, <1>4, <1>5, <1>6, <1>7 DEF Worker

\* What an interface task does is invisible to both protocols.
LEMMA PoolInvNext ==
  ASSUME PoolInv, [PNext]_poolVars
  PROVE  PoolInv'
<1>1. CASE Manifold
  BY <1>1, PoolInvQuietManifold, PoolInvPush, PoolInvWake, PoolInvPop, PoolInvPrepareWait,
     PoolInvDrop DEF Manifold
<1>2. CASE \E w \in Workers : Worker(w)
  BY <1>2, PoolInvWorkerSteps
<1>3. CASE (\E l \in Lanes : commit_inbound(l) \/ signal(l)) \/ drop_senders
  <2>1. UNCHANGED <<m, comp, wk, ring, shut>>
    BY <1>3 DEF commit_inbound, signal, drop_senders
  <2>2. QED
    BY <2>1, PoolInvSame
<1>4. CASE UNCHANGED poolVars
  BY <1>4, PoolInvSame DEF poolVars
<1>5. QED
  BY <1>1, <1>2, <1>3, <1>4 DEF PNext

\* With any number of workers, of any role, behind rings of any size and
\* under any traffic, the manifold does not sleep through a completion
\* (prepare_wait against notify_if_armed) and no worker parks on a job
\* (wake_worker_if_armed against the recheck before park).
THEOREM NobodySleepsThrough == PSpec => []NoLostWake
<1>1. PoolInv => NoLostWake
  <2>1. SUFFICES ASSUME PoolInv PROVE NoLostCompletion
    BY DEF PoolInv, JobWake, NoLostWake
  <2>2. SUFFICES ASSUME m.pc = "select"
                 PROVE  /\ comp.armed \/ comp.permit
                        /\ comp.ready > 0 => comp.permit \/ \E w \in Workers : Publishing(w)
    BY DEF NoLostCompletion
  <2>3. ~shut /\ (comp.armed \/ comp.permit)
    BY <2>1, <2>2 DEF PoolInv, CompletionWake
  <2>4. comp.armed /\ comp.ready > 0 => \E w \in Workers : Publishing(w)
    BY <2>1, <2>2, <2>3 DEF PoolInv, CompletionWake
  <2>5. QED
    BY <2>3, <2>4
<1>2. QED
  BY <1>1, PoolInvInit, PoolInvNext, PTL DEF PSpec
===========================================================================
