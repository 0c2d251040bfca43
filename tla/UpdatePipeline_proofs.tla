----------------------- MODULE UpdatePipeline_proofs -----------------------
(***************************************************************************)
(* For any number of updates, workers and tasks, and any sizes of batch    *)
(* and queue: no handler runs on storage that is being closed, a shutdown  *)
(* that returns has drained what it answered for, what the server has      *)
(* forgotten is accounted for, and polled updates begin in order.          *)
(*                                                                         *)
(* The inductive invariant has two parts, and a third, Ordered, for the    *)
(* order of polled updates, rests on them.  Phases ties the channel, the   *)
(* workers and the storage engines to the place of Go.  Account follows    *)
(* the updates: whatever lies below the offset, was forgotten by the       *)
(* server or was answered for is held somewhere, a reply counting only     *)
(* once it has been received.                                              *)
(***************************************************************************)
EXTENDS UpdatePipeline, FiniteSetTheorems, TLAPS

Busy == {cur[w] : w \in Workers} \ {None}
Held ==
    handled \cup past \cup InQueue \cup Busy \cup (IF pc = "push" THEN batch ELSE {})

Phases ==
    /\ closed <=> pc \in {"drain", "tasks", "stores", "returned"}
    /\ batch # {} => pc \in {"answered", "push"}
    /\ posts # {} => pc \notin {"dead", "panicked"}
    /\ pc \notin {"stores", "returned"} => open = Stores
    /\ pc \in {"tasks", "stores", "returned"} => alive = {}
    /\ \A w \in Workers : cur[w] # None => w \in alive
    /\ pc \notin {"dead", "panicked"} /\ alive # Workers => closed /\ queue = <<>>

Account ==
    /\ gone \cup taken \subseteq Held
    /\ \A i \in Ids : i < offset => i \in Held
    /\ \A i \in batch : \A j \in Ids : j <= i => j \in Held \cup batch

IInv == TypeOK /\ Phases /\ Account

-----------------------------------------------------------------------------
\* What a send leaves in the channel.
LEMMA SendKeeps ==
    ASSUME queue \in Seq(Ids), NEW i \in Ids, queue' = Append(queue, i)
    PROVE  queue' \in Seq(Ids) /\ InQueue' = InQueue \cup {i}
<1>1. queue' \in Seq(Ids)
  OBVIOUS
<1>2. /\ DOMAIN queue = 1..Len(queue) /\ DOMAIN queue' = 1..(Len(queue) + 1)
      /\ Len(queue) \in Nat
      /\ \A k \in 1..Len(queue) : queue'[k] = queue[k]
      /\ queue'[Len(queue) + 1] = i
  OBVIOUS
<1>3. InQueue' \subseteq InQueue \cup {i}
  BY <1>2 DEF InQueue
<1>4. InQueue \cup {i} \subseteq InQueue'
  BY <1>2 DEF InQueue
<1>5. QED
  BY <1>1, <1>3, <1>4

\* What a receive leaves in the channel.
LEMMA ReceiveKeeps ==
    ASSUME queue \in Seq(Ids), queue # <<>>, queue' = Tail(queue)
    PROVE  /\ queue' \in Seq(Ids) /\ Head(queue) \in Ids
           /\ InQueue = InQueue' \cup {Head(queue)}
<1>1. queue' \in Seq(Ids) /\ Head(queue) \in Ids /\ Head(queue) = queue[1]
  OBVIOUS
<1>2. /\ DOMAIN queue = 1..Len(queue) /\ DOMAIN queue' = 1..(Len(queue) - 1)
      /\ Len(queue) \in Nat \ {0}
      /\ \A k \in 1..(Len(queue) - 1) : queue'[k] = queue[k + 1]
  OBVIOUS
<1>3. InQueue' \cup {Head(queue)} \subseteq InQueue
  BY <1>1, <1>2 DEF InQueue
<1>4. ASSUME NEW k \in 1..Len(queue), k # 1
      PROVE  queue[k] \in InQueue'
  <2>1. k - 1 \in DOMAIN queue' /\ queue'[k - 1] = queue[k]
    BY <1>2, <1>4
  <2>2. QED
    BY <2>1 DEF InQueue
<1>5. InQueue \subseteq InQueue' \cup {Head(queue)}
  BY <1>1, <1>2, <1>4 DEF InQueue
<1>6. QED
  BY <1>1, <1>3, <1>5

\* A new process begins with nothing, and what the last one held is past.
LEMMA FreshKeepsInv ==
    ASSUME IInv, Fresh, UNCHANGED <<server, front>>, alive' \in SUBSET Workers,
           pc' \in {"top", "serve", "dead", "panicked"}, runs' \in 0..MaxRuns,
           pc' \in {"top", "serve"} => alive' = Workers
    PROVE  IInv'
<1>1. TypeOK'
  <2>1. cur' \in [Workers -> Ids \cup {None}] /\ queue' \in Seq(Ids)
    BY DEF Fresh
  <2>2. past' \in SUBSET Ids
    <3>1. InQueue \in SUBSET Ids
      BY DEF IInv, TypeOK, InQueue
    <3>2. QED
      BY <3>1 DEF IInv, TypeOK, Fresh, InHand
  <2>3. /\ arrived' = arrived /\ gone' = gone /\ front' = front /\ posts' = {}
        /\ batch' = {} /\ done' = FALSE /\ closed' = FALSE /\ offset' = -1
        /\ stopped' = {} /\ taken' = {} /\ handled' = {}
    BY DEF Fresh, server
  <2>4. offset' \in Int /\ offset' <= MaxUpdates + 1
    BY <2>3, PipelineAssumption
  <2>5. QED
    BY <2>1, <2>2, <2>3, <2>4 DEF IInv, TypeOK
<1>2. Phases'
  BY DEF Fresh, Phases
<1>3. Account'
  <2>1. Held \subseteq past' /\ past' \subseteq Held'
    BY DEF IInv, TypeOK, Held, InHand, Busy, Fresh
  <2>2. offset' = -1 /\ batch' = {} /\ taken' = {} /\ gone' = gone
    BY DEF Fresh, server
  <2>3. QED
    BY <2>1, <2>2 DEF IInv, Account, Ids
<1>4. QED
  BY <1>1, <1>2, <1>3 DEF IInv

-----------------------------------------------------------------------------
\* The steps of the front that move no update.
LEMMA FrontKeepsInv ==
    ASSUME IInv,
           \/ Ask \/ AskFails \/ Receive
           \/ ShutdownServer \/ CloseChannel \/ Drained \/ CloseStore
    PROVE  IInv'
<1>1. CASE Ask
  BY <1>1 DEF IInv, TypeOK, Phases, Account, Held, Busy, InQueue, Ask, world, server,
              polling, pool, process, history
<1>2. CASE AskFails
  BY <1>2 DEF IInv, TypeOK, Phases, Account, Held, Busy, InQueue, AskFails, world, server,
              pool, process, history
<1>3. CASE Receive
  <2>1. TypeOK' /\ Phases'
    BY <1>3 DEF IInv, TypeOK, Phases, Receive, world, server, polling, pool, process
  <2>2. Held' = Held \cup batch
    BY <1>3 DEF Held, Busy, InQueue, Receive, polling, pool
  <2>3. QED
    BY <1>3, <2>1, <2>2 DEF IInv, Account, Receive, world, server, polling
<1>4. CASE ShutdownServer
  BY <1>4 DEF IInv, TypeOK, Phases, Account, Held, Busy, InQueue, ShutdownServer, world,
              server, polling, pool, process, history
<1>5. CASE CloseChannel
  BY <1>5 DEF IInv, TypeOK, Phases, Account, Held, Busy, InQueue, CloseChannel, world,
              server, polling, process, history
<1>6. CASE Drained
  BY <1>6 DEF IInv, TypeOK, Phases, Account, Held, Busy, InQueue, Drained, world,
              server, polling, pool, process, history
<1>7. CASE CloseStore
  BY <1>7 DEF IInv, TypeOK, Phases, Account, Held, Busy, InQueue, CloseStore, world,
              server, polling, pool, history
<1>8. QED
  BY <1>1, <1>2, <1>3, <1>4, <1>5, <1>6, <1>7

\* The steps of the outside that move no update, and the tasks.
LEMMA OutsideKeepsInv ==
    ASSUME IInv,
           \/ Arrive \/ Interrupt \/ \E i \in Ids : Post(i) \/ EnqueuePanics(i)
           \/ \E t \in Tasks : StopTask(t)
           \/ StopTasks /\ pc' = "stores"
    PROVE  IInv'
<1>1. CASE Arrive
  <2>1. arrived' \in 0..MaxUpdates
    BY <1>1, PipelineAssumption DEF IInv, TypeOK, Arrive
  <2>2. QED
    BY <1>1, <2>1 DEF IInv, TypeOK, Phases, Account, Held, Busy, InQueue, Arrive,
                      polling, pool, process, history
<1>2. CASE Interrupt
  BY <1>2 DEF IInv, TypeOK, Phases, Account, Held, Busy, InQueue, Interrupt, world, server,
              polling, pool, history
<1>3. CASE \E i \in Ids : Post(i) \/ EnqueuePanics(i)
  BY <1>3 DEF IInv, TypeOK, Phases, Account, Held, Busy, InQueue, Post, EnqueuePanics,
              server, polling, pool, process, history
<1>4. CASE \E t \in Tasks : StopTask(t)
  BY <1>4 DEF IInv, TypeOK, Phases, Account, Held, Busy, InQueue, StopTask, world, server,
              polling, pool, history
<1>5. CASE StopTasks /\ pc' = "stores"
  <2>1. /\ pc = "tasks" /\ stopped' = Tasks
        /\ UNCHANGED <<world, polling, pool, front, done, open, runs, history>>
    BY <1>5 DEF StopTasks, Ends
  <2>2. QED
    BY <1>5, <2>1 DEF IInv, TypeOK, Phases, Account, Held, Busy, InQueue, world, server,
                      polling, pool, history
<1>6. QED
  BY <1>1, <1>2, <1>3, <1>4, <1>5

-----------------------------------------------------------------------------
\* A batch has no gaps: what is older than one of its updates was forgotten
\* before or is in the batch too.
LEMMA FirstOfHasNoGaps ==
    ASSUME NEW n \in Nat, NEW S, NEW i \in FirstOf((1..n) \ S), NEW j \in 1..n, j <= i
    PROVE  j \in S \cup FirstOf((1..n) \ S)
<1> DEFINE U == (1..n) \ S
           Below(k) == {l \in U : l < k}
<1>1. i \in U /\ Cardinality(Below(i)) < BatchLimit
  BY DEF FirstOf
<1>2. SUFFICES ASSUME j \in U
               PROVE  Cardinality(Below(j)) < BatchLimit
  BY DEF FirstOf
<1>3. IsFiniteSet(1..n)
  BY FS_Interval
<1>4. IsFiniteSet(Below(i)) /\ Below(j) \subseteq Below(i)
  <2>1. Below(i) \subseteq 1..n
    OBVIOUS
  <2>2. Below(j) \subseteq Below(i)
    BY <1>1
  <2>3. QED
    BY <1>3, <2>1, <2>2, FS_Subset
<1>5. /\ Cardinality(Below(j)) <= Cardinality(Below(i))
      /\ Cardinality(Below(i)) \in Nat /\ Cardinality(Below(j)) \in Nat
  BY <1>4, FS_Subset, FS_CardinalityType
<1>6. QED
  BY <1>1, <1>5, PipelineAssumption

\* The server answers getUpdates.
LEMMA ServeKeepsInv ==
    ASSUME IInv, ServeBatch \/ ServeLast
    PROVE  IInv'
<1>1. /\ pc = "asked" /\ pc' = "answered" /\ arrived' = arrived
      /\ UNCHANGED <<offset, pool, process, taken, handled, posts>>
  BY DEF ServeBatch, ServeLast, history
<1>2. CASE ServeBatch
  <2>1. gone' = gone \cup 1..(offset - 1) /\ batch' = FirstOf((1..arrived) \ gone')
        /\ past' = past
    BY <1>2 DEF ServeBatch, history
  <2>2. batch' \subseteq (1..arrived) \ gone'
    BY <2>1 DEF FirstOf
  <2>3. gone' \in SUBSET Ids /\ batch' \in SUBSET Ids
    <3>1. offset \in Int /\ offset <= MaxUpdates + 1 /\ arrived \in 0..MaxUpdates
      BY DEF IInv, TypeOK
    <3>2. 1..(offset - 1) \subseteq Ids /\ 1..arrived \subseteq Ids
      BY <3>1, PipelineAssumption DEF Ids
    <3>3. QED
      BY <2>1, <2>2, <3>2 DEF IInv, TypeOK
  <2>4. TypeOK' /\ Phases'
    BY <1>1, <2>1, <2>3 DEF IInv, TypeOK, Phases, pool, process
  <2>5. Held' = Held
    BY <1>1, <2>1 DEF Held, Busy, InQueue, pool
  <2>6. gone' \subseteq Held
    BY <2>1, <2>3 DEF IInv, TypeOK, Account, Ids
  <2>7. ASSUME NEW i \in batch', NEW j \in Ids, j <= i
        PROVE  j \in Held' \cup batch'
    <3>1. arrived \in Nat /\ j \in 1..arrived
      BY <2>2, <2>7, PipelineAssumption DEF IInv, TypeOK, Ids
    <3>2. j \in gone' \cup batch'
      BY <2>1, <2>7, <3>1, FirstOfHasNoGaps
    <3>3. QED
      BY <2>5, <2>6, <3>2
  <2>8. QED
    BY <1>1, <2>4, <2>5, <2>6, <2>7 DEF IInv, Account
<1>3. CASE ServeLast
  <2>1. /\ arrived \in Ids /\ offset = -1
        /\ gone' = gone \cup 1..(arrived - 1) /\ past' = past \cup 1..(arrived - 1)
        /\ batch' = {arrived}
    BY <1>3, PipelineAssumption DEF ServeLast, IInv, TypeOK, Ids
  <2>2. TypeOK' /\ Phases'
    <3>1. 1..(arrived - 1) \in SUBSET Ids
      BY <2>1, PipelineAssumption DEF Ids
    <3>2. QED
      BY <1>1, <2>1, <3>1 DEF IInv, TypeOK, Phases, pool, process
  <2>3. Held' = Held \cup 1..(arrived - 1)
    BY <1>1, <2>1 DEF Held, Busy, InQueue, pool
  <2>4. \A j \in Ids : j <= arrived => j \in 1..(arrived - 1) \cup {arrived}
    BY <2>1, PipelineAssumption DEF Ids
  <2>5. QED
    BY <1>1, <2>1, <2>2, <2>3, <2>4 DEF IInv, Account
<1>4. QED
  BY <1>2, <1>3

\* The sends to the channel.
LEMMA EnterKeepsInv ==
    ASSUME IInv, NEW i \in Ids, PushNext(i) \/ Enqueue(i)
    PROVE  IInv'
<1>1. /\ queue' = Append(queue, i) /\ UNCHANGED <<closed, cur, alive, process, handled, past>>
      /\ pc \notin {"drain", "tasks", "stores", "returned", "dead", "panicked"}
  BY DEF IInv, TypeOK, Phases, PushNext, Enqueue, history
<1>2. queue' \in Seq(Ids) /\ InQueue' = InQueue \cup {i}
  BY <1>1, SendKeeps DEF IInv, TypeOK
<1>3. closed = FALSE /\ alive = Workers
  BY <1>1 DEF IInv, TypeOK, Phases
<1>4. Busy' = Busy
  BY <1>1 DEF Busy
<1>5. CASE PushNext(i)
  <2>1. /\ pc = "push" /\ i \in batch /\ \A j \in batch : i <= j
        /\ batch' = batch \ {i} /\ UNCHANGED <<world, taken>>
        /\ batch = {i} => pc' = "top" /\ offset' = i + 1
        /\ batch # {i} => pc' = "push" /\ offset' = offset
    BY <1>5 DEF PushNext, history
  <2>2. TypeOK'
    <3>1. offset' \in Int /\ offset' <= MaxUpdates + 1
      BY <2>1, PipelineAssumption DEF IInv, TypeOK, Ids
    <3>2. QED
      BY <1>1, <1>2, <2>1, <3>1 DEF IInv, TypeOK, world, server, process
  <2>3. Phases'
    BY <1>1, <1>3, <2>1 DEF IInv, TypeOK, Phases, process
  <2>4. Held' = Held
    BY <1>1, <1>2, <1>4, <2>1 DEF Held
  <2>5. ASSUME NEW j \in Ids, j < offset'
        PROVE  j \in Held
    <3>1. CASE batch = {i}
      <4>1. j <= i
        BY <2>1, <2>5, <3>1 DEF Ids
      <4>2. QED
        BY <2>1, <4>1 DEF IInv, Account, Held
    <3>2. CASE batch # {i}
      BY <2>1, <2>5, <3>2 DEF IInv, Account
    <3>3. QED
      BY <3>1, <3>2
  <2>6. \A k \in batch' : \A j \in Ids : j <= k => j \in Held' \cup batch'
    BY <2>1, <2>4 DEF IInv, Account, Held
  <2>7. QED
    BY <2>1, <2>2, <2>3, <2>4, <2>5, <2>6 DEF IInv, Account, world, server
<1>6. CASE Enqueue(i)
  <2>1. /\ UNCHANGED <<arrived, pc, polling>> /\ posts' = posts \ {i}
        /\ gone' \cup taken' \subseteq gone \cup taken \cup {i}
    BY <1>6 DEF Enqueue
  <2>2. TypeOK' /\ Phases'
    BY <1>1, <1>2, <1>3, <2>1 DEF IInv, TypeOK, Phases, polling, process
  <2>3. Held' = Held \cup {i}
    BY <1>1, <1>2, <1>4, <2>1 DEF Held, polling
  <2>4. QED
    BY <2>1, <2>2, <2>3 DEF IInv, Account, polling
<1>7. QED
  BY <1>5, <1>6

\* The receives from the channel, and the handlers.
LEMMA WorkKeepsInv ==
    ASSUME IInv, ClearQueue \/ \E w \in Workers : Work(w)
    PROVE  IInv'
<1>1. CASE ClearQueue
  <2>1. /\ queue # <<>> /\ queue' = Tail(queue) /\ past' = past \cup {Head(queue)}
        /\ UNCHANGED <<world, pc, polling, closed, cur, alive, process, taken, handled>>
    BY <1>1 DEF ClearQueue
  <2>2. /\ queue' \in Seq(Ids) /\ Head(queue) \in Ids
        /\ InQueue = InQueue' \cup {Head(queue)}
    BY <2>1, ReceiveKeeps DEF IInv, TypeOK
  <2>3. TypeOK' /\ Phases'
    BY <2>1, <2>2 DEF IInv, TypeOK, Phases, world, server, polling, process
  <2>4. Held' = Held
    BY <2>1, <2>2 DEF Held, Busy, polling
  <2>5. QED
    BY <2>1, <2>3, <2>4 DEF IInv, Account, world, server, polling
<1>2. ASSUME NEW w \in Workers, Take(w)
      PROVE  IInv'
  <2>1. /\ queue # <<>> /\ queue' = Tail(queue) /\ w \in alive /\ cur[w] = None
        /\ cur' = [cur EXCEPT ![w] = Head(queue)]
        /\ UNCHANGED <<world, pc, polling, closed, alive, process, history>>
    BY <1>2 DEF Take
  <2>2. /\ queue' \in Seq(Ids) /\ Head(queue) \in Ids /\ Head(queue) # None
        /\ InQueue = InQueue' \cup {Head(queue)}
    BY <2>1, ReceiveKeeps, PipelineAssumption DEF IInv, TypeOK, Ids
  <2>3. TypeOK' /\ Phases'
    BY <2>1, <2>2 DEF IInv, TypeOK, Phases, world, server, polling, process, history
  <2>4. Busy' = Busy \cup {Head(queue)}
    BY <2>1, <2>2 DEF Busy, IInv, TypeOK
  <2>5. Held' = Held
    BY <2>1, <2>2, <2>4 DEF Held, polling, history
  <2>6. QED
    BY <2>1, <2>3, <2>5 DEF IInv, Account, world, server, polling, history
<1>3. ASSUME NEW w \in Workers, Finish(w)
      PROVE  IInv'
  <2>1. /\ cur[w] # None /\ cur' = [cur EXCEPT ![w] = None]
        /\ handled' = handled \cup {cur[w]}
        /\ UNCHANGED <<world, pc, polling, queue, closed, alive, process, taken, past>>
    BY <1>3 DEF Finish
  <2>2. TypeOK' /\ Phases'
    BY <2>1 DEF IInv, TypeOK, Phases, world, server, polling, process
  <2>3. Busy \subseteq Busy' \cup {cur[w]} /\ Busy' \subseteq Busy /\ InQueue' = InQueue
    BY <2>1 DEF Busy, InQueue, IInv, TypeOK
  <2>4. Held \subseteq Held'
    BY <2>1, <2>3 DEF Held, polling
  <2>5. QED
    BY <2>1, <2>2, <2>4 DEF IInv, Account, world, server, polling
<1>4. ASSUME NEW w \in Workers, Exit(w)
      PROVE  IInv'
  BY <1>4 DEF IInv, TypeOK, Phases, Account, Held, Busy, InQueue, Exit, world, server,
              polling, process, history
<1>5. QED
  BY <1>1, <1>2, <1>3, <1>4 DEF Work

-----------------------------------------------------------------------------
\* Nothing has happened yet.
LEMMA InitHasInv == Init => IInv
<1> SUFFICES ASSUME Init
             PROVE  IInv
  OBVIOUS
<1>1. TypeOK
  <2>1. cur \in [Workers -> Ids \cup {None}] /\ queue \in Seq(Ids)
    BY DEF Init
  <2>2. /\ arrived \in 0..MaxUpdates /\ runs \in 0..MaxRuns
        /\ offset \in Int /\ offset <= MaxUpdates + 1
    BY PipelineAssumption DEF Init
  <2>3. QED
    BY <2>1, <2>2 DEF Init, TypeOK
<1>2. Phases
  BY DEF Init, Phases
<1>3. Account
  BY DEF Init, Account, Ids
<1>4. QED
  BY <1>1, <1>2, <1>3 DEF IInv

\* The inductive step.
LEMMA NextKeepsInv == IInv /\ [Next]_vars => IInv'
<1> SUFFICES ASSUME IInv, [Next]_vars
             PROVE  IInv'
  OBVIOUS
<1>1. CASE Start
  <2>1. runs' \in 0..MaxRuns /\ pc' \in {"top", "serve"}
    BY <1>1, PipelineAssumption DEF Start, IInv, TypeOK
  <2>2. QED
    BY <1>1, <2>1, FreshKeepsInv DEF Start
<1>2. CASE Crash \/ ServeFails \/ (StopTasks /\ pc' # "stores")
  <2>1. Ends("dead") \/ Ends("panicked")
    BY <1>2 DEF Crash, ServeFails, StopTasks
  <2>2. /\ Fresh /\ alive' = {} /\ pc' \in {"dead", "panicked"} /\ runs' = runs
        /\ UNCHANGED <<server, front>>
    BY <2>1 DEF Ends
  <2>3. runs' \in 0..MaxRuns
    BY <2>2 DEF IInv, TypeOK
  <2>4. QED
    BY <2>2, <2>3, FreshKeepsInv
<1>3. CASE UNCHANGED vars
  BY <1>3 DEF IInv, TypeOK, Phases, Account, Held, Busy, InQueue, vars, world, server,
              polling, pool, process, history
<1>4. QED
  BY <1>1, <1>2, <1>3, FrontKeepsInv, OutsideKeepsInv, ServeKeepsInv, EnterKeepsInv,
     WorkKeepsInv DEF Next, Poll, Web, Shutdown

-----------------------------------------------------------------------------
(***************************************************************************)
(* The order in which polled updates begin.  What has begun lies below the *)
(* channel, the channel is sorted and lies below the batch, and between    *)
(* batches all of it lies below the offset: so neither a reply that was    *)
(* lost nor a second getUpdates brings an update back.                     *)
(***************************************************************************)
Ordered ==
    front = "poll" =>
        /\ pc \notin {"serve", "closing"} /\ posts = {}
        /\ \A i \in batch : \A j \in Begun \cup InQueue : j < i
        /\ \A i \in InQueue : \A j \in Begun : j < i
        /\ \A k, l \in DOMAIN queue : k < l => queue[k] < queue[l]
        /\ pc # "push" => \A j \in Begun \cup InQueue : j < offset

\* What has begun, and the channel, are ids.
LEMMA BegunAreIds == IInv => Begun \subseteq Ids /\ InQueue \subseteq Ids
BY DEF IInv, TypeOK, Begun, InQueue

\* A send of the least of the batch, which lies above the channel, keeps it sorted.
LEMMA PushKeepsOrder ==
    ASSUME IInv, Ordered, front = "poll", NEW i \in Ids, PushNext(i)
    PROVE  Ordered'
<1>1. /\ pc = "push" /\ i \in batch /\ \A j \in batch : i <= j
      /\ queue' = Append(queue, i) /\ batch' = batch \ {i}
      /\ batch = {i} => pc' = "top" /\ offset' = i + 1
      /\ batch # {i} => pc' = "push" /\ offset' = offset
      /\ UNCHANGED <<posts, cur, handled, front>>
  BY DEF PushNext, world, process, history
<1>2. queue \in Seq(Ids) /\ InQueue' = InQueue \cup {i}
  BY <1>1, SendKeeps DEF IInv, TypeOK
<1>3. Begun' = Begun /\ Begun \subseteq Ids /\ InQueue \subseteq Ids
  BY <1>1, BegunAreIds DEF Begun
<1>4. batch \subseteq Ids
  BY DEF IInv, TypeOK
<1>5. \A j \in Begun \cup InQueue : j < i
  BY <1>1 DEF Ordered
<1>6. \A k \in batch' : i < k
  BY <1>1, <1>4 DEF Ids
<1>7. \A k \in batch' : \A j \in (Begun \cup InQueue)' : j < k
  BY <1>1, <1>2, <1>3, <1>6 DEF Ordered
<1>8. \A k \in InQueue' : \A j \in Begun' : j < k
  BY <1>2, <1>3, <1>5 DEF Ordered
<1>9. ASSUME NEW k \in DOMAIN queue', NEW l \in DOMAIN queue', k < l
      PROVE  queue'[k] < queue'[l]
  <2>1. /\ DOMAIN queue = 1..Len(queue) /\ DOMAIN queue' = 1..(Len(queue) + 1)
        /\ Len(queue) \in Nat
        /\ \A n \in 1..Len(queue) : queue'[n] = queue[n]
        /\ queue'[Len(queue) + 1] = i
    BY <1>1, <1>2
  <2>2. k \in DOMAIN queue /\ queue[k] \in InQueue
    BY <1>9, <2>1 DEF InQueue
  <2>3. CASE l \in DOMAIN queue
    BY <1>1, <1>9, <2>1, <2>2, <2>3 DEF Ordered
  <2>4. CASE l = Len(queue) + 1
    BY <1>5, <2>1, <2>2, <2>4
  <2>5. QED
    BY <2>1, <2>3, <2>4
<1>10. ASSUME pc' # "push", NEW j \in (Begun \cup InQueue)'
       PROVE  j < offset'
  <2>1. offset' = i + 1 /\ j \in Ids /\ (j = i \/ j < i)
    BY <1>1, <1>2, <1>3, <1>5, <1>10
  <2>2. QED
    BY <2>1 DEF Ids
<1>11. pc' \notin {"serve", "closing"} /\ posts' = {}
  BY <1>1 DEF Ordered
<1>12. QED
  BY <1>7, <1>8, <1>9, <1>10, <1>11 DEF Ordered

\* A receive takes the first of the channel, which lies below the others.
LEMMA ReceiveKeepsOrder ==
    ASSUME IInv, Ordered, front = "poll", queue # <<>>, queue' = Tail(queue),
           UNCHANGED <<pc, posts, batch, offset, front>>,
           Begun' \subseteq Begun \cup {Head(queue)}
    PROVE  Ordered'
<1>1. queue \in Seq(Ids) /\ InQueue = InQueue' \cup {Head(queue)}
  BY ReceiveKeeps DEF IInv, TypeOK
<1>2. /\ DOMAIN queue = 1..Len(queue) /\ DOMAIN queue' = 1..(Len(queue) - 1)
      /\ Len(queue) \in Nat \ {0} /\ Head(queue) = queue[1]
      /\ \A k \in 1..(Len(queue) - 1) : queue'[k] = queue[k + 1]
  BY <1>1
<1>3. \A k, l \in DOMAIN queue : k < l => queue[k] < queue[l]
  BY DEF Ordered
<1>4. \A k, l \in DOMAIN queue' : k < l => queue'[k] < queue'[l]
  BY <1>2, <1>3
<1>5. \A i \in InQueue' : Head(queue) < i
  BY <1>2, <1>3 DEF InQueue
<1>6. \A i \in InQueue' : \A j \in Begun' : j < i
  BY <1>1, <1>5 DEF Ordered
<1>7. (Begun \cup InQueue)' \subseteq Begun \cup InQueue
  BY <1>1
<1>8. QED
  BY <1>4, <1>6, <1>7 DEF Ordered

\* The answer to getUpdates has nothing below the offset, and the last update alone is
\* served at the first call only, when nothing has begun.
LEMMA ServeKeepsOrder ==
    ASSUME IInv, Ordered, front = "poll", ServeBatch \/ ServeLast
    PROVE  Ordered'
<1>1. /\ pc = "asked" /\ pc' = "answered"
      /\ UNCHANGED <<offset, pool, process, handled, posts>>
  BY DEF ServeBatch, ServeLast, history
<1>2. Begun' = Begun /\ InQueue' = InQueue /\ queue' = queue
  BY <1>1 DEF Begun, InQueue, pool
<1>3. \A j \in Begun \cup InQueue : j < offset /\ j \in Ids
  BY <1>1, BegunAreIds DEF Ordered
<1>4. \A i \in batch' : \A j \in Begun \cup InQueue : j < i
  <2>1. CASE ServeBatch
    <3>1. batch' \subseteq (1..arrived) \ (1..(offset - 1))
      BY <2>1 DEF ServeBatch, FirstOf
    <3>2. \A i \in batch' : i \in Int /\ i >= offset
      BY <3>1 DEF IInv, TypeOK
    <3>3. QED
      BY <1>3, <3>2 DEF Ids, IInv, TypeOK
  <2>2. CASE ServeLast
    <3>1. Begun \cup InQueue = {}
      BY <1>3, <2>2 DEF ServeLast, Ids
    <3>2. QED
      BY <3>1
  <2>3. QED
    BY <2>1, <2>2
<1>5. QED
  BY <1>1, <1>2, <1>3, <1>4 DEF Ordered, process

\* Every step keeps the order.
LEMMA NextKeepsOrder == IInv /\ Ordered /\ [Next]_vars => Ordered'
<1> SUFFICES ASSUME IInv, Ordered, [Next]_vars, front' = "poll"
             PROVE  Ordered'
  BY DEF Ordered
<1>1. CASE Start \/ \E how \in {"dead", "panicked"} : Ends(how)
  <2>1. /\ front = "poll" /\ Fresh /\ pc' \in {"top", "dead", "panicked"}
    BY <1>1 DEF Start, Ends
  <2>2. Begun' = {} /\ InQueue' = {}
    BY <2>1 DEF Fresh, Begun, InQueue
  <2>3. QED
    BY <2>1, <2>2 DEF Fresh, Ordered
<1>2. CASE Ask \/ AskFails \/ Receive \/ ShutdownServer \/ CloseChannel \/ Drained \/ CloseStore
  <2>1. /\ UNCHANGED <<posts, offset, queue, cur, handled, front>>
        /\ batch' \subseteq batch /\ pc # "push"
        /\ pc \in {"serve", "closing"} \/ pc' \notin {"serve", "closing"}
    BY <1>2 DEF Ask, AskFails, Receive, ShutdownServer, CloseChannel, Drained, CloseStore,
                world, polling, pool, process, history
  <2>2. Begun' = Begun /\ InQueue' = InQueue
    BY <2>1 DEF Begun, InQueue
  <2>3. QED
    BY <2>1, <2>2 DEF Ordered
<1>3. CASE \/ Arrive \/ Interrupt \/ UNCHANGED vars \/ \E t \in Tasks : StopTask(t)
           \/ \E w \in Workers : Exit(w)
           \/ StopTasks /\ UNCHANGED <<world, polling, pool, front, history>>
  <2>1. /\ UNCHANGED <<posts, offset, batch, queue, cur, handled, front>>
        /\ (pc' = pc) \/ (pc = "tasks" /\ pc' \in {"stores", "panicked"})
    BY <1>3 DEF Arrive, Interrupt, vars, StopTask, StopTasks, Exit, Ends, world, polling,
                pool, process, history
  <2>2. Begun' = Begun /\ InQueue' = InQueue
    BY <2>1 DEF Begun, InQueue
  <2>3. QED
    BY <2>1, <2>2 DEF Ordered
<1>4. CASE \E i \in Ids : Post(i) \/ Enqueue(i) \/ EnqueuePanics(i)
  BY <1>4 DEF Post, Enqueue, EnqueuePanics, Ordered, process
<1>5. CASE ServeBatch \/ ServeLast \/ \E i \in Ids : PushNext(i)
  BY <1>5, ServeKeepsOrder, PushKeepsOrder DEF ServeBatch, ServeLast, PushNext, process
<1>6. CASE ClearQueue \/ \E w \in Workers : Take(w)
  <2>1. /\ queue # <<>> /\ queue' = Tail(queue)
        /\ UNCHANGED <<pc, posts, batch, offset, handled, front>>
    BY <1>6 DEF ClearQueue, Take, world, polling, process, history
  <2>2. Begun' \subseteq Begun \cup {Head(queue)}
    BY <1>6 DEF ClearQueue, Take, Begun, IInv, TypeOK, history
  <2>3. QED
    BY <2>1, <2>2, ReceiveKeepsOrder
<1>7. CASE \E w \in Workers : Finish(w)
  <2>1. /\ UNCHANGED <<pc, posts, batch, offset, queue, front>>
        /\ Begun' \subseteq Begun /\ InQueue' = InQueue
    BY <1>7 DEF Finish, Begun, InQueue, IInv, TypeOK, world, polling, process
  <2>2. QED
    BY <2>1 DEF Ordered
<1>8. StopTasks => \/ Ends("panicked")
                   \/ UNCHANGED <<world, polling, pool, front, history>>
  BY DEF StopTasks
<1>9. QED
  BY <1>1, <1>2, <1>3, <1>4, <1>5, <1>6, <1>7, <1>8
     DEF Next, Poll, Web, Work, Shutdown, Crash, ServeFails

-----------------------------------------------------------------------------
\* PollChain.Go and WebChain.Go, for any number of updates, workers, tasks and
\* processes, and any sizes of batch and queue.
\* The variables keep their types.
THEOREM TypeCorrect == Spec => []TypeOK
<1>1. IInv => TypeOK
  BY DEF IInv
<1>2. QED
  BY <1>1, InitHasInv, NextKeepsInv, PTL DEF Spec

\* No handler runs on storage that is being closed.
THEOREM HandlersBeforeClose == Spec => []OpenWhileHandling
<1>1. IInv => OpenWhileHandling
  BY DEF IInv, TypeOK, Phases, OpenWhileHandling, Running
<1>2. QED
  BY <1>1, InitHasInv, NextKeepsInv, PTL DEF Spec

\* A shutdown that returns has drained all that was answered for.
THEOREM Drains == Spec => []DrainedOnReturn
<1>1. IInv => DrainedOnReturn
  <2> SUFFICES ASSUME IInv, pc = "returned"
               PROVE  taken \subseteq handled \cup past
    BY DEF DrainedOnReturn
  <2>1. alive = {} /\ queue = <<>>
    BY PipelineAssumption DEF IInv, Phases
  <2>2. Busy = {} /\ InQueue = {}
    BY <2>1 DEF IInv, Phases, Busy, InQueue
  <2>3. QED
    BY <2>2 DEF IInv, Account, Held
<1>2. QED
  BY <1>1, InitHasInv, NextKeepsInv, PTL DEF Spec

\* What the server has forgotten is accounted for.
THEOREM Accounted == Spec => []NothingForgotten
<1>1. IInv => NothingForgotten
  BY DEF IInv, Account, Held, Busy, InHand, NothingForgotten
<1>2. QED
  BY <1>1, InitHasInv, NextKeepsInv, PTL DEF Spec

\* Polled updates begin once and in the order of their ids.
THEOREM BeginsInOrder == Spec => []BegunInOrder
<1>1. Init => Ordered
  BY DEF Init, Ordered, Begun, InQueue
<1>2. Ordered => BegunInOrder
  BY DEF Ordered, BegunInOrder
<1>3. QED
  BY <1>1, <1>2, InitHasInv, NextKeepsInv, NextKeepsOrder, PTL DEF Spec
=============================================================================
