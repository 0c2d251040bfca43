--------------------------- MODULE UpdatePipeline ---------------------------
(***************************************************************************)
(* How updates travel from the Bale server through the bot of bot.go: the  *)
(* polling loop (PollChain.Go) or the webhook server (WebChain.Go), the    *)
(* channel workerChan, the workers that run the handlers, and the shutdown *)
(* that both fronts end with.  The process may die at any moment and be    *)
(* started again.                                                          *)
(*                                                                         *)
(* An update is its update_id.  The server is external: it forgets an      *)
(* update once a higher offset asks for the next ones, or once the webhook *)
(* has answered it.                                                        *)
(***************************************************************************)
EXTENDS Integers, Sequences, FiniteSets

CONSTANTS
    MaxUpdates,   \* bound: updates that arrive
    BatchLimit,   \* the limit of getUpdates (100)
    QueueCap,     \* capacity of workerChan (1000)
    Workers,      \* numWorkers goroutines
    Tasks,        \* periodic tasks, Task().Every and Daily
    MaxRuns,      \* bound: processes, one after the other
    None          \* no update

ASSUME PipelineAssumption ==
    /\ MaxUpdates \in Nat
    /\ BatchLimit \in Nat \ {0} /\ QueueCap \in Nat \ {0}
    /\ Workers # {}
    /\ MaxRuns \in Nat
    /\ None \notin Nat

VARIABLES
    arrived,    \* the newest update_id
    gone,       \* updates the server does not deliver again
    posts,      \* updates in webhook requests that wait for room in the channel
    front,      \* the chain that runs: "poll" or "webhook"
    pc,         \* where its Go is
    done,       \* ctx.Done(): the process was told to stop
    offset,     \* PollChain.Go: offset
    batch,      \* PollChain.Go: updates not pushed yet
    queue,      \* Bot.workerChan
    closed,     \* workerChan is closed
    cur,        \* per worker, the update its handler runs on
    alive,      \* workersWg: workers that have not returned
    stopped,    \* tasks whose stop channel is closed
    open,       \* storage engines not closed yet, in the order of closing
    runs,       \* processes started
    taken,      \* history: updates this process answered for to the server
    handled,    \* history: updates this process has handled
    past        \* history: handled or lost earlier, skipped, or cleared

server == <<arrived, gone>>
world == <<server, posts>>
polling == <<offset, batch>>
pool == <<queue, closed, cur, alive>>
process == <<front, done, stopped, open, runs>>
history == <<taken, handled, past>>
vars == <<world, pc, polling, pool, process, history>>

-----------------------------------------------------------------------------
Ids == 1..MaxUpdates
Stores == <<"db", "analytics", "settings", "sessions">>
InQueue == {queue[k] : k \in DOMAIN queue}
InHand == batch \cup InQueue \cup ({cur[w] : w \in Workers} \ {None})
Running == pc \notin {"dead", "panicked", "returned"}

Init ==
    /\ arrived = 0
    /\ gone = {}
    /\ posts = {}
    /\ front \in {"poll", "webhook"}
    /\ pc = "dead"
    /\ done = FALSE
    /\ offset = -1
    /\ batch = {}
    /\ queue = <<>>
    /\ closed = FALSE
    /\ cur = [w \in Workers |-> None]
    /\ alive = {}
    /\ stopped = {}
    /\ open = Stores
    /\ runs = 0
    /\ taken = {}
    /\ handled = {}
    /\ past = {}

\* What a process holds in memory.
Fresh ==
    /\ done' = FALSE
    /\ offset' = -1
    /\ batch' = {}
    /\ queue' = <<>>
    /\ closed' = FALSE
    /\ cur' = [w \in Workers |-> None]
    /\ stopped' = {}
    /\ open' = Stores
    /\ posts' = {}
    /\ past' = past \cup handled \cup InHand
    /\ taken' = {}
    /\ handled' = {}

\* A process starts and its Go calls StartWorkers.
Start ==
    /\ ~Running
    /\ runs < MaxRuns
    /\ runs' = runs + 1
    /\ pc' = IF front = "poll" THEN "top" ELSE "serve"
    /\ alive' = Workers
    /\ Fresh
    /\ UNCHANGED <<server, front>>

\* The process ends, whatever it was doing.
Ends(how) ==
    /\ pc' = how
    /\ alive' = {}
    /\ Fresh
    /\ UNCHANGED <<server, front, runs>>

Crash == Running /\ Ends("dead")

-----------------------------------------------------------------------------
(***************************************************************************)
(* The server, and the way to it.                                          *)
(***************************************************************************)
Arrive ==
    /\ arrived < MaxUpdates
    /\ arrived' = arrived + 1
    /\ UNCHANGED <<gone, posts, pc, polling, pool, process, history>>

FirstOf(S) == {i \in S : Cardinality({j \in S : j < i}) < BatchLimit}

\* getUpdates(offset): the updates below offset are forgotten.
ServeBatch ==
    /\ pc = "asked"
    /\ pc' = "answered"
    /\ gone' = gone \cup 1..(offset - 1)
    /\ batch' = FirstOf((1..arrived) \ gone')
    /\ UNCHANGED <<arrived, posts, offset, pool, process, history>>

\* A negative offset may also mean the last update only, and forget the rest.
ServeLast ==
    /\ pc = "asked"
    /\ offset = -1
    /\ arrived > 0 /\ arrived \notin gone
    /\ pc' = "answered"
    /\ gone' = gone \cup 1..(arrived - 1)
    /\ past' = past \cup 1..(arrived - 1)
    /\ batch' = {arrived}
    /\ UNCHANGED <<arrived, posts, offset, pool, process, taken, handled>>

\* The webhook is called for an update that it has not answered.
Post(i) ==
    /\ pc = "serve"
    /\ i <= arrived /\ i \notin gone \cup posts
    /\ posts' = posts \cup {i}
    /\ UNCHANGED <<server, pc, polling, pool, process, history>>

-----------------------------------------------------------------------------
(***************************************************************************)
(* PollChain.Go up to the shutdown.                                        *)
(***************************************************************************)
Ask ==
    /\ pc = "top" /\ ~done
    /\ pc' = "asked"
    /\ UNCHANGED <<world, polling, pool, process, history>>

\* getUpdates fails; the loop asks again with the same offset.
AskFails ==
    /\ pc \in {"asked", "answered"}
    /\ pc' = "top"
    /\ batch' = {}
    /\ UNCHANGED <<world, offset, pool, process, history>>

Receive ==
    /\ pc = "answered"
    /\ pc' = IF batch = {} THEN "top" ELSE "push"
    /\ taken' = taken \cup batch
    /\ UNCHANGED <<world, polling, pool, process, handled, past>>

\* Mutation of PushNext: the offset is the last update, not the one after it.
PushNextSameOffset(i) ==
    /\ pc = "push"
    /\ i \in batch /\ \A j \in batch : i <= j
    /\ Len(queue) < QueueCap
    /\ queue' = Append(queue, i)
    /\ batch' = batch \ {i}
    /\ IF batch = {i} THEN pc' = "top" /\ offset' = i ELSE UNCHANGED <<pc, offset>>
    /\ UNCHANGED <<world, closed, cur, alive, process, history>>

\* Mutation of PushNext: the offset skips an update.
PushNextSkips(i) ==
    /\ pc = "push"
    /\ i \in batch /\ \A j \in batch : i <= j
    /\ Len(queue) < QueueCap
    /\ queue' = Append(queue, i)
    /\ batch' = batch \ {i}
    /\ IF batch = {i} THEN pc' = "top" /\ offset' = i + 2 ELSE UNCHANGED <<pc, offset>>
    /\ UNCHANGED <<world, closed, cur, alive, process, history>>

\* workerChan <- u, and after the last one the new offset.
PushNext(i) ==
    /\ pc = "push"
    /\ i \in batch /\ \A j \in batch : i <= j
    /\ Len(queue) < QueueCap
    /\ queue' = Append(queue, i)
    /\ batch' = batch \ {i}
    /\ IF batch = {i} THEN pc' = "top" /\ offset' = i + 1 ELSE UNCHANGED <<pc, offset>>
    /\ UNCHANGED <<world, closed, cur, alive, process, history>>

-----------------------------------------------------------------------------
(***************************************************************************)
(* The handler of WebChain.Go.                                             *)
(***************************************************************************)
\* workerChan <- &update, then the answer, which may be lost on its way.
Enqueue(i) ==
    /\ i \in posts
    /\ ~closed /\ Len(queue) < QueueCap
    /\ queue' = Append(queue, i)
    /\ posts' = posts \ {i}
    /\ \/ gone' = gone \cup {i} /\ taken' = taken \cup {i}
       \/ UNCHANGED <<gone, taken>>
    /\ UNCHANGED <<arrived, pc, polling, closed, cur, alive, process, handled, past>>

\* The send panics on the closed channel; net/http recovers and cuts the
\* connection.
EnqueuePanics(i) ==
    /\ i \in posts
    /\ closed
    /\ posts' = posts \ {i}
    /\ UNCHANGED <<server, pc, polling, pool, process, history>>

\* ListenAndServe fails and Go returns the error, without the shutdown.
ServeFails == pc = "serve" /\ Ends("dead")

\* server.Shutdown: no more requests, and five seconds for those that wait.
ShutdownServer ==
    /\ pc = "serve" /\ done
    /\ pc' = "closing"
    /\ UNCHANGED <<world, polling, pool, process, history>>

-----------------------------------------------------------------------------
(***************************************************************************)
(* The workers, and calls of the program's own.                            *)
(***************************************************************************)
Take(w) ==
    /\ Running
    /\ w \in alive /\ cur[w] = None
    /\ queue # <<>>
    /\ cur' = [cur EXCEPT ![w] = Head(queue)]
    /\ queue' = Tail(queue)
    /\ UNCHANGED <<world, pc, polling, closed, alive, process, history>>

\* The handlers return, or panic and are recovered.
Finish(w) ==
    /\ Running
    /\ cur[w] # None
    /\ cur' = [cur EXCEPT ![w] = None]
    /\ handled' = handled \cup {cur[w]}
    /\ UNCHANGED <<world, pc, polling, queue, closed, alive, process, taken, past>>

\* Mutation of Exit: a worker leaves as soon as the channel is closed.
ExitAtOnce(w) ==
    /\ Running
    /\ w \in alive /\ cur[w] = None
    /\ closed
    /\ alive' = alive \ {w}
    /\ UNCHANGED <<world, pc, polling, queue, closed, cur, process, history>>

\* The range over the channel ends when it is closed and empty.
Exit(w) ==
    /\ Running
    /\ w \in alive /\ cur[w] = None
    /\ closed /\ queue = <<>>
    /\ alive' = alive \ {w}
    /\ UNCHANGED <<world, pc, polling, queue, closed, cur, process, history>>

\* Bot.ClearQueue takes one update out of the channel at a time.
ClearQueue ==
    /\ Running
    /\ queue # <<>>
    /\ past' = past \cup {Head(queue)}
    /\ queue' = Tail(queue)
    /\ UNCHANGED <<world, pc, polling, closed, cur, alive, process, taken, handled>>

\* The program stops a task of its own.
StopTask(t) ==
    /\ Running
    /\ t \notin stopped
    /\ stopped' = stopped \cup {t}
    /\ UNCHANGED <<world, pc, polling, pool, front, done, open, runs, history>>

-----------------------------------------------------------------------------
(***************************************************************************)
(* The shutdown.                                                           *)
(***************************************************************************)
\* SIGINT or SIGTERM.
Interrupt ==
    /\ Running /\ ~done
    /\ done' = TRUE
    /\ UNCHANGED <<world, pc, polling, pool, front, stopped, open, runs, history>>

\* Mutation of CloseChannel: the channel stays open.
CloseChannelForgotten ==
    /\ \/ pc = "top" /\ done
       \/ pc = "closing"
    /\ pc' = "drain"
    /\ UNCHANGED <<world, polling, pool, process, history>>

\* close(workerChan).
CloseChannel ==
    /\ \/ pc = "top" /\ done
       \/ pc = "closing"
    /\ pc' = "drain"
    /\ closed' = TRUE
    /\ UNCHANGED <<world, polling, queue, cur, alive, process, history>>

\* Mutation of Drained: the workers are not waited for.
DrainedAtOnce ==
    /\ pc = "drain"
    /\ pc' = "tasks"
    /\ UNCHANGED <<world, polling, pool, process, history>>

\* workersWg.Wait, then stopDefense, the OnStop hooks and the dashboard.
Drained ==
    /\ pc = "drain"
    /\ alive = {}
    /\ pc' = "tasks"
    /\ UNCHANGED <<world, polling, pool, process, history>>

\* Every registered task is stopped, those included that the program stopped
\* before: closing a closed channel panics, and nothing recovers it.
StopTasks ==
    /\ pc = "tasks"
    /\ IF stopped = {}
       THEN /\ pc' = "stores"
            /\ stopped' = Tasks
            /\ UNCHANGED <<world, polling, pool, front, done, open, runs, history>>
       ELSE Ends("panicked")

CloseStore ==
    /\ pc = "stores"
    /\ open' = Tail(open)
    /\ pc' = IF Len(open) = 1 THEN "returned" ELSE "stores"
    /\ UNCHANGED <<world, polling, pool, front, done, stopped, runs, history>>

-----------------------------------------------------------------------------
Poll == Ask \/ ServeBatch \/ ServeLast \/ Receive \/ \E i \in Ids : PushNext(i)
Web == \E i \in Ids : Enqueue(i) \/ EnqueuePanics(i)
Work(w) == Take(w) \/ Finish(w) \/ Exit(w)
Shutdown == ShutdownServer \/ CloseChannel \/ Drained \/ StopTasks \/ CloseStore

Next ==
    \/ Start \/ Crash \/ Arrive \/ \E i \in Ids : Post(i)
    \/ Poll \/ AskFails \/ Web \/ ServeFails
    \/ \E w \in Workers : Work(w)
    \/ ClearQueue \/ \E t \in Tasks : StopTask(t)
    \/ Interrupt \/ Shutdown

Spec == Init /\ [][Next]_vars

(***************************************************************************)
(* Fairness.  The loops go on, handlers return, a blocked sender has its   *)
(* turn, and the network and the server answer time and again.  Arrivals,  *)
(* signals, crashes, failures and calls of the program are free.           *)
(***************************************************************************)
Fairness ==
    /\ WF_vars(Ask) /\ SF_vars(ServeBatch) /\ SF_vars(Receive)
    /\ WF_vars(Shutdown)
    /\ \A w \in Workers : WF_vars(Work(w))
    /\ \A i \in Ids : WF_vars(PushNext(i)) /\ WF_vars(Post(i)) /\ SF_vars(Enqueue(i))

FairSpec == Spec /\ Fairness

-----------------------------------------------------------------------------
(***************************************************************************)
(* Properties                                                              *)
(***************************************************************************)
Begun == handled \cup ({cur[w] : w \in Workers} \ {None})

\* The variables have their types.
TypeOK ==
    /\ arrived \in 0..MaxUpdates
    /\ gone \in SUBSET Ids /\ posts \in SUBSET Ids /\ batch \in SUBSET Ids
    /\ front \in {"poll", "webhook"}
    /\ pc \in {"top", "asked", "answered", "push", "serve", "closing", "drain", "tasks",
              "stores", "returned", "panicked", "dead"}
    /\ done \in BOOLEAN /\ closed \in BOOLEAN
    /\ offset \in Int /\ offset <= MaxUpdates + 1
    /\ queue \in Seq(Ids)
    /\ cur \in [Workers -> Ids \cup {None}]
    /\ alive \in SUBSET Workers
    /\ stopped \in SUBSET Tasks
    /\ runs \in 0..MaxRuns
    /\ taken \in SUBSET Ids /\ handled \in SUBSET Ids /\ past \in SUBSET Ids

\* An update that the server has forgotten was handled or is in the hands of
\* this process, unless it was cleared from the queue, skipped by the first
\* getUpdates, or went down with an earlier process.
NothingForgotten == gone \subseteq handled \cup InHand \cup past

\* "wait for workers to finish processing": when Go returns after a signal,
\* all that was answered for to the server has been handled.
DrainedOnReturn == pc = "returned" => taken \subseteq handled \cup past

\* Polled updates reach the handlers once in the life of a process, and begin
\* in the order of their ids, whatever replies are lost on the way.
BegunInOrder ==
    front = "poll" /\ Running =>
        /\ \A i \in batch \cup InQueue : \A j \in Begun : j < i
        /\ \A k, l \in DOMAIN queue : k < l => queue[k] < queue[l]

\* No handler runs on storage that is being closed.
OpenWhileHandling == Running /\ (\E w \in Workers : cur[w] # None) => open = Stores

\* "flushed gracefully on shutdown": the shutdown gets to the storage engines.
FlushedOnShutdown == pc # "panicked"

\* A process that is told to stop does so.
ShutdownEnds == Running /\ done ~> ~Running

\* What arrives while the bot runs is handled, or cleared from the queue.
UpdatesHandled ==
    \A i \in Ids : i <= arrived /\ Running ~> i \in handled \cup past \/ done \/ ~Running
=============================================================================
