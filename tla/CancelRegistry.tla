---------------------------- MODULE CancelRegistry ----------------------------
(***************************************************************************)
(* The registry through which a chat cancels its downloads or uploads, and *)
(* the workers of the pool that registers in it (transfer.go).             *)
(*                                                                         *)
(* A job is a number; nil is 0.  The list of the chat is changed under a   *)
(* lock; cancelAll takes it under that lock and walks it without.          *)
(***************************************************************************)
EXTENDS Naturals, FiniteSets, Sequences

CONSTANTS
    Workers, Cancellers,
    QueueCap,  \* jobs that jobChan holds: 1000
    MaxRuns    \* bound: jobs

VARIABLES
    queued,    \* jobChan
    running,   \* per worker the job, its index in the list and what it is at
    registry,  \* the list of the chat; <<>> when the map has none
    cancels,   \* per canceller what is left of the list it took, and what it owes
    runs,      \* jobs so far
    cancelled, \* history: the jobs that have been cancelled
    meant      \* history: the jobs that ran when some cancelAll was called

registryVars == <<queued, running, registry, cancels, runs, cancelled, meant>>

-----------------------------------------------------------------------------
Idle == [at |-> "idle", job |-> 0, index |-> 0]
Resting == [at |-> "rest", list |-> <<>>, due |-> {}]

InitRegistry ==
    /\ queued = <<>>
    /\ running = [w \in Workers |-> Idle]
    /\ registry = <<>>
    /\ cancels = [c \in Cancellers |-> Resting]
    /\ runs = 0
    /\ cancelled = {}
    /\ meant = {}

\* Queue().Go: a handler hands a job over and waits for its result.
Enqueue ==
    /\ runs < MaxRuns /\ Len(queued) < QueueCap
    /\ runs' = runs + 1
    /\ queued' = Append(queued, runs')
    /\ UNCHANGED <<running, registry, cancels, cancelled, meant>>

\* A worker takes the next job.
Take(w) ==
    /\ running[w] = Idle /\ queued # <<>>
    /\ running' = [running EXCEPT ![w] = [at |-> "taken", job |-> Head(queued), index |-> 0]]
    /\ queued' = Tail(queued)
    /\ UNCHANGED <<registry, cancels, runs, cancelled, meant>>

\* add: at the end of the list.
Add(w) ==
    /\ running[w].at = "taken"
    /\ registry' = Append(registry, running[w].job)
    /\ running' = [running EXCEPT ![w].at = "runs", ![w].index = Len(registry')]
    /\ UNCHANGED <<queued, cancels, runs, cancelled, meant>>

\* Mutation of Without: the others move up.
WithoutShifted(index) == IF index \in DOMAIN registry 
    THEN SubSeq(registry, 1, index - 1) \o SubSeq(registry, index + 1, Len(registry)) ELSE registry

\* The entry becomes nil, so that the others keep their indices; a list of nil goes.
Without(index) ==
    LET list == [i \in DOMAIN registry |-> IF i = index THEN 0 ELSE registry[i]]
    IN  IF \A i \in DOMAIN list : list[i] = 0 THEN <<>> ELSE list

\* The transfer has ended, cancelled or not: its entry is removed, and its context
\* is released, which counts as cancelled for nobody.
Ends(w) ==
    /\ running[w].at = "runs"
    /\ registry' = Without(running[w].index)
    /\ running' = [running EXCEPT ![w].at = "ended"]
    /\ UNCHANGED <<queued, cancels, runs, cancelled, meant>>

\* The result goes to who waits for it; its channel has room for one.
Answer(w) ==
    /\ running[w].at = "ended"
    /\ running' = [running EXCEPT ![w] = Idle]
    /\ UNCHANGED <<queued, registry, cancels, runs, cancelled, meant>>

-----------------------------------------------------------------------------
Running == {running[w].job : w \in {v \in Workers : running[v].at = "runs"}}

\* cancelAll: the list under the lock.
CancelRead(c) ==
    /\ cancels[c] = Resting /\ registry # <<>>
    /\ cancels' = [cancels EXCEPT ![c] = [at |-> "walk", list |-> registry, due |-> Running]]
    /\ meant' = meant \cup Running
    /\ UNCHANGED <<queued, running, registry, runs, cancelled>>

\* One entry of it after the other.  The array is the one that remove writes nil
\* into, unless add has moved the list to a larger one.
CancelNext(c) ==
    /\ cancels[c].list # <<>>
    /\ \E entry \in {Head(cancels[c].list), 0} :
          /\ entry = 0 => ~Head(cancels[c].list) \in Running
          /\ cancelled' = cancelled \cup ({entry} \ {0})
    /\ cancels' = [cancels EXCEPT ![c].list = Tail(@)]
    /\ UNCHANGED <<queued, running, registry, runs, meant>>

CancelReturn(c) ==
    /\ cancels[c].at = "walk" /\ cancels[c].list = <<>>
    /\ cancels' = [cancels EXCEPT ![c] = Resting]
    /\ UNCHANGED <<queued, running, registry, runs, cancelled, meant>>

RegistryNext ==
    \/ Enqueue
    \/ \E w \in Workers : Take(w) \/ Add(w) \/ Ends(w) \/ Answer(w)
    \/ \E c \in Cancellers : CancelRead(c) \/ CancelNext(c) \/ CancelReturn(c)

RegistrySpec == InitRegistry /\ [][RegistryNext]_registryVars

-----------------------------------------------------------------------------
(***************************************************************************)
(* Properties                                                              *)
(***************************************************************************)
\* The variables have their types.
RegistryTypeOK ==
    /\ queued \in Seq(1..MaxRuns) /\ registry \in Seq(0..MaxRuns)
    /\ \A w \in Workers : running[w].at \in {"idle", "taken", "runs", "ended"}
    /\ runs \in 0..MaxRuns /\ cancelled \subseteq 1..MaxRuns

\* When cancelAll returns, every transfer that ran when it was called has been
\* cancelled or has ended, however transfers began and ended meanwhile; and no transfer
\* is cancelled that did not run when some cancelAll was called, such as the next one
\* with the place in the list of one that has ended.
CancelReaches ==
    /\ \A c \in Cancellers :
          cancels[c].at = "walk" /\ cancels[c].list = <<>> =>
              cancels[c].due \cap Running \subseteq cancelled
    /\ cancelled \subseteq meant

\* The list of a chat holds its running transfers, each once, and is forgotten with
\* the last of them.
RegistryExact ==
    /\ \A job \in Running : Cardinality({i \in DOMAIN registry : registry[i] = job}) = 1
    /\ {registry[i] : i \in DOMAIN registry} \ {0} = Running
    /\ Running = {} => registry = <<>>

-----------------------------------------------------------------------------
(***************************************************************************)
(* The invariant that makes RegistryExact and CancelReaches hold.          *)
(***************************************************************************)
RegistryShapes ==
    /\ queued \in Seq(Nat) /\ registry \in Seq(Nat) /\ runs \in Nat
    /\ running \in [Workers -> [at : {"idle", "taken", "runs", "ended"}, job : Nat, index : Nat]]
    /\ cancels \in [Cancellers -> [at : {"rest", "walk"}, list : Seq(Nat), due : SUBSET Nat]]

\* What has been cancelled, and what is still to be, ran when some cancelAll was called.
OnlyMeant ==
    /\ cancelled \subseteq meant
    /\ \A c \in Cancellers : \A i \in DOMAIN cancels[c].list :
          cancels[c].list[i] # 0 => cancels[c].list[i] \in meant

\* A job is in one place: once in the queue, or with one worker.
Early == {queued[i] : i \in DOMAIN queued} \cup {running[w].job : w \in {v \in Workers : running[v].at = "taken"}}
OncePlaced ==
    /\ \A i \in DOMAIN queued : queued[i] \in 1..runs
    /\ \A i, j \in DOMAIN queued : queued[i] = queued[j] => i = j
    /\ \A w \in Workers : running[w].at # "idle" =>
          /\ running[w].job \in 1..runs
          /\ \A i \in DOMAIN queued : queued[i] # running[w].job
          /\ \A v \in Workers : running[v].at # "idle" /\ running[v].job = running[w].job => v = w

\* Who runs knows the place of its job in the list, and what is in the list is with one who runs.
Listed ==
    /\ \A w \in Workers : running[w].at = "runs" =>
          running[w].index \in DOMAIN registry /\ registry[running[w].index] = running[w].job
    /\ \A i \in DOMAIN registry : registry[i] # 0 =>
          \E w \in Workers : running[w].at = "runs" /\ running[w].index = i /\ running[w].job = registry[i]
    /\ registry # <<>> => \E i \in DOMAIN registry : registry[i] # 0

\* What is due and still runs has been cancelled or is in the rest of the list; nothing that is due
\* is yet to begin.
DueOrDone ==
    \A c \in Cancellers :
       /\ cancels[c].at = "rest" => cancels[c].list = <<>>
       /\ cancels[c].at = "walk" =>
             /\ cancels[c].due \subseteq (1..runs) \ Early
             /\ \A job \in cancels[c].due \cap Running :
                   job \in cancelled \/ \E i \in DOMAIN cancels[c].list : cancels[c].list[i] = job

RegistryInv == RegistryShapes /\ OncePlaced /\ Listed /\ DueOrDone /\ OnlyMeant
=============================================================================
