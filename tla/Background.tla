------------------------------ MODULE Background ------------------------------
(***************************************************************************)
(* What runs in the background under Bot.bgSemaphore: tasks of Ctx.Go, and *)
(* the deletions of Ctx.Purge (context.go).                                *)
(*                                                                         *)
(* Whoever calls Ctx.Go waits for a place before the task begins, also if  *)
(* it is a task itself.  A purge deletes as many messages as are still     *)
(* missing at once, and goes on below them for those it did not find.      *)
(***************************************************************************)
EXTENDS Integers, FiniteSets

CONSTANTS
    Tasks,     \* tasks
    Purges,    \* calls of Purge
    Room,      \* capacity of bgSemaphore; 100 in the code
    Slack,     \* how far a purge looks beyond its count; 50 in the code
    LeastCount, MostCount, \* what becomes of a count that is not positive, and of one above; 5 and 100
    Counts,    \* counts asked for
    TopId,     \* the message from which messages are purged
    Visible    \* sets of messages that can be deleted

VARIABLES
    tasks,   \* per task what it is at
    parent,  \* per task the one that called Go for it, or "handler"
    chat,    \* messages that are there
    purges,  \* per purge where it is
    flying,  \* requests under way: purge and message
    clouded  \* history: purges have overlapped, or a request has failed

backgroundVars == <<tasks, parent, chat, purges, flying, clouded>>

-----------------------------------------------------------------------------
Idle == [at |-> "idle"]
Runs(t) == tasks[t] \in {"runs", "calls"}

\* Places that are taken: by tasks, and by requests of purges.
Taken == Cardinality({t \in Tasks : Runs(t)}) + Cardinality(flying)
Place == Taken < Room

InitBackground ==
    /\ tasks = [t \in Tasks |-> "new"]
    /\ parent = [t \in Tasks |-> "handler"]
    /\ chat \in Visible
    /\ purges = [p \in Purges |-> Idle]
    /\ flying = {}
    /\ clouded = FALSE

-----------------------------------------------------------------------------
\* A handler, or a task that runs, calls Go: it waits.
Call(t) ==
    /\ tasks[t] = "new"
    /\ \/ /\ tasks' = [tasks EXCEPT ![t] = "waits"]
          /\ UNCHANGED parent
       \/ \E caller \in Tasks :
             /\ tasks[caller] = "runs"
             /\ tasks' = [tasks EXCEPT ![t] = "waits", ![caller] = "calls"]
             /\ parent' = [parent EXCEPT ![t] = caller]
    /\ UNCHANGED <<chat, purges, flying, clouded>>

\* There is a place: the task begins and its caller goes on.
Begin(t) ==
    /\ tasks[t] = "waits" /\ Place
    /\ tasks' = [u \in Tasks |-> IF u = t \/ u = parent[t] THEN "runs" ELSE tasks[u]]
    /\ UNCHANGED <<parent, chat, purges, flying, clouded>>

\* Mutation of Return: a task that panics keeps its place.
ReturnKeeps(t) ==
    /\ tasks[t] = "runs"
    /\ tasks' \in {[tasks EXCEPT ![t] = "over"], [tasks EXCEPT ![t] = "calls"]}
    /\ UNCHANGED <<parent, chat, purges, flying, clouded>>

\* The task returns or panics; its place is free in both cases.
Return(t) ==
    /\ tasks[t] = "runs"
    /\ tasks' = [tasks EXCEPT ![t] = "over"]
    /\ UNCHANGED <<parent, chat, purges, flying, clouded>>

-----------------------------------------------------------------------------
Clamped(count) == IF count <= 0 THEN LeastCount ELSE IF count > MostCount THEN MostCount ELSE count
Wave(offset, remaining) == {TopId - offset - i : i \in 0..(remaining - 1)} \cap (1..TopId)

\* Purge: the first wave looks at as many messages as are to go.
Purge(p) ==
    /\ purges[p] = Idle
    /\ \E count \in Counts :
          LET target == Clamped(count)
          IN  purges' = [purges EXCEPT ![p] = [at |-> "wave", target |-> target, offset |-> 0,
                            remaining |-> target, todo |-> Wave(0, target), deleted |-> {}, before |-> chat]]
    /\ clouded' = (clouded \/ \E q \in Purges \ {p} : purges[q].at = "wave")
    /\ UNCHANGED <<tasks, parent, chat, flying>>

\* The next request of a wave, downwards, when there is a place.
Request(p) ==
    /\ purges[p].at = "wave" /\ Place
    /\ \E id \in purges[p].todo :
          /\ \A other \in purges[p].todo : other <= id
          /\ purges' = [purges EXCEPT ![p].todo = @ \ {id}]
          /\ flying' = flying \cup {[purge |-> p, id |-> id]}
    /\ UNCHANGED <<tasks, parent, chat, clouded>>

\* It deletes what is there, unless it fails.
Answer(p) ==
    /\ \E request \in flying :
          /\ request.purge = p
          /\ flying' = flying \ {request}
          /\ \/ /\ request.id \in chat
                /\ chat' = chat \ {request.id}
                /\ purges' = [purges EXCEPT ![p].deleted = @ \cup {request.id}]
                /\ UNCHANGED clouded
             \/ /\ clouded' = (clouded \/ request.id \in chat)
                /\ UNCHANGED <<chat, purges>>
    /\ UNCHANGED <<tasks, parent>>

WaveIsOver(p) ==
    purges[p].at = "wave" /\ purges[p].todo = {} /\ \A request \in flying : request.purge # p

\* What is to do after a wave: nothing, or another one as large as what is missing.
NextWave(purge, offset) ==
    LET missing == purge.target - Cardinality(purge.deleted)
    IN  IF offset >= TopId \/ missing = 0 \/ offset >= purge.target + Slack
        THEN [purge EXCEPT !.at = "over", !.offset = offset]
        ELSE [purge EXCEPT !.offset = offset, !.remaining = missing, !.todo = Wave(offset, missing)]

\* Mutation of NextOffset: by the count asked for.
NextOffsetFar(purge) == purge.offset + purge.target

NextOffset(purge) == purge.offset + purge.remaining

EndWave(p) ==
    /\ WaveIsOver(p)
    /\ purges' = [purges EXCEPT ![p] = NextWave(@, NextOffset(@))]
    /\ UNCHANGED <<tasks, parent, chat, flying, clouded>>

BackgroundNext ==
    \/ \E t \in Tasks : Call(t) \/ Begin(t) \/ Return(t)
    \/ \E p \in Purges : Purge(p) \/ Request(p) \/ Answer(p) \/ EndWave(p)

BackgroundSpec == InitBackground /\ [][BackgroundNext]_backgroundVars

-----------------------------------------------------------------------------
(***************************************************************************)
(* Properties                                                              *)
(***************************************************************************)
\* The variables have their types.
BackgroundTypeOK ==
    /\ tasks \in [Tasks -> {"new", "waits", "runs", "calls", "over"}]
    /\ \A p \in Purges : purges[p].at \in {"idle", "wave", "over"}
    /\ chat \subseteq 1..TopId /\ clouded \in BOOLEAN

\* A purge deletes exactly the newest messages, as many as it was asked for, or all that
\* it came across until it had looked far enough - unless another one ran at the same time
\* or a request failed.
PurgeExact ==
    ~clouded => \A p \in Purges : purges[p].at = "over" =>
        LET purge == purges[p]
        IN  /\ purge.deleted = {id \in purge.before : TopId - purge.offset < id}
            /\ Cardinality(purge.deleted) <= purge.target
            /\ \/ Cardinality(purge.deleted) = purge.target
               \/ purge.offset >= purge.target + Slack
               \/ purge.offset >= TopId

\* Never more run than there are places, and whoever waits for one will get it as long as
\* not all places are held by tasks that wait for one themselves.
Waits(t) == tasks[t] = "calls" /\ \E u \in Tasks : tasks[u] = "waits" /\ parent[u] = t
OnlyNestedTasksStop ==
    /\ Taken <= Room
    /\ Taken = Room =>
          \/ flying # {}
          \/ \E t \in Tasks : tasks[t] = "runs"
          \/ \A t \in Tasks : Runs(t) => Waits(t)

\* The two together.
BackgroundSound == PurgeExact /\ OnlyNestedTasksStop

-----------------------------------------------------------------------------
(***************************************************************************)
(* What the two follow from                                                *)
(***************************************************************************)
\* The tasks that hold a place.
Running == {t \in Tasks : Runs(t)}

\* Who calls Go waits for the one task that waits for a place on its behalf.
Nested ==
    /\ tasks \in [Tasks -> {"new", "waits", "runs", "calls", "over"}]
    /\ parent \in [Tasks -> Tasks \cup {"handler"}]
    /\ \A t \in Tasks : tasks[t] = "new" => parent[t] = "handler"
    /\ \A t \in Tasks : tasks[t] = "waits" /\ parent[t] \in Tasks => tasks[parent[t]] = "calls"
    /\ \A t \in Tasks : tasks[t] = "calls" => Waits(t)
    /\ \A t, u \in Tasks : tasks[t] = "waits" /\ tasks[u] = "waits" /\ parent[t] = parent[u] /\ parent[t] \in Tasks
          => t = u

\* There are no more in the room than there are places.
InRoom == IsFiniteSet(flying) /\ Taken <= Room

\* The messages down to some offset that were there when the purge began, and the purges at a wave.
Above(purge, offset) == {id \in purge.before : TopId - offset < id}
AtWave ==
    [at : {"wave"}, target : Nat, offset : Nat, remaining : Nat, todo : SUBSET Int, deleted : SUBSET Int,
     before : SUBSET (1..TopId)]
Asked == {request.id : request \in flying}

\* A purge that is over has deleted all that there was down to where it came, and no more than it was
\* asked for.
OverExact(purge) ==
    /\ purge.deleted = Above(purge, purge.offset)
    /\ Cardinality(purge.deleted) <= purge.target
    /\ \/ Cardinality(purge.deleted) = purge.target
       \/ purge.offset >= purge.target + Slack
       \/ purge.offset >= TopId

\* One that is at a wave has deleted all above it, and of the wave what has been answered; the wave is
\* as large as what is missing.
WaveExact(p, purge) ==
    /\ purge \in AtWave
    /\ purge.todo \subseteq Wave(purge.offset, purge.remaining)
    /\ Asked \subseteq Wave(purge.offset, purge.remaining) \ purge.todo
    /\ \A request \in flying : request = [purge |-> p, id |-> request.id]
    /\ Cardinality(Above(purge, purge.offset)) + purge.remaining = purge.target
    /\ purge.deleted = Above(purge, purge.offset)
          \cup {id \in purge.before \cap Wave(purge.offset, purge.remaining) : id \notin purge.todo \cup Asked}
    /\ chat = purge.before \ purge.deleted

\* As long as nothing has clouded it, one purge is at a wave at a time, and the requests are its own.
PurgesExact ==
    ~clouded =>
        /\ \A p \in Purges : purges[p].at = "wave" =>
              WaveExact(p, purges[p]) /\ \A q \in Purges : purges[q].at = "wave" => q = p
        /\ \A p \in Purges : purges[p].at = "over" => OverExact(purges[p])
        /\ (\A p \in Purges : purges[p].at # "wave") => flying = {}

\* All that the two follow from.
BackgroundInv ==
    /\ chat \in SUBSET (1..TopId) /\ DOMAIN purges = Purges /\ clouded \in BOOLEAN
    /\ Nested /\ InRoom /\ PurgesExact
=============================================================================
