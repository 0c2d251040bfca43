------------------------------- MODULE Routing -------------------------------
(***************************************************************************)
(* The routing of updates to handlers: processUpdate, bot.go 1213-1372.    *)
(*                                                                         *)
(* Updates of one chat are handled by several workers: each looks up the   *)
(* chat's conversation state, chooses the chain under Bot.mu, keeps the    *)
(* text of the message in the cache, and runs the handlers.                *)
(***************************************************************************)
EXTENDS Naturals, Sequences

CONSTANTS
    Updaters,    \* workers
    Messages,    \* messages of the chat
    RouteTables, \* sets of routes that bots may have registered
    MaxVersions, \* bound: versions of a message
    MaxUpdates   \* bound: updates

VARIABLES
    routes,  \* the routes registered, the empty set before
    state,   \* the session's state: "" or "asked"
    kept,    \* the cache's texts: per message the version, 0 if none
    sent,    \* per message the last version that arrived
    jobs,    \* per worker the update in hand, or Rest
    crossed, \* history: messages of which two updates were in hand at once, or whose text expired
    prev,    \* history: for the edits handled, <<message, version, PrevText>>
    taken    \* bound counter

routingVars == <<routes, state, kept, sent, jobs, crossed, prev, taken>>

-----------------------------------------------------------------------------
Rest == [at |-> "rest"]

InitRouting ==
    /\ routes = {}
    /\ state = ""
    /\ kept = [m \in Messages |-> 0] /\ sent = kept
    /\ jobs = [w \in Updaters |-> Rest]
    /\ crossed = {}
    /\ prev = {}
    /\ taken = 0

\* The bot registers its routes and starts.
Registered ==
    /\ routes = {}
    /\ routes' \in RouteTables
    /\ UNCHANGED <<state, kept, sent, jobs, crossed, prev, taken>>

Kinds == {"text", "edit", "command", "join", "exit", "query", "checkout"}

\* The routes that are tried for an update, in order, by the state looked up before.
Candidates(kind, st) ==
    CASE kind = "text"     -> IF st = "" THEN <<"text", "any">> ELSE <<"state", "text", "any">>
      [] kind = "edit"     -> <<"edit">>
      [] kind = "command"  -> <<"command", "any">>
      [] kind = "join"     -> <<"_sys_join">>
      [] kind = "exit"     -> <<"_sys_exit">>
      [] kind = "query"    -> <<"data", "prefix">>
      [] kind = "checkout" -> <<"checkout">>

\* The first that is registered, or none.
Chosen(kind, st) ==
    LET tried == Candidates(kind, st)
        found == {k \in DOMAIN tried : tried[k] \in routes}
    IN  IF found = {} THEN "none" ELSE tried[CHOOSE k \in found : \A l \in found : k <= l]

Update(kind, m, version) ==
    [at |-> "state", kind |-> kind, of |-> m, version |-> version, state |-> "", route |-> "none", prev |-> 0]

\* An update arrives at a worker: a message whose text counts, the next edit of one,
\* or another update.
Take(w) ==
    /\ routes # {} /\ jobs[w] = Rest /\ taken < MaxUpdates
    /\ taken' = taken + 1
    /\ \/ \E m \in Messages :
             /\ sent[m] < MaxVersions
             /\ sent' = [sent EXCEPT ![m] = @ + 1]
             /\ jobs' = [jobs EXCEPT ![w] = Update(IF sent[m] = 0 THEN "text" ELSE "edit", m, sent'[m])]
             /\ crossed' = IF \E v \in Updaters : jobs[v] # Rest /\ jobs[v].of = m THEN crossed \cup {m} ELSE crossed
       \/ /\ \E kind \in Kinds \ {"text", "edit"} : jobs' = [jobs EXCEPT ![w] = Update(kind, "other", 0)]
          /\ UNCHANGED <<sent, crossed>>
    /\ UNCHANGED <<routes, state, kept, prev>>

\* The state is looked up before Bot.mu is taken.
Look(w) ==
    /\ jobs[w] # Rest /\ jobs[w].at = "state"
    /\ jobs' = [jobs EXCEPT ![w].at = "route",
                            ![w].state = IF jobs[w].kind \in {"text", "command", "join", "exit"} THEN state ELSE ""]
    /\ UNCHANGED <<routes, state, kept, sent, crossed, prev, taken>>

\* Mutation of Choose: an edit does not replace the text in the cache.
ChooseUncached(w) ==
    /\ jobs[w] # Rest /\ jobs[w].at = "route"
    /\ LET job == jobs[w]
       IN  /\ jobs' = [jobs EXCEPT ![w].at = "run", ![w].route = Chosen(job.kind, job.state),
                                   ![w].prev = IF job.kind = "edit" THEN kept[job.of] ELSE 0]
           /\ kept' = IF job.kind = "text" THEN [kept EXCEPT ![job.of] = job.version] ELSE kept
    /\ UNCHANGED <<routes, state, sent, crossed, prev, taken>>

\* The chain is put together; a message's text goes into the cache, and an edit gets
\* the text that was there before it.
Choose(w) ==
    /\ jobs[w] # Rest /\ jobs[w].at = "route"
    /\ LET job == jobs[w]
       IN  /\ jobs' = [jobs EXCEPT ![w].at = "run", ![w].route = Chosen(job.kind, job.state),
                                   ![w].prev = IF job.kind = "edit" THEN kept[job.of] ELSE 0]
           /\ kept' = IF job.kind \in {"text", "edit"} THEN [kept EXCEPT ![job.of] = job.version] ELSE kept
    /\ UNCHANGED <<routes, state, sent, crossed, prev, taken>>

\* The handlers run; those of a message may leave another state.  The context goes
\* back to its pool without prevText.
Run(w) ==
    /\ jobs[w] # Rest /\ jobs[w].at = "run"
    /\ IF jobs[w].route \in {"command", "state", "text", "any"} THEN state' \in {"", "asked"} ELSE UNCHANGED state
    /\ prev' = prev \cup {<<j.of, j.version, j.prev>> : j \in {x \in {jobs[w]} : x.route = "edit"}}
    /\ jobs' = [jobs EXCEPT ![w] = Rest]
    /\ UNCHANGED <<routes, kept, sent, crossed, taken>>

\* The cache forgets a text a day after it was stored.
Forget ==
    /\ \E m \in Messages : kept[m] # 0 /\ kept' = [kept EXCEPT ![m] = 0] /\ crossed' = crossed \cup {m}
    /\ UNCHANGED <<routes, state, sent, jobs, prev, taken>>

RoutingNext ==
    \/ Registered \/ Forget
    \/ \E w \in Updaters : Take(w) \/ Look(w) \/ Choose(w) \/ Run(w)

-----------------------------------------------------------------------------
\* The variables have their types.
RoutingTypeOK ==
    /\ \A m \in Messages : kept[m] \in 0..sent[m] /\ sent[m] \in 0..MaxVersions
    /\ state \in {"", "asked"}
    /\ \A w \in Updaters : jobs[w] = Rest \/ jobs[w].kind \in Kinds
    /\ taken \in 0..MaxUpdates

\* PrevText "returns original message text before being edited", and the cache holds
\* the last text of a message that no worker has in hand: for messages whose updates
\* were handled one after the other, however other updates fall between.  Two workers
\* that have an edit and the message at the same time may leave the older text.
TextOfLatest ==
    /\ \A p \in prev : p[1] \notin crossed => p[3] = p[2] - 1
    /\ \A m \in Messages \ crossed :
          (\A w \in Updaters : jobs[w] = Rest \/ jobs[w].of # m) => kept[m] = sent[m]
=============================================================================
