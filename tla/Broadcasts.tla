------------------------------ MODULE Broadcasts ------------------------------
(***************************************************************************)
(* A message to many users (send.go, BroadcastChain): workers take the     *)
(* users from a closed channel and send to one at a time.                  *)
(*                                                                         *)
(* Every worker gives the same value to Photo or Doc.  A reader among them *)
(* that cannot be moved back is read by all, and at its end after that.    *)
(***************************************************************************)
EXTENDS Naturals, FiniteSets

CONSTANTS
    Updaters,  \* the workers of a broadcast
    Users,     \* how many users there are
    MaxRefused \* bound: users to whom nothing can be sent

VARIABLES
    what,     \* what is sent: a "text", an "id", a "reader", or "nothing"
    fresh,    \* whether the reader is at its beginning
    jobs,     \* users in the channel
    workers,  \* per worker what it is at
    sent, failed, \* the totals
    refused,  \* bound counter
    got,      \* per user what has arrived: "none", "empty", "part" or "whole"
    tried,    \* history: per user how often Go was called
    results   \* history: what OnResult was told, per user

broadcastVars == <<what, fresh, jobs, workers, sent, failed, refused, got, tried, results>>

-----------------------------------------------------------------------------
All == 1..Users
Free == [at |-> "free", user |-> 0, ok |-> TRUE]
Over == [at |-> "over", user |-> 0, ok |-> TRUE]

\* BroadcastChain.Go puts all users into the channel, closes it and starts the workers.
InitBroadcasts ==
    /\ what \in {"text", "id", "reader", "nothing"}
    /\ fresh = TRUE
    /\ jobs = All
    /\ workers = [u \in Updaters |-> Free]
    /\ sent = 0 /\ failed = 0 /\ refused = 0
    /\ got = [n \in All |-> "none"]
    /\ tried = [n \in All |-> 0]
    /\ results = [n \in All |-> "none"]

First == CHOOSE n \in jobs : \A m \in jobs : n <= m

\* Mutation of Take: two workers see the same user.
TakeSame(u) ==
    /\ workers[u] = Free
    /\ IF jobs = {} THEN workers' = [workers EXCEPT ![u] = Over] /\ UNCHANGED jobs
       ELSE /\ workers' = [workers EXCEPT ![u] = [Free EXCEPT !.at = "send", !.user = First]]
            /\ jobs' \in {jobs, jobs \ {First}}
    /\ UNCHANGED <<what, fresh, sent, failed, refused, got, tried, results>>

\* A worker takes the next user, or ends when there is none.
Take(u) ==
    /\ workers[u] = Free
    /\ IF jobs = {} THEN workers' = [workers EXCEPT ![u] = Over] /\ UNCHANGED jobs
       ELSE /\ workers' = [workers EXCEPT ![u] = [Free EXCEPT !.at = "send", !.user = First]]
            /\ jobs' = jobs \ {First}
    /\ UNCHANGED <<what, fresh, sent, failed, refused, got, tried, results>>

\* What can arrive: of a reader a part when another worker is reading it.
Arrives(u) ==
    IF what = "nothing" THEN {"none"}
    ELSE IF what # "reader" THEN {"whole"}
    ELSE {IF fresh THEN "whole" ELSE "empty"}
            \cup (IF \E v \in Updaters \ {u} : workers[v].at = "send" THEN {"part"} ELSE {})

\* Mutation of Send: a user to whom nothing could be sent counts as sent.
SendAnyway(u) ==
    LET n == workers[u].user
    IN  /\ workers[u].at = "send"
        /\ tried' = [tried EXCEPT ![n] = @ + 1]
        /\ \E g \in {"none"} \cup Arrives(u) : got' = [got EXCEPT ![n] = g]
        /\ workers' = [workers EXCEPT ![u].at = "count"]
        /\ fresh' = (fresh /\ what # "reader")
        /\ UNCHANGED <<what, jobs, sent, failed, results, refused>>

\* It sends to that user.  With nothing set there is no error either.
Send(u) ==
    LET n == workers[u].user
    IN  /\ workers[u].at = "send"
        /\ tried' = [tried EXCEPT ![n] = @ + 1]
        /\ \/ /\ \E g \in Arrives(u) : got' = [got EXCEPT ![n] = g]
              /\ workers' = [workers EXCEPT ![u].at = "count"]
              /\ UNCHANGED refused
           \/ /\ what # "nothing" /\ refused < MaxRefused
              /\ refused' = refused + 1
              /\ workers' = [workers EXCEPT ![u].at = "count", ![u].ok = FALSE]
              /\ UNCHANGED got
        /\ fresh' = (fresh /\ what # "reader")
        /\ UNCHANGED <<what, jobs, sent, failed, results>>

\* Under the lock it counts, then tells the caller.
Count(u) ==
    LET w == workers[u]
    IN  /\ w.at = "count"
        /\ sent' = sent + (IF w.ok THEN 1 ELSE 0)
        /\ failed' = failed + (IF w.ok THEN 0 ELSE 1)
        /\ workers' = [workers EXCEPT ![u].at = "tell"]
        /\ UNCHANGED <<what, fresh, jobs, refused, got, tried, results>>

Tell(u) ==
    LET w == workers[u]
    IN  /\ w.at = "tell"
        /\ results' = [results EXCEPT ![w.user] = IF w.ok THEN "sent" ELSE "failed"]
        /\ workers' = [workers EXCEPT ![u] = Free]
        /\ UNCHANGED <<what, fresh, jobs, sent, failed, refused, got, tried>>

BroadcastsNext == \E u \in Updaters : Take(u) \/ Send(u) \/ Count(u) \/ Tell(u)

BroadcastsSpec == InitBroadcasts /\ [][BroadcastsNext]_broadcastVars

-----------------------------------------------------------------------------
(***************************************************************************)
(* Properties                                                              *)
(***************************************************************************)
\* The variables have their types.
BroadcastsTypeOK ==
    /\ jobs \subseteq All /\ sent \in 0..Users /\ failed \in 0..Users
    /\ \A u \in Updaters : workers[u].at \in {"free", "send", "count", "tell", "over"}

\* When Go returns - all workers are over - every user was tried exactly once and told of
\* once, the totals are those results, and whoever counts as sent has the whole message:
\* unless it came from a reader, of which only one user has the whole, or nothing was set.
EachOnce ==
    /\ \A n \in All : tried[n] <= 1
    /\ (\A u \in Updaters : workers[u] = Over) =>
          /\ \A n \in All : tried[n] = 1
          /\ sent = Cardinality({n \in All : results[n] = "sent"})
          /\ failed = Cardinality({n \in All : results[n] = "failed"})
          /\ sent + failed = Users
          /\ \A n \in All : results[n] = "sent" /\ what \in {"text", "id"} => got[n] = "whole"
          /\ what = "reader" => Cardinality({n \in All : got[n] = "whole"}) <= 1

-----------------------------------------------------------------------------
(***************************************************************************)
(* What it follows from                                                    *)
(***************************************************************************)
\* What a worker is, and the types of what the invariant speaks of.
States == [at : {"free", "send", "count", "tell", "over"}, user : 0..Users, ok : BOOLEAN]
BroadcastShapes ==
    /\ jobs \in SUBSET All
    /\ workers \in [Updaters -> States]
    /\ what \in {"text", "id", "reader", "nothing"} /\ fresh \in BOOLEAN
    /\ sent \in Nat /\ failed \in Nat
    /\ got \in [All -> {"none", "empty", "part", "whole"}]
    /\ tried \in [All -> 0..1] /\ results \in [All -> {"none", "sent", "failed"}]

\* A worker has a user whom it has not told of.
Holds(u) == workers[u].at \in {"send", "count", "tell"}

\* Every user is in the channel, or one worker has it, or it has a result.
OnePlace ==
    /\ \A u \in Updaters : IF Holds(u) THEN workers[u].user \in All \ jobs ELSE workers[u] \in {Free, Over}
    /\ \A u \in Updaters : workers[u] = Over => jobs = {}
    /\ \A u, v \in Updaters : Holds(u) /\ Holds(v) /\ workers[u].user = workers[v].user => u = v
    /\ \A n \in All : n \in jobs \/ results[n] # "none" \/ \E u \in Updaters : Holds(u) /\ workers[u].user = n
    /\ \A n \in jobs : tried[n] = 0 /\ results[n] = "none"
    /\ \A n \in All : results[n] # "none" => tried[n] = 1
    /\ \A u \in Updaters : Holds(u) =>
          results[workers[u].user] = "none" /\ tried[workers[u].user] = IF workers[u].at = "send" THEN 0 ELSE 1

\* Users with a result, and workers that have counted one they have not told of.
Reported(result) == {n \in All : results[n] = result}
Telling(ok) == {u \in Updaters : workers[u].at = "tell" /\ workers[u].ok = ok}

\* The totals are those.
Tallied ==
    /\ sent = Cardinality(Reported("sent")) + Cardinality(Telling(TRUE))
    /\ failed = Cardinality(Reported("failed")) + Cardinality(Telling(FALSE))

\* What has arrived where Go returned no error, and of a reader at whom.
Arrived ==
    /\ what \in {"text", "id"} =>
          /\ \A n \in All : results[n] = "sent" => got[n] = "whole"
          /\ \A u \in Updaters : workers[u].at \in {"count", "tell"} /\ workers[u].ok => got[workers[u].user] = "whole"
    /\ what = "reader" =>
          /\ fresh => \A n \in All : got[n] # "whole"
          /\ \A n, m \in All : got[n] = "whole" /\ got[m] = "whole" => n = m

\* All that EachOnce follows from.
BroadcastInv == BroadcastShapes /\ OnePlace /\ Tallied /\ Arrived
=============================================================================
