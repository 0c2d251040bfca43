----------------------------- MODULE ApiClient -----------------------------
(***************************************************************************)
(* The HTTP client of client.go, through which every goroutine of the bot  *)
(* calls the Bale API: the circuit breaker CB, whose fields are separate   *)
(* atomics, and the retry loops of BaseRequest and BaseRequestMultipart.   *)
(* A caller is a program counter: one step is one atomic operation, one    *)
(* critical section, or one wait.                                          *)
(*                                                                         *)
(* Time is counted in ticks and kept relative to now, so that it needs no  *)
(* bound: since is the age of CB.lastFail.                                 *)
(***************************************************************************)
EXTENDS Naturals

CONSTANTS
    Callers,      \* goroutines that call the API
    Threshold,    \* CB.threshold: failures that open the breaker
    Cooldown,     \* CB.cooldown, in ticks
    Attempts,     \* network attempts of one round (3)
    Max429,       \* maxRetries429 (5)
    Replies,      \* ends a call may come to while the API is up, out of AllReplies
    NoCaller      \* nobody owns the half-open period

AllReplies == {"ok", "refused", "limited", "abandoned", "unsent", "torn"}

ASSUME CallersAssumption == NoCaller \notin Callers
ASSUME BreakerAssumption == Threshold \in Nat \ {0} /\ Cooldown \in Nat
ASSUME RetryAssumption == Attempts \in Nat \ {0} /\ Max429 \in Nat
ASSUME RepliesAssumption == Replies \subseteq AllReplies

VARIABLES
    state,      \* CB.state
    fails,      \* CB.fails, saturating at Threshold
    since,      \* age of CB.lastFail, saturating at Cooldown + 1
    halfAllow,  \* CB.halfAllow
    pc,         \* where each caller is
    attempt,    \* per caller, network attempts made in this round
    retries,    \* per caller, retries429
    server,     \* whether the API is up
    owner,      \* history: whose CAS opened the last half-open period
    lost        \* history: the owner's request ended without being recorded

breaker == <<state, fails, since, halfAllow>>
rounds == <<attempt, retries>>
history == <<owner, lost>>
vars == <<breaker, pc, rounds, server, history>>

-----------------------------------------------------------------------------
Lesser(a, b) == IF a < b THEN a ELSE b

Go(c, from, to) == pc[c] = from /\ pc' = [pc EXCEPT ![c] = to]

Init ==
    /\ state = "closed"
    /\ fails = 0
    /\ since = Cooldown + 1
    /\ halfAllow = 0
    /\ pc = [c \in Callers |-> "idle"]
    /\ attempt = [c \in Callers |-> 0]
    /\ retries = [c \in Callers |-> 0]
    /\ server = "up"
    /\ owner = NoCaller
    /\ lost = FALSE

-----------------------------------------------------------------------------
(***************************************************************************)
(* CB.CanExecute.                                                          *)
(***************************************************************************)
Call(c) ==
    /\ Go(c, "idle", CASE state = "closed" -> "limit"
                       [] state = "open" -> "cooling"
                       [] state = "half" -> "probe")
    /\ UNCHANGED <<breaker, rounds, server, history>>

\* The age of the last failure decides; a caller that finds it too young is
\* turned away.
LoadLastFail(c) ==
    /\ Go(c, "cooling", IF since > Cooldown THEN "claim" ELSE "idle")
    /\ UNCHANGED <<breaker, rounds, server, history>>

\* Mutation of Claim: the caller that moves the breaker to half-open is turned
\* away like the others.
ClaimRejects(c) ==
    /\ Go(c, "claim", "idle")
    /\ IF state = "open"
       THEN state' = "half" /\ owner' = c /\ lost' = FALSE
       ELSE UNCHANGED <<state, owner, lost>>
    /\ UNCHANGED <<fails, since, halfAllow, rounds, server>>

\* CompareAndSwap(state, open, half).
Claim(c) ==
    /\ Go(c, "claim", IF state = "open" THEN "allow" ELSE "idle")
    /\ IF state = "open"
       THEN state' = "half" /\ owner' = c /\ lost' = FALSE
       ELSE UNCHANGED <<state, owner, lost>>
    /\ UNCHANGED <<fails, since, halfAllow, rounds, server>>

Allow(c) ==
    /\ Go(c, "allow", "limit")
    /\ halfAllow' = 1
    /\ UNCHANGED <<state, fails, since, rounds, server, history>>

\* CompareAndSwap(halfAllow, 1, 0).
Probe(c) ==
    /\ Go(c, "probe", IF halfAllow = 1 THEN "limit" ELSE "idle")
    /\ halfAllow' = 0
    /\ UNCHANGED <<state, fails, since, rounds, server, history>>

-----------------------------------------------------------------------------
(***************************************************************************)
(* RL.Wait lets the caller through after a while: RateLimiter says when.   *)
(***************************************************************************)

Wait(c) ==
    /\ Go(c, "limit", "send")
    /\ attempt' = [attempt EXCEPT ![c] = 1]
    /\ UNCHANGED <<breaker, retries, server, history>>

-----------------------------------------------------------------------------
(***************************************************************************)
(* BaseRequest after the token.                                            *)
(***************************************************************************)

\* The loops of the call are left.
Leaves(c) ==
    /\ retries' = [retries EXCEPT ![c] = 0]
    /\ attempt' = [attempt EXCEPT ![c] = 0]

\* The call is over and the breaker was told nothing.
Unrecorded(c) ==
    /\ Leaves(c)
    /\ lost' = (lost \/ (state = "half" /\ owner = c))
    /\ UNCHANGED owner

\* Nothing is sent: params cannot be encoded, or DryRun intercepts the call.
Unsent(c) ==
    /\ "unsent" \in Replies
    /\ retries[c] = 0
    /\ Go(c, "limit", "idle")
    /\ Unrecorded(c)
    /\ UNCHANGED <<breaker, server>>

\* The context is cancelled while the caller waits for a token, for the
\* response, between attempts, or for the end of a 429.
Cancel(c) ==
    /\ "abandoned" \in Replies
    /\ \/ Go(c, "limit", "idle")
       \/ Go(c, "send", "idle")
       \/ Go(c, "pause", "idle")
    /\ Unrecorded(c)
    /\ UNCHANGED <<breaker, server>>

\* An upload is cancelled while its response is read: unlike in BaseRequest,
\* that counts as a failure.
CancelUpload(c) ==
    /\ "torn" \in Replies
    /\ server = "up"
    /\ Go(c, "send", "failed")
    /\ Leaves(c)
    /\ UNCHANGED <<breaker, server, history>>

\* A network error: Attempts in a row count as one failure.
NetError(c) ==
    /\ server = "down"
    /\ IF attempt[c] < Attempts
       THEN /\ Go(c, "send", "send")
            /\ attempt' = [attempt EXCEPT ![c] = @ + 1]
            /\ UNCHANGED retries
       ELSE Go(c, "send", "failed") /\ Leaves(c)
    /\ UNCHANGED <<breaker, server, history>>

\* A body that cannot be read or parsed, or a code of 500 and above.
BadReply(c) ==
    /\ server = "down"
    /\ Go(c, "send", "failed")
    /\ Leaves(c)
    /\ UNCHANGED <<breaker, server, history>>

ReplyOK(c) ==
    /\ server = "up"
    /\ "ok" \in Replies
    /\ Go(c, "send", "succeeded")
    /\ Leaves(c)
    /\ UNCHANGED <<breaker, server, history>>

\* An error code below 500, other than 429.
Refused(c) ==
    /\ server = "up"
    /\ "refused" \in Replies
    /\ Go(c, "send", "idle")
    /\ Unrecorded(c)
    /\ UNCHANGED <<breaker, server>>

\* Mutation of Limited: the retries are not counted.
LimitedForever(c) ==
    /\ server = "up"
    /\ "limited" \in Replies
    /\ Go(c, "send", "pause")
    /\ attempt' = [attempt EXCEPT ![c] = 0]
    /\ UNCHANGED <<breaker, retries, server, history>>

\* Code 429: the call waits and starts over with a new token, Max429 times.
Limited(c) ==
    /\ server = "up"
    /\ "limited" \in Replies
    /\ \/ /\ retries[c] < Max429
          /\ Go(c, "send", "pause")
          /\ retries' = [retries EXCEPT ![c] = @ + 1]
          /\ attempt' = [attempt EXCEPT ![c] = 0]
          /\ UNCHANGED history
       \/ /\ retries[c] = Max429
          /\ Go(c, "send", "idle")
          /\ Unrecorded(c)
    /\ UNCHANGED <<breaker, server>>

Resume(c) ==
    /\ Go(c, "pause", "limit")
    /\ UNCHANGED <<breaker, rounds, server, history>>

-----------------------------------------------------------------------------
(***************************************************************************)
(* CB.RecordSuccess and CB.RecordFailure.                                  *)
(***************************************************************************)
\* Mutation of LoadSuccess: only the counter is reset after a probe.
LoadSuccessForgets(c) ==
    /\ Go(c, "succeeded", IF state = "open" THEN "idle" ELSE "forget")
    /\ UNCHANGED <<breaker, rounds, server, history>>

LoadSuccess(c) ==
    /\ Go(c, "succeeded", CASE state = "closed" -> "forget"
                            [] state = "open" -> "idle"
                            [] state = "half" -> "reset")
    /\ UNCHANGED <<breaker, rounds, server, history>>

\* fails = 0, when the breaker was closed.
Forget(c) ==
    /\ Go(c, "forget", "idle")
    /\ fails' = 0
    /\ UNCHANGED <<state, since, halfAllow, rounds, server, history>>

\* fails = 0 and then, in a step of its own, state = closed.
ResetFails(c) ==
    /\ Go(c, "reset", "close")
    /\ fails' = 0
    /\ UNCHANGED <<state, since, halfAllow, rounds, server, history>>

CloseBreaker(c) ==
    /\ Go(c, "close", "idle")
    /\ state' = "closed"
    /\ UNCHANGED <<fails, since, halfAllow, rounds, server, history>>

LoadFailure(c) ==
    /\ Go(c, "failed", IF state = "half" THEN "open" ELSE "count")
    /\ UNCHANGED <<breaker, rounds, server, history>>

CountFail(c) ==
    /\ fails' = Lesser(fails + 1, Threshold)
    /\ Go(c, "count", IF fails + 1 >= Threshold THEN "open" ELSE "idle")
    /\ UNCHANGED <<state, since, halfAllow, rounds, server, history>>

\* state = open, and lastFail only in the next step.
OpenBreaker(c) ==
    /\ Go(c, "open", "stamp")
    /\ state' = "open"
    /\ UNCHANGED <<fails, since, halfAllow, rounds, server, history>>

Stamp(c) ==
    /\ Go(c, "stamp", "idle")
    /\ since' = 0
    /\ UNCHANGED <<state, fails, halfAllow, rounds, server, history>>

-----------------------------------------------------------------------------
Tick ==
    /\ since' = Lesser(since + 1, Cooldown + 1)
    /\ UNCHANGED <<state, fails, halfAllow, pc, rounds, server, history>>

ServerTurns ==
    /\ server' = IF server = "up" THEN "down" ELSE "up"
    /\ UNCHANGED <<breaker, pc, rounds, history>>

CanExecute(c) == LoadLastFail(c) \/ Claim(c) \/ Allow(c) \/ Probe(c)
Unfinished(c) == Unsent(c) \/ Cancel(c) \/ CancelUpload(c)
Reply(c) == NetError(c) \/ BadReply(c) \/ ReplyOK(c) \/ Refused(c) \/ Limited(c)
Record(c) ==
    \/ LoadSuccess(c) \/ Forget(c) \/ ResetFails(c) \/ CloseBreaker(c)
    \/ LoadFailure(c) \/ CountFail(c) \/ OpenBreaker(c) \/ Stamp(c)

Step(c) == CanExecute(c) \/ Wait(c) \/ Reply(c) \/ Resume(c) \/ Record(c)

Next ==
    \/ \E c \in Callers : Call(c) \/ Step(c) \/ Unfinished(c)
    \/ Tick \/ ServerTurns

Spec == Init /\ [][Next]_vars

(***************************************************************************)
(* Fairness.  A caller that has begun goes on, time passes, and callers    *)
(* keep calling: PollChain asks for updates again after every error.  The  *)
(* API, the shield and cancellation are free.                              *)
(***************************************************************************)
Fairness == WF_vars(Tick) /\ \A c \in Callers : WF_vars(Call(c)) /\ WF_vars(Step(c))

FairSpec == Spec /\ Fairness

-----------------------------------------------------------------------------
(***************************************************************************)
(* Properties                                                              *)
(***************************************************************************)
Places == {"idle", "cooling", "claim", "allow", "probe", "limit", "send",
           "pause", "succeeded", "forget", "reset", "close", "failed", "count", "open", "stamp"}

\* The variables have their types and ranges.
TypeOK ==
    /\ state \in {"closed", "open", "half"}
    /\ fails \in 0..Threshold
    /\ since \in 0..(Cooldown + 1)
    /\ halfAllow \in {0, 1}
    /\ pc \in [Callers -> Places]
    /\ attempt \in [Callers -> 0..Attempts]
    /\ retries \in [Callers -> 0..Max429]
    /\ server \in {"up", "down"}
    /\ owner \in Callers \cup {NoCaller}
    /\ lost \in BOOLEAN

\* While the breaker is half-open, the caller that made it so still has to
\* report: nobody else is sure to be let in, and only a report ends the
\* period.  The exception is a request that ended without a report.
HalfOpenOwned ==
    state = "half" =>
        \/ lost
        \/ owner \in Callers /\ pc[owner] \in {"allow", "limit", "send", "pause",
                                              "succeeded", "reset", "close", "failed", "open"}

\* Every call of the API returns.
CallsReturn == \A c \in Callers : pc[c] # "idle" ~> pc[c] = "idle"

\* When the API is back for good, the breaker does not keep it out for good,
\* provided that no half-open period loses the report it waits for and that
\* uploads are not cancelled for ever.
Recovers ==
    /\ <>[](server = "up" /\ ~lost)
    /\ <>[][\A c \in Callers : ~CancelUpload(c)]_vars
    => []<>(state = "closed")

\* "circuit breaker is open, api is offline": an API that is online for good
\* is not kept out for good.
RejectedOnlyOffline == <>[](server = "up") => []<>(state = "closed")
=============================================================================
