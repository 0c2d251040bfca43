---------------------------- MODULE RateLimiter ----------------------------
(***************************************************************************)
(* RL of client.go, the token bucket in front of every request.  A caller  *)
(* that finds no token does not queue: it moves lastRefill into the future *)
(* by the time that is missing, leaves the lock and sleeps for that time.  *)
(*                                                                         *)
(* Time is counted in ticks and kept relative to now, so that it needs no  *)
(* bound: lag is the age of lastRefill, negative when it lies in the       *)
(* future.  Tokens are counted in ticks too: Refill ticks are worth one.   *)
(* A timer that is due fires before the next tick.                         *)
(***************************************************************************)
EXTENDS Integers

CONSTANTS
    Callers,    \* goroutines that call Wait
    Refill,     \* ticks that are worth one token
    Capacity,   \* RL.cap in ticks
    MaxDebt     \* bound: nobody begins to wait while lag is below -MaxDebt

ASSUME LimiterAssumption ==
    /\ Refill \in Nat \ {0}
    /\ Capacity \in Nat /\ Capacity >= Refill
    /\ MaxDebt \in Nat

VARIABLES
    tokens,     \* RL.tokens
    lag,        \* age of RL.lastRefill, saturating at Capacity
    waiting,    \* callers in the select of Wait
    timer,      \* per caller, ticks left of its sleep
    slept,      \* per caller, sleepNs of its sleep
    old,        \* sleepers whose limiter has been replaced
    level,      \* history: what was let through, in ticks, draining with time
    overlap     \* history: two callers have slept in this limiter at once

vars == <<tokens, lag, waiting, timer, slept, old, level, overlap>>

Lesser(a, b) == IF a < b THEN a ELSE b
Greater(a, b) == IF a > b THEN a ELSE b

Init ==
    /\ tokens = Capacity
    /\ lag = 0
    /\ waiting = {}
    /\ timer = [c \in Callers |-> 0]
    /\ slept = [c \in Callers |-> 0]
    /\ old = {}
    /\ level = 0
    /\ overlap = FALSE

-----------------------------------------------------------------------------
\* The tokens after the refill that Wait begins with.
Refilled == Lesser(tokens + Greater(lag, 0), Capacity)

\* There is a token.
Take(c) ==
    /\ c \notin waiting
    /\ Refilled >= Refill
    /\ tokens' = Refilled - Refill
    /\ lag' = Lesser(lag, 0)
    /\ level' = level + Refill
    /\ UNCHANGED <<waiting, timer, slept, old, overlap>>

\* Mutation of Reserve: the time slept for is not charged to lastRefill.
ReserveUncharged(c) ==
    LET missing == Refill - Refilled
    IN  /\ c \notin waiting
        /\ missing > 0
        /\ lag >= -MaxDebt
        /\ tokens' = 0
        /\ lag' = Lesser(lag, 0)
        /\ waiting' = waiting \cup {c}
        /\ timer' = [timer EXCEPT ![c] = missing]
        /\ slept' = [slept EXCEPT ![c] = missing]
        /\ overlap' = (overlap \/ waiting # {})
        /\ UNCHANGED <<old, level>>

\* There is none: the missing time is reserved and slept for.
Reserve(c) ==
    LET missing == Refill - Refilled
    IN  /\ c \notin waiting
        /\ missing > 0
        /\ lag >= -MaxDebt
        /\ tokens' = 0
        /\ lag' = Lesser(lag, 0) - missing
        /\ waiting' = waiting \cup {c}
        /\ timer' = [timer EXCEPT ![c] = missing]
        /\ slept' = [slept EXCEPT ![c] = missing]
        /\ overlap' = (overlap \/ waiting # {})
        /\ UNCHANGED <<old, level>>

Leaves(c) ==
    /\ c \in waiting
    /\ waiting' = waiting \ {c}
    /\ old' = old \ {c}
    /\ timer' = [timer EXCEPT ![c] = 0]
    /\ slept' = [slept EXCEPT ![c] = 0]

Wake(c) ==
    /\ timer[c] = 0
    /\ Leaves(c)
    /\ level' = level + Refill
    /\ UNCHANGED <<tokens, lag, overlap>>

\* The context is cancelled: the reserved time is given back, to the limiter
\* it was taken from.
Cancel(c) ==
    /\ Leaves(c)
    /\ lag' = IF c \in old THEN lag ELSE Lesser(lag + slept[c], Capacity)
    /\ UNCHANGED <<tokens, level, overlap>>

\* Shield.Activate and Deactivate put a full limiter in place.
Swap ==
    /\ tokens' = Capacity
    /\ lag' = 0
    /\ old' = waiting
    /\ level' = 0
    /\ overlap' = (waiting # {})
    /\ UNCHANGED <<waiting, timer, slept>>

Tick ==
    /\ \A c \in waiting : timer[c] > 0
    /\ lag' = Lesser(lag + 1, Capacity)
    /\ timer' = [c \in Callers |-> Greater(timer[c] - 1, 0)]
    /\ level' = Greater(level - 1, 0)
    /\ UNCHANGED <<tokens, waiting, slept, old, overlap>>

Next ==
    \/ \E c \in Callers : Take(c) \/ Reserve(c) \/ Wake(c) \/ Cancel(c)
    \/ Swap
    \/ Tick

Spec == Init /\ [][Next]_vars

-----------------------------------------------------------------------------
\* The variables have their types.
TypeOK ==
    /\ tokens \in 0..Capacity
    /\ lag \in Int /\ lag <= Capacity
    /\ waiting \in SUBSET Callers
    /\ timer \in [Callers -> 0..Refill]
    /\ slept \in [Callers -> 0..Refill]
    /\ old \in SUBSET waiting
    /\ level \in Nat
    /\ overlap \in BOOLEAN

\* The limiter keeps its rate for callers that do not sleep in it at the same
\* time: over any stretch of time it lets through no more than Capacity plus
\* one request per Refill ticks.
LoneThrottled == ~overlap => level <= Capacity

\* What LoneThrottled rests on: what was let through, what is there to take
\* and what a sleeper has reserved never come to more than the capacity, and
\* lastRefill lies in the future exactly by the time left to sleep.
Balance ==
    ~overlap =>
        /\ old = {}
        /\ waiting = {} => lag >= 0 /\ level + Refilled <= Capacity
        /\ \A w \in waiting :
               /\ waiting = {w}
               /\ tokens = 0
               /\ lag = -timer[w]
               /\ timer[w] <= slept[w]
               /\ level + lag + Refill <= Capacity

\* "RL controls the request rate": the same whoever sleeps in it.
Throttled == level <= Capacity
=============================================================================
