---------------------------- MODULE HandlerChain ----------------------------
(***************************************************************************)
(* How the handlers of one update run: Ctx.Next and Ctx.Abort of           *)
(* context.go, Pipe and Recovery of middleware.go.                         *)
(*                                                                         *)
(* The position in the chain is one counter of the context, an int8, that  *)
(* every nested call of Next advances.  A handler calls Next and returns,  *)
(* just returns, calls Abort, or panics.  Recovery is the first handler of *)
(* every chain (bot.go:252): it recovers a panic of the handlers it called *)
(* and returns into the loop that called it, which goes on without it.     *)
(*                                                                         *)
(* Calls are frames on a stack.  A frame is a handler of the chain, a Pipe *)
(* or a middleware inside a Pipe.                                          *)
(***************************************************************************)
EXTENDS Integers, Sequences, FiniteSets

CONSTANTS
    MaxIndex,    \* the largest value of Ctx.index (127)
    MaxHandlers, \* bound: handlers of a chain, Recovery included
    MaxPipe      \* bound: middlewares of a Pipe

VARIABLES
    chain,    \* Ctx.handlers: for each the middlewares in its Pipe, or 0
    index,    \* Ctx.index
    stack,    \* the calls under way, the innermost last
    started,  \* history: handlers that have begun, counted from 0
    piped,    \* history: middlewares of pipes that have begun, <<handler, number>>
    aborted,  \* history: Abort was called
    panics    \* history: number of panics

chainVars == <<chain, index, stack, started, piped, aborted, panics>>

-----------------------------------------------------------------------------
N == Len(chain)

\* The first handler of a chain is Recovery.
Chains == {<<0>> \o c : c \in UNION {[1..n -> 0..MaxPipe] : n \in 0..(MaxHandlers - 1)}}

\* Mutation of Wrapped: an index of unbounded size.
WrappedNot(i) == i

\* index++ on an int8.
Wrapped(i) == ((i + MaxIndex + 1) % (2 * (MaxIndex + 1))) - (MaxIndex + 1)

Frame(i) == [pos |-> i, part |-> 0, at |-> "run", saved |-> 0]

Top == stack[Len(stack)]
Below == SubSeq(stack, 1, Len(stack) - 1)
AtTop(where) == stack # <<>> /\ Top.at = where
IsPipe(f) == f.part = 0 /\ chain[f.pos + 1] > 0
Marked(where) == [stack EXCEPT ![Len(stack)].at = where]

\* Mutation of Recovery: it ends like the handlers above it.
RecoveryGone(calls) == <<>>

\* A panic ends every call above Recovery, and Recovery returns; outside of
\* Recovery it ends the worker's call of processUpdate.
Recovery(calls) ==
    IF calls # <<>> /\ calls[1].pos = 0
    THEN <<[calls[1] EXCEPT !.at = "back"]>> ELSE <<>>

\* The loop of Next over index i, above the given calls.  A negative index,
\* after an overflow, is out of the slice's range.
Loop(calls, i) ==
    /\ index' = i
    /\ \/ /\ i >= N
          /\ stack' = calls
          /\ UNCHANGED <<started, panics>>
       \/ /\ i \in 0..(N - 1)
          /\ stack' = Append(calls, Frame(i))
          /\ started' = Append(started, i)
          /\ UNCHANGED panics
       \/ /\ i < 0
          /\ stack' = Recovery(calls)
          /\ panics' = panics + 1
          /\ UNCHANGED started
    /\ UNCHANGED chain

InitChain ==
    /\ chain = <<>>
    /\ index = -1
    /\ stack = <<>>
    /\ started = <<>>
    /\ piped = {}
    /\ aborted = FALSE
    /\ panics = 0

\* processUpdate puts the chain together and calls Next on the fresh context.
Dispatch ==
    /\ chain = <<>>
    /\ chain' \in Chains
    /\ index' = 0
    /\ stack' = <<Frame(0)>>
    /\ started' = <<0>>
    /\ UNCHANGED <<piped, aborted, panics>>

-----------------------------------------------------------------------------
(***************************************************************************)
(* What the handler on top may do.                                         *)
(***************************************************************************)
Running == AtTop("run") /\ ~IsPipe(Top)

User == Running /\ Top.pos > 0   \* not Recovery, which calls Next

\* It calls Next, and returns when that has.
CallNext ==
    /\ Running
    /\ Loop(Marked("back"), Wrapped(index + 1))
    /\ UNCHANGED <<piped, aborted>>

\* Mutation of Abort: the index is the last handler's, not behind it.
AbortShort ==
    /\ User
    /\ index' = N - 1
    /\ stack' = Marked("back")
    /\ aborted' = TRUE
    /\ UNCHANGED <<chain, started, piped, panics>>

\* It calls Abort.
Abort ==
    /\ User
    /\ index' = N
    /\ stack' = Marked("back")
    /\ aborted' = TRUE
    /\ UNCHANGED <<chain, started, piped, panics>>

\* It returns without either: the loop goes on with the next handler.
Skip ==
    /\ User
    /\ stack' = Marked("back")
    /\ UNCHANGED <<chain, index, started, piped, aborted, panics>>

\* It panics.  Recovery's deferred function hands the panic to OnError.
Panic ==
    /\ User
    /\ stack' = Recovery(Below)
    /\ panics' = panics + 1
    /\ UNCHANGED <<chain, index, started, piped, aborted>>

\* Mutation of Return: the loop does not advance before it goes on.
ReturnTwice ==
    /\ AtTop("back")
    /\ IF Top.part > 0
       THEN /\ stack' = [Below EXCEPT ![Len(Below)].at = "check"]
            /\ UNCHANGED <<chain, index, started, panics>>
       ELSE Loop(Below, Wrapped(IF index = N - 1 THEN index ELSE index + 1))
    /\ UNCHANGED <<piped, aborted>>

\* It returns: into its Pipe, or into the loop of Next, which advances.
Return ==
    /\ AtTop("back")
    /\ IF Top.part > 0
       THEN /\ stack' = [Below EXCEPT ![Len(Below)].at = "check"]
            /\ UNCHANGED <<chain, index, started, panics>>
       ELSE Loop(Below, Wrapped(index + 1))
    /\ UNCHANGED <<piped, aborted>>

-----------------------------------------------------------------------------
(***************************************************************************)
(* Pipe.  Its middlewares get the context of the chain, so the Next of the *)
(* first one runs the handlers that follow the pipe, and leaves the index  *)
(* behind the chain, where Abort would have put it.                        *)
(***************************************************************************)
Passed(f) == Cardinality({q \in piped : q[1] = f.pos})

\* mw(c)
PipeCalls ==
    /\ AtTop("run") /\ IsPipe(Top)
    /\ LET n == Passed(Top) + 1
       IN  /\ stack' = Append([stack EXCEPT ![Len(stack)].saved = index],
                              [Frame(Top.pos) EXCEPT !.part = n])
           /\ piped' = piped \cup {<<Top.pos, n>>}
    /\ UNCHANGED <<chain, index, started, aborted, panics>>

\* The middleware returned: the pipe gives up, goes on, or calls Next.
PipeChecks ==
    /\ AtTop("check")
    /\ \/ /\ index >= N
          /\ Loop(Below, Wrapped(N + 1))
       \/ /\ index < N
          /\ Passed(Top) < chain[Top.pos + 1]
          /\ index' = Top.saved
          /\ stack' = Marked("run")
          /\ UNCHANGED <<chain, started, panics>>
       \/ /\ index < N
          /\ Passed(Top) = chain[Top.pos + 1]
          /\ Loop(Marked("back"), Wrapped(Top.saved + 1))
    /\ UNCHANGED <<piped, aborted>>

Unattended == Dispatch \/ Return \/ PipeCalls \/ PipeChecks

ChainNext == Unattended \/ CallNext \/ Abort \/ Skip \/ Panic

ChainSpec == InitChain /\ [][ChainNext]_chainVars

-----------------------------------------------------------------------------
(***************************************************************************)
(* Properties                                                              *)
(***************************************************************************)
Over == stack = <<>> /\ chain # <<>>

\* The variables have their types.
ChainTypeOK ==
    /\ chain \in Seq(0..MaxPipe)
    /\ index \in -(MaxIndex + 1)..MaxIndex
    /\ started \in Seq(0..(N - 1))
    /\ aborted \in BOOLEAN /\ panics \in Nat
    /\ \A k \in DOMAIN stack :
          /\ stack[k].pos \in 0..(N - 1)
          /\ stack[k].at \in {"run", "back", "check"}
          /\ stack[k].part \in Nat

\* No handler runs twice for one update, and none before an earlier one,
\* whatever the handlers call, abort or panic, also when the index overflows.
OnceInOrder == \A k, l \in DOMAIN started : k < l => started[k] < started[l]

\* "Abort halts the current request execution chain": after it nothing of the
\* chain begins, although the callers of Next go on counting.
AbortStops == [][aborted => started' = started]_chainVars

\* Chains of up to MaxIndex \div 2 handlers: the index does not overflow, and
\* only Abort keeps a handler from running.  A panic stops the handler and
\* those that called it and the chain goes on behind it (a guard that panics
\* fails open); only a second panic, for which Recovery is gone, ends it.
AllRunUnlessAborted ==
    2 * N <= MaxIndex =>
        /\ index >= -1
        /\ Over /\ ~aborted /\ panics <= 1 => Len(started) = N
=============================================================================
