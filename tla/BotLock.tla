------------------------------- MODULE BotLock -------------------------------
(***************************************************************************)
(* Bot.mu, the lock of the routing tables and settings, and who takes it.  *)
(*                                                                         *)
(* It is a sync.RWMutex: a writer first keeps new readers out and then     *)
(* waits for those that hold the lock, so a reader that asks again while   *)
(* a writer waits stops both.  Processes are workers with an update and    *)
(* timers; what they do with the lock is a sequence of "R" (RLock), "r"    *)
(* (RUnlock), "W" (Lock), "w" (Unlock) and "!" (a panic before RUnlock:    *)
(* Recovery swallows it, and nobody gives the read lock back).             *)
(***************************************************************************)
EXTENDS Naturals, Sequences, FiniteSets

CONSTANTS
    Processes, \* workers and timers
    MaxTurns   \* bound: updates handled and timers fired

VARIABLES
    todo,    \* per process what it still does with the lock
    asks,    \* the processes that wait inside RLock or Lock
    reading, \* per process how many read locks it holds
    leaked,  \* read locks that a panic left behind
    writer,  \* who has the lock or keeps readers out, or "none"
    turns    \* bound counter

lockVars == <<todo, asks, reading, leaked, writer, turns>>

-----------------------------------------------------------------------------
(***************************************************************************)
(* The sections, and the updates made of them.                             *)
(***************************************************************************)
Routed == <<"R", "r">>          \* processUpdate: the chain is put together
IsOwner == <<"R", "r">>         \* the sender is compared with MaintenanceAdminID
NoSender == <<"R", "!">>        \* the same in six guards, on a post whose From is nil
Panel == <<"R", "r">>           \* SendChain.Settings: the lights of all settings
OnRoute == <<"W", "w">>         \* On().Cmd and the others, OnStart, Menu, Settings().Register
Toggle == <<"W", "w">>          \* SettingsChain.Go
StepDone == <<"W", "w">>        \* a step's or a survey's timer or answer drops its route
Step == IsOwner \o OnRoute      \* runStep looks whether the state is registered, and registers it

\* Mutation of Scan: the lock is not given back when a setting matches.
ScanMatched == {IsOwner \o <<"R", "r">>, IsOwner \o <<"R">>}

\* GroupGuard: by a return in the loop or at its end the lock is given back.
Scan == {IsOwner \o <<"R", "r">>}

Handlers == {<<>>, IsOwner, NoSender, Panel, OnRoute, Toggle, StepDone \o Step} \cup Scan

\* AdminOnly: the rest of the chain runs, or panics, before the deferred RUnlock.
AdminOnly(rest) == <<"R">> \o rest \o <<"r">>

Update(h) == Routed \o h
Programs == {Update(h) : h \in Handlers} \cup {Update(AdminOnly(h)) : h \in Handlers} \cup {StepDone}

-----------------------------------------------------------------------------
InitLock ==
    /\ todo = [p \in Processes |-> <<>>]
    /\ asks = {}
    /\ reading = [p \in Processes |-> 0]
    /\ leaked = 0
    /\ writer = "none"
    /\ turns = 0

Op(p) == IF todo[p] = <<>> THEN "none" ELSE Head(todo[p])
Done(p) == todo' = [todo EXCEPT ![p] = Tail(@)]
Holders == {p \in Processes : reading[p] > 0}

\* A worker takes an update, or a timer fires.
Begin(p) ==
    /\ todo[p] = <<>> /\ turns < MaxTurns
    /\ turns' = turns + 1
    /\ \E prog \in Programs : todo' = [todo EXCEPT ![p] = prog]
    /\ UNCHANGED <<asks, reading, leaked, writer>>

\* RLock, at once or not before the writer is done.
RLock(p) ==
    /\ Op(p) = "R" /\ p \notin asks
    /\ IF writer = "none"
       THEN /\ reading' = [reading EXCEPT ![p] = @ + 1]
            /\ Done(p)
            /\ UNCHANGED asks
       ELSE /\ asks' = asks \cup {p}
            /\ UNCHANGED <<reading, todo>>
    /\ UNCHANGED <<leaked, writer, turns>>

RUnlock(p) ==
    /\ Op(p) = "r"
    /\ reading' = [reading EXCEPT ![p] = @ - 1]
    /\ Done(p)
    /\ UNCHANGED <<asks, leaked, writer, turns>>

\* The handler panics between RLock and RUnlock, which is not deferred; Recovery lets the
\* worker go on, and the read lock stays taken.
Panic(p) ==
    /\ Op(p) = "!"
    /\ reading' = [reading EXCEPT ![p] = @ - 1]
    /\ leaked' = leaked + 1
    /\ Done(p)
    /\ UNCHANGED <<asks, writer, turns>>

\* Lock: one writer at a time keeps new readers out ...
Announce(p) ==
    /\ Op(p) = "W" /\ writer = "none"
    /\ writer' = p
    /\ asks' = asks \cup {p}
    /\ UNCHANGED <<todo, reading, leaked, turns>>

\* ... and waits for those inside.
Lock(p) ==
    /\ Op(p) = "W" /\ writer = p /\ Holders = {} /\ leaked = 0
    /\ asks' = asks \ {p}
    /\ Done(p)
    /\ UNCHANGED <<reading, leaked, writer, turns>>

\* Unlock lets the waiting readers in before another writer.
Unlock(p) ==
    /\ Op(p) = "w"
    /\ LET let == {q \in asks : Op(q) = "R"}
       IN  /\ writer' = "none"
           /\ reading' = [q \in Processes |-> IF q \in let THEN reading[q] + 1 ELSE reading[q]]
           /\ todo' = [q \in Processes |-> IF q \in let \cup {p} THEN Tail(todo[q]) ELSE todo[q]]
           /\ asks' = asks \ let
    /\ UNCHANGED <<leaked, turns>>

Moves(p) == RLock(p) \/ RUnlock(p) \/ Panic(p) \/ Announce(p) \/ Lock(p) \/ Unlock(p)

LockNext == \E p \in Processes : Begin(p) \/ Moves(p)

LockSpec == InitLock /\ [][LockNext]_lockVars

-----------------------------------------------------------------------------
(***************************************************************************)
(* Properties                                                              *)
(***************************************************************************)
\* The variables have their types.
LockTypeOK ==
    /\ asks \subseteq Processes
    /\ writer \in Processes \cup {"none"}
    /\ reading \in [Processes -> 0..2]
    /\ turns \in 0..MaxTurns
    /\ leaked \in 0..turns

\* p's next step with the lock cannot be taken.
Blocked(p) ==
    CASE Op(p) = "R" -> writer # "none"
      [] Op(p) = "W" -> writer \notin {"none", p} \/ (writer = p /\ (Holders # {} \/ leaked > 0))
      [] OTHER -> FALSE

Busy == {p \in Processes : todo[p] # <<>>}

\* Nested: p asks for the lock, for reading or writing, while it holds it.
Nested(p) == reading[p] > 0 /\ Op(p) \in {"R", "W"}

Stopped == Busy # {} /\ \A p \in Busy : Blocked(p)

\* Readers, also those whose lock a panic left behind, and writers exclude each other, and
\* the processes stop each other only where one of them asks for the lock inside its own read
\* lock (behind AdminOnly, the one middleware that keeps the lock while the rest of the chain
\* runs), or after a guard has left its read lock behind.
OnlyNestedOrLeakedStop ==
    /\ writer # "none" /\ writer \notin asks => Holders = {} /\ leaked = 0
    /\ Stopped => leaked > 0 \/ \E p \in Busy : Nested(p)
=============================================================================
