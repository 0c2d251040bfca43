----------------------------- MODULE WarnEngine -----------------------------
(***************************************************************************)
(* The warnings of one user in one chat, as warn_engine.go keeps them in   *)
(* the store of database.go: how many there are, why, and when each of     *)
(* them expires, under three keys that are written by separate             *)
(* transactions.  Handlers warn and pardon on any worker, a task removes   *)
(* what has expired, and the process may die between any two records.      *)
(*                                                                         *)
(* A transaction changes the map in one step and appends its records       *)
(* afterwards; the clean-up alone keeps db.mu until its records are        *)
(* written.  Expiry times are the ticks that are left.                     *)
(***************************************************************************)
EXTENDS Integers, Sequences, SequencesExt

CONSTANTS
    Handlers,     \* workers that run Warn or /unwarn for this user
    Cleaner,      \* the task that Build registers
    MaxWarns,     \* WarnEngine.maxWarns
    Cooldown,     \* WarnEngine.cooldown, in ticks
    MaxHistory,   \* bound: no warning begins with that many reasons or expiries
    MaxCrashes,   \* bound: crashes of the process
    NoVal         \* the count is not in the map

ASSUME WarnAssumption ==
    /\ Cleaner \notin Handlers
    /\ MaxWarns \in Nat \ {0} /\ Cooldown \in Nat \ {0}
    /\ MaxHistory \in Nat /\ MaxCrashes \in Nat
    /\ NoVal \notin Int

VARIABLES
    mem,      \* the three keys in the map
    disk,     \* the three keys as a restart would read them back
    pend,     \* records of each transaction under way, in order
    pc,       \* where each handler is
    up,       \* the process runs
    crashes,  \* crashes so far
    raced     \* history: two operations on this user, or one and a
              \* compaction, have overlapped

vars == <<mem, disk, pend, pc, up, crashes, raced>>

Keys == {"count", "reasons", "expires"}
Absent == [count |-> NoVal, reasons |-> 0, expires |-> <<>>]
Number(n) == IF n = NoVal THEN 0 ELSE n
Writers == Handlers \cup {Cleaner}
Busy(p) == pend[p] # <<>> \/ (p \in Handlers /\ pc[p] # "idle")
Quiet == \A p \in Writers : ~Busy(p)

Init ==
    /\ mem = Absent
    /\ disk = Absent
    /\ pend = [p \in Writers |-> <<>>]
    /\ pc = [h \in Handlers |-> "idle"]
    /\ up = TRUE
    /\ crashes = 0
    /\ raced = FALSE

-----------------------------------------------------------------------------
(***************************************************************************)
(* The store.  While the clean-up has records to append it holds db.mu.    *)
(***************************************************************************)
Records(keys, new) == [i \in DOMAIN keys |-> [key |-> keys[i], val |-> new[keys[i]]]]

\* p leaves new in the map and has to append the keys that it names.
Write(p, new, keys) ==
    /\ up
    /\ pend[p] = <<>> /\ pend[Cleaner] = <<>>
    /\ mem' = new
    /\ pend' = [pend EXCEPT ![p] = Records(keys, new)]
    /\ UNCHANGED <<disk, up, crashes>>

Step(h, from, to) == pc[h] = from /\ pc' = [pc EXCEPT ![h] = to]

\* An operation of a handler begins.
Begins(h) == raced' = (raced \/ \E p \in Writers : Busy(p))

AppendRecord(p) ==
    /\ pend[p] # <<>>
    /\ disk' = [disk EXCEPT ![Head(pend[p]).key] = Head(pend[p]).val]
    /\ pend' = [pend EXCEPT ![p] = Tail(@)]
    /\ UNCHANGED <<mem, pc, up, crashes, raced>>

\* A compaction while records are on their way: for some keys the snapshot
\* already counts, for the others the log still does.
Checkpoint(K) ==
    /\ up
    /\ \E p \in Writers : pend[p] # <<>>
    /\ pend[Cleaner] = <<>>
    /\ disk' = [k \in Keys |-> IF k \in K THEN mem[k] ELSE disk[k]]
    /\ raced' = TRUE
    /\ UNCHANGED <<mem, pend, pc, up, crashes>>

-----------------------------------------------------------------------------
(***************************************************************************)
(* WarnEngine.Warn: three transactions, and at the limit three deletions.  *)
(***************************************************************************)
Warn(h) ==
    /\ mem.reasons < MaxHistory /\ Len(mem.expires) < MaxHistory
    /\ Step(h, "idle", "expires")
    /\ Write(h, [mem EXCEPT !.reasons = @ + 1], <<"reasons">>)
    /\ Begins(h)

AddExpiry(h) ==
    /\ Step(h, "expires", "count")
    /\ Write(h, [mem EXCEPT !.expires = Append(@, Cooldown)], <<"expires">>)
    /\ UNCHANGED raced

\* Mutation of AddCount: the limit itself is let pass.
AddCountLate(h) ==
    LET newCount == Number(mem.count) + 1
    IN  /\ Step(h, "count", IF newCount > MaxWarns THEN "delCount" ELSE "idle")
        /\ Write(h, [mem EXCEPT !.count = newCount], <<"count">>)
        /\ UNCHANGED raced

AddCount(h) ==
    LET newCount == Number(mem.count) + 1
    IN  /\ Step(h, "count", IF newCount >= MaxWarns THEN "delCount" ELSE "idle")
        /\ Write(h, [mem EXCEPT !.count = newCount], <<"count">>)
        /\ UNCHANGED raced

Forget(h, key, from, to) ==
    /\ Step(h, from, to)
    /\ Write(h, [mem EXCEPT ![key] = Absent[key]], <<key>>)
    /\ UNCHANGED raced

\* Mutation of Reset: the expiries go first.
ResetBackwards(h) ==
    \/ Forget(h, "expires", "delCount", "delReasons")
    \/ Forget(h, "reasons", "delReasons", "delExpires")
    \/ Forget(h, "count", "delExpires", "idle")

\* Three calls of Del, after the calls of the API that punish, or after a
\* pardon of the last warning.
Reset(h) ==
    \/ Forget(h, "count", "delCount", "delReasons")
    \/ Forget(h, "reasons", "delReasons", "delExpires")
    \/ Forget(h, "expires", "delExpires", "idle")

-----------------------------------------------------------------------------
(***************************************************************************)
(* /unwarn, and the button of the moderation log that does the same.       *)
(***************************************************************************)
\* Mutation of Unwarn: the expiry of the pardoned warning stays.
UnwarnKeepsExpiry(h) ==
    LET current == Number(mem.count)
        newCount == IF current > 0 THEN current - 1 ELSE 0
    IN  /\ Step(h, "idle", IF newCount = 0 THEN "delCount" ELSE "idle")
        /\ Write(h, [mem EXCEPT !.count = newCount], <<"count", "expires">>)
        /\ Begins(h)

\* One transaction over two keys, whose records are appended in this order.  A
\* count that was absent becomes present: TxKeys writes every key it names.
Unwarn(h) ==
    LET current == Number(mem.count)
        newCount == IF current > 0 THEN current - 1 ELSE 0
        popped == IF current > 0 /\ mem.expires # <<>> THEN Front(mem.expires) ELSE mem.expires
    IN  /\ Step(h, "idle", IF newCount = 0 THEN "delCount" ELSE "idle")
        /\ Write(h, [mem EXCEPT !.count = newCount, !.expires = popped], <<"count", "expires">>)
        /\ Begins(h)

-----------------------------------------------------------------------------
(***************************************************************************)
(* The clean-up, once a minute.                                            *)
(***************************************************************************)
\* The loop over the expiries, which keeps those to come.
Unexpired(list) ==
    LET newList[i \in 0..Len(list)] ==
            IF i = 0 THEN <<>>
            ELSE IF list[i] > 0 THEN Append(newList[i - 1], list[i]) ELSE newList[i - 1]
    IN  newList[Len(list)]

Clean ==
    LET newList == Unexpired(mem.expires)
        newCount == mem.count - (Len(mem.expires) - Len(newList))
    IN  /\ newList # mem.expires
        /\ mem.count # NoVal
        /\ IF newCount <= 0
           THEN Write(Cleaner, Absent, <<"count", "reasons", "expires">>)
           ELSE Write(Cleaner, [mem EXCEPT !.count = newCount, !.expires = newList],
                      <<"count", "expires">>)
        /\ raced' = (raced \/ \E h \in Handlers : Busy(h))
        /\ UNCHANGED pc

-----------------------------------------------------------------------------
Aged(cell) == [cell EXCEPT !.expires = [i \in DOMAIN @ |-> IF @[i] > 0 THEN @[i] - 1 ELSE 0]]

AgedRecord(r) == IF r.key = "expires" THEN [r EXCEPT !.val = Aged([Absent EXCEPT !.expires = r.val]).expires] ELSE r

Tick ==
    /\ mem' = Aged(mem)
    /\ disk' = Aged(disk)
    /\ pend' = [p \in Writers |-> [i \in DOMAIN pend[p] |-> AgedRecord(pend[p][i])]]
    /\ UNCHANGED <<pc, up, crashes, raced>>

Crash ==
    /\ up
    /\ crashes < MaxCrashes
    /\ up' = FALSE
    /\ crashes' = crashes + 1
    /\ mem' = Absent
    /\ pend' = [p \in Writers |-> <<>>]
    /\ pc' = [h \in Handlers |-> "idle"]
    /\ UNCHANGED <<disk, raced>>

Restart ==
    /\ ~up
    /\ up' = TRUE
    /\ mem' = disk
    /\ UNCHANGED <<disk, pend, pc, crashes, raced>>

-----------------------------------------------------------------------------
Warning(h) == AddExpiry(h) \/ AddCount(h) \/ Reset(h)

Next ==
    \/ \E h \in Handlers : Warn(h) \/ Unwarn(h) \/ Warning(h)
    \/ \E p \in Writers : AppendRecord(p)
    \/ \E K \in SUBSET {k \in Keys : mem[k] # disk[k]} : Checkpoint(K)
    \/ Clean \/ Tick
    \/ Crash \/ Restart

Spec == Init /\ [][Next]_vars

-----------------------------------------------------------------------------
(***************************************************************************)
(* Properties                                                              *)
(***************************************************************************)
Cells == [count : Nat \cup {NoVal}, reasons : Nat, expires : Seq(0..Cooldown)]

\* The variables have their types.
TypeOK ==
    /\ mem \in Cells /\ disk \in Cells
    /\ DOMAIN pend = Writers
    /\ \A p \in Writers : \A i \in DOMAIN pend[p] :
           /\ pend[p][i].key \in Keys
           /\ [Absent EXCEPT ![pend[p][i].key] = pend[p][i].val] \in Cells
    /\ pc \in [Handlers -> {"idle", "expires", "count", "delCount", "delReasons", "delExpires"}]
    /\ up \in BOOLEAN /\ raced \in BOOLEAN
    /\ crashes \in Nat

\* Every warning that counts will expire and has its reason on record, in
\* memory and in what a crash at any point of any operation leaves behind,
\* as long as the operations on one user do not overlap, and no compaction
\* falls between a change of the map and its records.
Covered(cell) ==
    /\ Len(cell.expires) >= Number(cell.count)
    /\ cell.reasons >= Number(cell.count)

EveryWarningExpires == ~raced => Covered(mem) /\ Covered(disk)

\* "automatically decrements by 1 after the configured duration": between
\* operations there are no more expiries than warnings, so none is taken off
\* before its time, as long as no operation overlapped another or was cut.
NoneForgottenEarly ==
    ~raced /\ crashes = 0 /\ Quiet => Len(mem.expires) <= Number(mem.count)

\* However warnings, pardons and clean-ups overlap, a count that has reached
\* the limit is about to be reset.
LimitIsReset ==
    Number(mem.count) >= MaxWarns =>
        crashes > 0 \/ \E h \in Handlers : pc[h] = "delCount"
=============================================================================
