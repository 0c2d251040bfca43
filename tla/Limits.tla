-------------------------------- MODULE Limits --------------------------------
(***************************************************************************)
(* The middlewares that count over time: AntiSpam, AntiRepeat, AntiRaid,   *)
(* ChatRateLimit, CallbackRateLimit and Cooldown of middleware.go and the  *)
(* cooldown of a route (bot.go), with the cache that keeps the records of  *)
(* the first three (system.go 295-407).                                    *)
(*                                                                         *)
(* The messages are those of one member in one chat, handled by several    *)
(* workers.  A handler notes the time, finds the member's record in a map, *)
(* and decides under the record's own mutex.  The map may lose the record  *)
(* in between, so two handlers may hold different ones.                    *)
(***************************************************************************)
EXTENDS Integers, Sequences, FiniteSets

CONSTANTS
    Workers,     \* handlers that run at the same time
    Texts,       \* texts of messages
    JoinCounts,  \* how many members a message may say have joined
    Limit,       \* messages of a window, joins of a window, tokens of a bucket
    Window,      \* length of a window, of a cooldown, and age of a repetition
    MaxMessages, \* bound: messages
    MaxTime      \* bound: the clock

VARIABLES
    guard,    \* the middleware in use, or "none" before it is registered
    now,      \* the clock
    entry,    \* the map's entry for the member: number of its record, and expiry
    records,  \* the records
    jobs,     \* per worker what it handles, or Rest
    outcomes, \* history: the messages decided: time, what they were, and if they passed
    locked,   \* group_lock of the chat
    opened,   \* history: number of outcomes when an administrator last unlocked
    excused   \* history: a handler was slow, or lost the map's record or a race

limitVars == <<guard, now, entry, records, jobs, outcomes, locked, opened, excused>>

-----------------------------------------------------------------------------
Cached == {"AntiSpam", "AntiRepeat", "AntiRaid"}
Buckets == {"ChatRateLimit", "CallbackRateLimit"}

Rest == [at |-> "rest"]
Absent == [number |-> 0, until |-> 0]
Resting(w) == jobs[w] = Rest

\* The record made for the member's first message.
Fresh ==
    CASE guard = "AntiSpam" -> [start |-> -Window, count |-> 0]
      [] guard = "AntiRepeat" -> [text |-> "", time |-> -Window]
      [] guard = "AntiRaid" -> [joins |-> {}]
      [] guard \in Buckets -> [tokens |-> Limit, refilled |-> now]
      [] guard = "Cooldown" -> [last |-> now]

InitLimits ==
    /\ guard = "none"
    /\ now = 0
    /\ entry = Absent
    /\ records = <<>>
    /\ jobs = [w \in Workers |-> Rest]
    /\ outcomes = <<>>
    /\ locked = FALSE
    /\ opened = 0
    /\ excused = FALSE

\* The program registers one middleware.
Register ==
    /\ guard = "none"
    /\ guard' \in Cached \cup Buckets \cup {"Cooldown"}
    /\ UNCHANGED <<now, entry, records, jobs, outcomes, locked, opened, excused>>

\* Time passes, and may do so while a handler is under way.
Tick ==
    /\ guard # "none" /\ now < MaxTime
    /\ now' = now + 1
    /\ excused' = (excused \/ \E w \in Workers : ~Resting(w) /\ jobs[w].time < now)
    /\ UNCHANGED <<guard, entry, records, jobs, outcomes, locked, opened>>

\* Cleanup of the cache, once a minute.
Expired == guard \in Cached /\ now > entry.until

\* The sweeper of ChatRateLimit: the bucket has been idle for so long that it would
\* be full again.
Swept == guard = "ChatRateLimit" /\ now - records[entry.number].refilled > Limit

\* What the cleaners drop.
Cleanup ==
    /\ entry # Absent
    /\ Expired \/ Swept
    /\ entry' = Absent
    /\ excused' = (excused \/ (guard \notin Cached /\ \E w \in Workers : ~Resting(w)))
    /\ UNCHANGED <<guard, now, records, jobs, outcomes, locked, opened>>

\* What the middleware looks at in a message: its text, or the number of members it
\* says have joined.
Whats == IF guard = "AntiRaid" THEN JoinCounts ELSE IF guard = "AntiRepeat" THEN Texts ELSE {"text"}

\* A message that the middleware counts, not an administrator's.
Arrive(w) ==
    /\ guard # "none" /\ Resting(w)
    /\ Len(outcomes) + Cardinality({v \in Workers : ~Resting(v)}) < MaxMessages
    /\ \E what \in Whats :
          jobs' = [jobs EXCEPT ![w] = [at |-> "find", time |-> now, what |-> what, number |-> 0]]
    /\ UNCHANGED <<guard, now, entry, records, outcomes, locked, opened, excused>>

\* What a look-up finds: an entry, and in the cache one that is not expired.
Live == entry # Absent /\ (guard \in Cached => now < entry.until)

\* Mutation of Find: an entry that is used is not kept longer.
FindExpiring(w) ==
    /\ ~Resting(w) /\ jobs[w].at = "find"
    /\ IF Live
       THEN UNCHANGED <<records, entry>>
       ELSE /\ records' = Append(records, Fresh)
            /\ entry' = [number |-> Len(records'), until |-> now + 2 * Window]
    /\ jobs' = [jobs EXCEPT ![w].at = IF guard = "Cooldown" /\ entry = Absent THEN "first" ELSE "decide",
                            ![w].number = entry'.number]
    /\ UNCHANGED <<guard, now, outcomes, locked, opened, excused>>

\* The map's record: a new one if none is there or, in the cache, if it is expired;
\* a hit in the cache keeps the entry for another two windows.
Find(w) ==
    /\ ~Resting(w) /\ jobs[w].at = "find"
    /\ IF Live
       THEN /\ entry' = [entry EXCEPT !.until = now + 2 * Window]
            /\ UNCHANGED records
       ELSE /\ records' = Append(records, Fresh)
            /\ entry' = [number |-> Len(records'), until |-> now + 2 * Window]
    /\ jobs' = [jobs EXCEPT ![w].at = IF guard = "Cooldown" /\ entry = Absent THEN "first" ELSE "decide",
                            ![w].number = entry'.number]
    /\ UNCHANGED <<guard, now, outcomes, locked, opened, excused>>

\* The message of w is decided: passed on, or deleted and stopped.
Decided(w, time, passed) ==
    /\ ~Resting(w) /\ jobs[w].at = "decide"
    /\ outcomes' = Append(outcomes, [time |-> time, what |-> jobs[w].what, passed |-> passed])
    /\ jobs' = [jobs EXCEPT ![w] = Rest]

Its(w) == records[jobs[w].number]
Becomes(w, record) == records' = [records EXCEPT ![jobs[w].number] = record]

\* The messages that pass in a window: under the shield a third of the limit, but one.
Active(shield) == IF ~shield THEN Limit ELSE IF Limit \div 3 < 1 THEN 1 ELSE Limit \div 3

\* Mutation of AntiSpam: the message that begins a window is not counted.
AntiSpamUncounted(w) ==
    /\ guard = "AntiSpam"
    /\ \E shield \in BOOLEAN :
          LET job == jobs[w]
              rec == IF job.time - Its(w).start < Window THEN [Its(w) EXCEPT !.count = @ + 1]
                     ELSE [start |-> job.time, count |-> 0]
          IN  /\ Decided(w, job.time, rec.count <= Active(shield))
              /\ Becomes(w, rec)
    /\ UNCHANGED <<guard, now, entry, locked, opened, excused>>

\* AntiSpam: fixed windows, by the time noted; a third of the limit under the shield.
AntiSpam(w) ==
    /\ guard = "AntiSpam"
    /\ \E shield \in BOOLEAN :
          LET job == jobs[w]
              rec == IF job.time - Its(w).start < Window THEN [Its(w) EXCEPT !.count = @ + 1]
                     ELSE [start |-> job.time, count |-> 1]
          IN  /\ Decided(w, job.time, rec.count <= Active(shield))
              /\ Becomes(w, rec)
    /\ UNCHANGED <<guard, now, entry, locked, opened, excused>>

\* AntiRepeat: the same text as the one before, which was less than a minute ago.
AntiRepeat(w) ==
    /\ guard = "AntiRepeat"
    /\ Decided(w, now, ~(Its(w).text = jobs[w].what /\ now - Its(w).time < Window))
    /\ Becomes(w, [text |-> jobs[w].what, time |-> now])
    /\ UNCHANGED <<guard, now, entry, locked, opened, excused>>

\* The members that a message says have joined: the slice has only the time of each, here
\* they are told apart, so that equal times count.
Members(time, message, what) == {[time |-> time, message |-> message, member |-> m] : m \in 1..what}

\* Mutation of AntiRaid: a message counts as one join, however many it names.
AntiRaidOnce(w) ==
    /\ guard = "AntiRaid"
    /\ LET job == jobs[w]
           joins == {j \in Its(w).joins : job.time - j.time < Window} \cup
                    IF job.what = 0 THEN {} ELSE Members(job.time, Len(outcomes) + 1, 1)
       IN  /\ Decided(w, job.time, Cardinality(joins) <= Limit)
           /\ Becomes(w, [joins |-> joins])
           /\ locked' = (locked \/ Cardinality(joins) > Limit)
    /\ UNCHANGED <<guard, now, entry, opened, excused>>

\* AntiRaid: the joins of the last window; above the limit every message is stopped
\* and the chat locked, unless it is.  (A callback without a message panics here.)
AntiRaid(w) ==
    /\ guard = "AntiRaid"
    /\ LET job == jobs[w]
           joins == {j \in Its(w).joins : job.time - j.time < Window} \cup
                    Members(job.time, Len(outcomes) + 1, job.what)
       IN  /\ Decided(w, job.time, Cardinality(joins) <= Limit)
           /\ Becomes(w, [joins |-> joins])
           /\ locked' = (locked \/ Cardinality(joins) > Limit)
    /\ UNCHANGED <<guard, now, entry, opened, excused>>

Unlock ==
    /\ locked
    /\ locked' = FALSE
    /\ opened' = Len(outcomes)
    /\ UNCHANGED <<guard, now, entry, records, jobs, outcomes, excused>>

\* allow of the bucket: one token per tick up to the limit, and one per message.
Allow(w) ==
    /\ guard \in Buckets
    /\ LET refilled == Its(w).tokens + now - Its(w).refilled
           full == IF refilled > Limit THEN Limit ELSE refilled
       IN  /\ Decided(w, now, full >= 1)
           /\ Becomes(w, [tokens |-> IF full >= 1 THEN full - 1 ELSE full, refilled |-> now])
    /\ UNCHANGED <<guard, now, entry, locked, opened, excused>>

\* Cooldown: the first message of all is the record; a later one passes when it has
\* got old, and then replaces it, whatever another handler has put there.
Cooldown(w) ==
    /\ guard = "Cooldown" /\ ~Resting(w)
    /\ LET job == jobs[w]
           passed == job.at = "first" \/ (job.at = "decide" /\ job.time - Its(w).last >= Window)
       IN  /\ job.at \in {"first", "decide"}
           /\ outcomes' = Append(outcomes, [time |-> job.time, what |-> job.what, passed |-> passed])
           /\ jobs' = [jobs EXCEPT ![w] = Rest]
           /\ IF passed /\ job.at = "decide"
              THEN /\ records' = Append(records, [last |-> job.time])
                   /\ entry' = [entry EXCEPT !.number = Len(records')]
              ELSE UNCHANGED <<records, entry>>
           /\ excused' = (excused \/ \E v \in Workers \ {w} : ~Resting(v) /\ passed)
    /\ UNCHANGED <<guard, now, locked, opened>>

LimitsNext ==
    \/ Register \/ Tick \/ Cleanup \/ Unlock
    \/ \E w \in Workers : \/ Arrive(w) \/ Find(w) \/ AntiSpam(w) \/ AntiRepeat(w)
                          \/ AntiRaid(w) \/ Allow(w) \/ Cooldown(w)

-----------------------------------------------------------------------------
(***************************************************************************)
(* Properties.  They are excused when a handler stays in its few lines for *)
(* longer than a tick, when ChatRateLimit's sweeper runs while a handler   *)
(* holds the bucket, and when two messages race through a cooldown.        *)
(***************************************************************************)
\* The variables have their types.
LimitsTypeOK ==
    /\ now \in 0..MaxTime
    /\ entry.number \in 0..Len(records)
    /\ \A w \in Workers : ~Resting(w) => jobs[w].number \in 0..Len(records)
    /\ \A k \in DOMAIN outcomes : outcomes[k].time \in 0..MaxTime /\ outcomes[k].passed \in BOOLEAN

PassedIn(from, to) == {k \in DOMAIN outcomes : outcomes[k].passed /\ outcomes[k].time \in from..to}

\* What passes is bounded over any stretch of time, whatever the worker that handles
\* a message and however entries come and go: twice the limit in one window's length
\* for AntiSpam, the limit and one more per tick for a bucket, one for a cooldown.
BurstsBounded ==
    ~excused => \A t \in 0..MaxTime :
        /\ guard = "AntiSpam" => Cardinality(PassedIn(t, t + Window - 1)) <= 2 * Limit
        /\ guard \in Buckets => \A u \in t..MaxTime : Cardinality(PassedIn(t, u)) <= Limit + u - t
        /\ guard = "Cooldown" => Cardinality(PassedIn(t, t + Window - 1)) <= 1

\* "duplicate identical messages sent sequentially by the same user within 1 minute"
\* do not pass, while the cache forgets and two workers handle the two of them.
RepeatsStopped ==
    ~excused /\ guard = "AntiRepeat" => \A k \in 2..Len(outcomes) :
        outcomes[k].what = outcomes[k - 1].what /\ outcomes[k].time - outcomes[k - 1].time < Window
            => ~outcomes[k].passed

\* The members that the first k messages say have joined in the window of the last.
Joined(k) ==
    UNION {Members(outcomes[i].time, i, outcomes[i].what) :
              i \in {i \in 1..k : outcomes[k].time - outcomes[i].time < Window}}

\* More joins than the limit within a window lock the chat, until an administrator
\* unlocks it, and no message passes while they are counted; as long as messages are
\* counted in the order of their times (one that comes late may miss what the one
\* before it has dropped).
RaidLocks ==
    ~excused /\ guard = "AntiRaid" => \A k \in DOMAIN outcomes :
        Cardinality(Joined(k)) > Limit /\ (\A i \in 2..k : outcomes[i - 1].time <= outcomes[i].time)
            => ~outcomes[k].passed /\ (locked \/ opened >= k)

-----------------------------------------------------------------------------
(***************************************************************************)
(* The invariant that makes the three hold, as long as they are not        *)
(* excused.                                                                *)
(***************************************************************************)
\* The record in the map, and what a record of the middleware looks like.
Current == records[entry.number]
Shape ==
    CASE guard = "AntiSpam" -> [start : Int, count : Nat]
      [] guard = "AntiRepeat" -> [text : Texts \cup {""}, time : Int]
      [] guard = "AntiRaid" -> [joins : SUBSET [time : Nat, message : Nat, member : Nat]]
      [] guard \in Buckets -> [tokens : 0..Limit, refilled : Nat]
      [] guard = "Cooldown" -> [last : Nat]
      [] OTHER -> {}

LimitShapes ==
    /\ now \in Nat /\ guard \in {"none", "Cooldown"} \cup Cached \cup Buckets
    /\ records \in Seq(Shape)
    /\ entry = Absent \/ entry \in [number : 1..Len(records), until : Nat]
    /\ jobs \in [Workers -> {Rest} \cup [at : {"find", "first", "decide"}, time : Nat, what : Whats, number : Nat]]
    /\ outcomes \in Seq([time : Nat, what : Whats, passed : BOOLEAN])
    /\ \A k \in DOMAIN outcomes : outcomes[k].time <= now
    /\ guard = "none" => /\ entry = Absent /\ records = <<>> /\ outcomes = <<>> /\ opened = 0
                         /\ \A w \in Workers : Resting(w)

\* A handler is at most a tick old, and the record it has found stays the map's: the
\* cache keeps it for two windows from the message on.
Held ==
    \A w \in Workers : ~Resting(w) =>
        /\ jobs[w].time <= now /\ now <= jobs[w].time + 1
        /\ jobs[w].at # "find" => /\ entry # Absent /\ jobs[w].number = entry.number
                                  /\ guard \in Cached => jobs[w].time + 2 * Window <= entry.until
        /\ jobs[w].at = "first" => guard = "Cooldown"

\* The messages that passed in the window that began at s, when win says of every
\* message in which window it was counted.
OfWindow(win, s) == {k \in DOMAIN outcomes : outcomes[k].passed /\ win[k] = s}

\* AntiSpam: a message is at most a tick earlier than its window, windows are apart,
\* and one that is gone from the map ended a window ago.
Windows(win) ==
    /\ \A k \in DOMAIN outcomes : win[k] <= outcomes[k].time + 1 /\ outcomes[k].time < win[k] + Window
    /\ \A j, k \in DOMAIN outcomes : win[j] < win[k] => win[j] + Window <= win[k]
    /\ \A s \in 0..now : Cardinality(OfWindow(win, s)) <= Limit
    /\ entry = Absent => \A k \in DOMAIN outcomes : win[k] + 2 * Window <= now
    /\ entry # Absent =>
          /\ \A k \in DOMAIN outcomes : win[k] + 2 * Window <= entry.until
          /\ \/ /\ Current = [start |-> -Window, count |-> 0]
                /\ \A k \in DOMAIN outcomes : win[k] + 2 * Window <= now
             \/ /\ Current.start \in 0..now /\ Current.start + 2 * Window <= entry.until
                /\ \A k \in DOMAIN outcomes : win[k] = Current.start \/ win[k] + Window <= Current.start
                /\ Cardinality(OfWindow(win, Current.start)) <= Current.count

SpamInv == \E win \in [DOMAIN outcomes -> 0..now] : Windows(win)

\* AntiRepeat: the record is that of the last message, unless that one is old.
RepeatInv ==
    /\ \A k \in 2..Len(outcomes) :
          outcomes[k].what = outcomes[k - 1].what /\ outcomes[k].time - outcomes[k - 1].time < Window
              => ~outcomes[k].passed
    /\ outcomes # <<>> =>
          LET last == outcomes[Len(outcomes)]
          IN  /\ entry # Absent => last.time + Window <= entry.until
              /\ \/ last.time + Window <= now
                 \/ entry # Absent /\ Current = [text |-> last.what, time |-> last.time]

\* A bucket: what passed since t and what is left in it are within the limit and one
\* more for every tick since t.
Left ==
    IF entry = Absent \/ Current.tokens + now - Current.refilled > Limit THEN Limit
    ELSE Current.tokens + now - Current.refilled

BucketInv ==
    /\ entry # Absent => Current.refilled <= now
    /\ \A t \in 0..now : Cardinality(PassedIn(t, now)) + Left <= Limit + now - t
    /\ \A u \in 0..now : \A t \in 0..u : Cardinality(PassedIn(t, u)) <= Limit + u - t

\* Cooldown: messages pass a window apart, the record is not earlier than any of
\* them, and before the first one there was none.
CooldownInv ==
    /\ \A j, k \in DOMAIN outcomes :
          j < k /\ outcomes[j].passed /\ outcomes[k].passed => outcomes[j].time + Window <= outcomes[k].time
    /\ \A k \in DOMAIN outcomes : outcomes[k].passed => entry # Absent /\ outcomes[k].time <= Current.last
    /\ \A w \in Workers : jobs[w].at = "first" =>
          jobs[w].time <= Current.last /\ \A k \in DOMAIN outcomes : ~outcomes[k].passed

\* AntiRaid: a member who has joined is in the record, or was dropped from it by a
\* message a window later, or its record went two windows later.
RaidInv ==
    /\ opened \in 0..Len(outcomes) /\ RaidLocks
    /\ entry # Absent => IsFiniteSet(Current.joins)
    /\ (\A i \in 2..Len(outcomes) : outcomes[i - 1].time <= outcomes[i].time) =>
          \A i \in DOMAIN outcomes :
             /\ entry # Absent => outcomes[i].time + 2 * Window <= entry.until
             /\ \/ outcomes[i].time + 2 * Window <= now
                \/ outcomes[i].time + Window <= outcomes[Len(outcomes)].time
                \/ entry # Absent /\ Members(outcomes[i].time, i, outcomes[i].what) \subseteq Current.joins

LimitsInv ==
    ~excused =>
        /\ LimitShapes /\ Held
        /\ guard = "AntiSpam" => SpamInv
        /\ guard = "AntiRepeat" => RepeatInv
        /\ guard = "AntiRaid" => RaidInv
        /\ guard \in Buckets => BucketInv
        /\ guard = "Cooldown" => CooldownInv
=============================================================================
