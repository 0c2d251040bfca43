----------------------------- MODULE SessionStore -----------------------------
(***************************************************************************)
(* The sessions of chats, and the file they are saved to (session.go).     *)
(*                                                                         *)
(* Handlers get the session of their chat and write into it.  One          *)
(* goroutine clears idle sessions once an hour and saves all of them every *)
(* ten minutes, and the shutdown saves once more.  A save copies the       *)
(* sessions one at a time, encodes the copy, and then replaces the file    *)
(* under a lock of its own.                                                *)
(*                                                                         *)
(* What a session holds is the number of the last write to it.  A write is *)
(* plain or opaque: of a type that is not registered with gob, which       *)
(* SendSettings and the settings panel put into sessions.                  *)
(***************************************************************************)
EXTENDS Naturals, Sequences, FiniteSets

CONSTANTS
    Chats,
    Handlers,  \* handlers that run at the same time
    MaxWrites, \* bound: writes, over all restarts
    MaxSaves,  \* bound: saves
    MaxDays,   \* bound: days on which no session is used
    MaxFaults  \* bound: crashes, and writes of the file that fail

VARIABLES
    table,   \* the shards: per chat its session, or Absent
    held,    \* per handler the chat whose session it has, and if that was dropped since
    saves,   \* the save of the loop and of Close: where it is and what it has copied
    stopped, \* Close has been called
    disk,    \* the file: per chat a value, 0 if none; or Torn
    writes, saved, days, faults, \* bound counters; writes also numbers the values
    latest,  \* history: per chat the last value written since it was dropped, 0 if none
    parted,  \* history: chats cleared while another handler had the session
    mixed    \* history: two saves overlapped since the last one that did not, or a write failed

sessionVars == <<table, held, saves, stopped, disk, writes, saved, days, faults,
                 latest, parted, mixed>>

-----------------------------------------------------------------------------
Free == [chat |-> "none", lost |-> FALSE]
Absent == [value |-> 0, opaque |-> FALSE, old |-> TRUE]
Torn == [c \in Chats |-> MaxWrites + 1]
None == [c \in Chats |-> 0]
Savers == {"loop", "closer"}
Resting == [at |-> "rest"]
Made(value) == [value |-> value, opaque |-> FALSE, old |-> FALSE]

InitSessions ==
    /\ table = [c \in Chats |-> Absent]
    /\ held = [h \in Handlers |-> Free]
    /\ saves = [s \in Savers |-> Resting]
    /\ stopped = FALSE
    /\ disk = None
    /\ writes = 0 /\ saved = 0 /\ days = 0 /\ faults = 0
    /\ latest = None
    /\ parted = {}
    /\ mixed = FALSE

counters == <<writes, saved, days, faults>>

-----------------------------------------------------------------------------
(***************************************************************************)
(* Handlers                                                                *)
(***************************************************************************)
\* Get: the chat's session, made if there is none; it counts as used.
Get(h) ==
    /\ ~stopped /\ held[h] = Free
    /\ \E c \in Chats :
          /\ table' = [table EXCEPT ![c] = IF @ = Absent THEN Made(0) ELSE [@ EXCEPT !.old = FALSE]]
          /\ held' = [held EXCEPT ![h] = [chat |-> c, lost |-> FALSE]]
    /\ UNCHANGED <<saves, stopped, disk, counters, latest, parted, mixed>>

\* State(v).Go, Data(k, v).Go, Set, SessionSet.
Set(h) ==
    /\ held[h] # Free /\ writes < MaxWrites
    /\ writes' = writes + 1
    /\ IF held[h].lost THEN UNCHANGED table
       ELSE \E opaque \in BOOLEAN :
               table' = [table EXCEPT ![held[h].chat] =
                           [value |-> writes', opaque |-> opaque \/ @.opaque, old |-> FALSE]]
    /\ latest' = [latest EXCEPT ![held[h].chat] = writes']
    /\ UNCHANGED <<held, saves, stopped, disk, saved, days, faults, parted, mixed>>

\* The handler ends.
Leave(h) ==
    /\ held[h] # Free
    /\ held' = [held EXCEPT ![h] = Free]
    /\ UNCHANGED <<table, saves, stopped, disk, counters, latest, parted, mixed>>

\* ClearSession: another handler that has the session writes into one that nobody finds.
Clear(h) ==
    /\ held[h] # Free
    /\ LET c == held[h].chat
           others == {g \in Handlers \ {h} : held[g].chat = c}
       IN  /\ table' = [table EXCEPT ![c] = Absent]
           /\ latest' = [latest EXCEPT ![c] = 0]
           /\ parted' = IF others # {} THEN parted \cup {c} ELSE parted
           /\ held' = [g \in Handlers |-> IF g = h THEN Free
                                         ELSE IF g \in others THEN [held[g] EXCEPT !.lost = TRUE] ELSE held[g]]
    /\ UNCHANGED <<saves, stopped, disk, counters, mixed>>

-----------------------------------------------------------------------------
(***************************************************************************)
(* The loop: NewGOBStore                                                   *)
(***************************************************************************)
\* A day without any use; no handler lasts that long.
Day ==
    /\ days < MaxDays /\ \A h \in Handlers : held[h] = Free
    /\ days' = days + 1
    /\ table' = [c \in Chats |-> [table[c] EXCEPT !.old = TRUE]]
    /\ UNCHANGED <<held, saves, stopped, disk, writes, saved, faults, latest, parted, mixed>>

\* Mutation of CleanUp: it does not look when the session was used.
CleanUpAll(c) ==
    /\ saves["loop"] = Resting /\ table[c] # Absent
    /\ table' = [table EXCEPT ![c] = Absent]
    /\ latest' = IF table[c].old THEN [latest EXCEPT ![c] = 0] ELSE latest
    /\ UNCHANGED <<held, saves, stopped, disk, counters, parted, mixed>>

\* A session that has been idle for a day goes.
CleanUp(c) ==
    /\ saves["loop"] = Resting /\ table[c] # Absent
    /\ table[c].old
    /\ table' = [table EXCEPT ![c] = Absent]
    /\ latest' = [latest EXCEPT ![c] = 0]
    /\ UNCHANGED <<held, saves, stopped, disk, counters, parted, mixed>>

Over(saver) == \E s \in Savers \ {saver} : saves[s].at \in {"copy", "write"}
Ended == saves["closer"].at \in {"gone", "refused"}

\* Save begins: by the loop's ticker (also when stop is ready too), or by Close.
Begin(s) ==
    /\ saves[s] = Resting /\ saved < MaxSaves
    /\ saved' = saved + 1
    /\ s = "closer" => stopped
    /\ saves' = [saves EXCEPT ![s] = [at |-> "copy", todo |-> Chats, copy |-> None, opaque |-> FALSE]]
    /\ mixed' = (mixed \/ Over(s))
    /\ UNCHANGED <<table, held, stopped, disk, writes, days, faults, latest, parted>>

\* The next session is copied under the lock of its shard and its own.
Copy(s) ==
    /\ saves[s].at = "copy"
    /\ \E c \in saves[s].todo :
          saves' = [saves EXCEPT
              ![s].todo = @ \ {c},
              ![s].copy[c] = table[c].value,
              ![s].opaque = @ \/ table[c].opaque]
    /\ UNCHANGED <<table, held, stopped, disk, counters, latest, parted, mixed>>

\* Mutation of Encode: the file is emptied before the copy is encoded.
EncodeLate(s) ==
    /\ saves[s].at = "copy" /\ saves[s].todo = {}
    /\ IF saves[s].opaque
       THEN /\ saves' = [saves EXCEPT ![s] = IF s = "closer" THEN [at |-> "refused"] ELSE Resting]
            /\ disk' = Torn
       ELSE /\ saves' = [saves EXCEPT ![s].at = "write"]
            /\ UNCHANGED disk
    /\ UNCHANGED <<table, held, stopped, counters, latest, parted, mixed>>

\* gob refuses a value of a type it does not know: the save ends, its error ignored.
Encode(s) ==
    /\ saves[s].at = "copy" /\ saves[s].todo = {}
    /\ saves' = [saves EXCEPT ![s] = IF ~saves[s].opaque THEN [@ EXCEPT !.at = "write"]
                                     ELSE IF s = "closer" THEN [at |-> "refused"] ELSE Resting]
    /\ UNCHANGED <<table, held, stopped, disk, counters, latest, parted, mixed>>

\* Under the lock of the file: a new one is written and renamed over it.  When it
\* cannot be opened nothing happens; when it is cut short it is renamed all the same.
Replace(s) ==
    /\ saves[s].at = "write"
    /\ saves' = [saves EXCEPT ![s] = IF s = "closer" THEN [at |-> "gone"] ELSE Resting]
    /\ \/ /\ disk' = saves[s].copy
          /\ UNCHANGED <<faults, mixed>>
       \/ /\ faults < MaxFaults
          /\ faults' = faults + 1
          /\ mixed' = TRUE
          /\ disk' \in {disk, Torn}
    /\ UNCHANGED <<table, held, stopped, writes, saved, days, latest, parted>>

-----------------------------------------------------------------------------
(***************************************************************************)
(* Close, and the end of the process                                       *)
(***************************************************************************)
\* Close: the stop channel.  The workers have ended before (bot.go 887).
Close ==
    /\ ~stopped /\ \A h \in Handlers : held[h] = Free
    /\ stopped' = TRUE
    /\ UNCHANGED <<table, held, saves, disk, counters, latest, parted, mixed>>

\* The loop ends; nobody waits for that.
LoopEnds ==
    /\ stopped /\ saves["loop"] = Resting
    /\ saves' = [saves EXCEPT !["loop"] = [at |-> "gone"]]
    /\ UNCHANGED <<table, held, stopped, disk, counters, latest, parted, mixed>>

\* The process ends, by a crash or after Close, and starts anew: New loads the file,
\* and starts with none if that fails.
Restart ==
    /\ Ended \/ faults < MaxFaults
    /\ faults' = IF Ended THEN faults ELSE faults + 1
    /\ latest' = IF disk = Torn THEN None ELSE disk
    /\ table' = [c \in Chats |-> IF latest'[c] = 0 THEN Absent ELSE Made(latest'[c])]
    /\ held' = [h \in Handlers |-> Free]
    /\ saves' = [s \in Savers |-> Resting]
    /\ stopped' = FALSE
    /\ parted' = {}
    /\ mixed' = FALSE
    /\ UNCHANGED <<disk, writes, saved, days>>

SessionsNext ==
    \/ \E h \in Handlers : Get(h) \/ Set(h) \/ Leave(h) \/ Clear(h)
    \/ \E c \in Chats : CleanUp(c)
    \/ \E s \in Savers : Begin(s) \/ Copy(s) \/ Encode(s) \/ Replace(s)
    \/ Day \/ Close \/ LoopEnds \/ Restart

SessionSpec == InitSessions /\ [][SessionsNext]_sessionVars

-----------------------------------------------------------------------------
(***************************************************************************)
(* Properties                                                              *)
(***************************************************************************)
\* The variables have their types.
SessionsTypeOK ==
    /\ \A c \in Chats : table[c].value \in 0..MaxWrites
    /\ disk = Torn \/ disk \in [Chats -> 0..MaxWrites]
    /\ \A h \in Handlers : held[h] = Free \/ held[h].chat \in Chats
    /\ stopped \in BOOLEAN /\ writes \in 0..MaxWrites

\* The next handler finds what the last one wrote, while sessions are cleaned up,
\* saved and restored: only Clear under the hands of another handler parts them.
NextFindsLast ==
    \A c \in Chats \ parted :
        latest[c] = table[c].value

\* Nothing but a failed write spoils the file: in particular not a save that gob
\* refuses, and not one that is cut off by a crash.
FileStays == disk = Torn => faults > 0

\* After Close the file holds the sessions that are there, unless a save of the loop
\* overlapped with another, the file could not be written or gob refused a value.
CloseSaves ==
    saves["closer"].at = "gone" /\ ~mixed /\ parted = {} =>
        \A c \in Chats : latest[c] # 0 => disk # Torn /\ disk[c] = latest[c]

\* The three together.
SessionsKept == NextFindsLast /\ FileStays /\ CloseSaves

\* "auto-saved ... and flushed gracefully on shutdown": without the last exception.
FlushedOnShutdown ==
    Ended /\ ~mixed /\ parted = {} =>
        \A c \in Chats : latest[c] # 0 => disk # Torn /\ disk[c] = latest[c]

-----------------------------------------------------------------------------
(***************************************************************************)
(* What the three follow from                                              *)
(***************************************************************************)
\* The numbers of writes.
Values == 0..MaxWrites

\* What is known of a session, and of a handler that may have one.
Sessions == [value : Values, opaque : BOOLEAN, old : BOOLEAN]
Holds == {Free} \cup [chat : Chats, lost : BOOLEAN]

\* A save that is under way has a copy, one that is not has none.
Copies == [at : {"copy", "write"}, todo : SUBSET Chats, copy : [Chats -> Values], opaque : BOOLEAN]
SaveStates == {Resting, [at |-> "gone"], [at |-> "refused"]} \cup Copies

\* The types of what the invariant speaks of.
SessionShapes ==
    /\ table \in [Chats -> Sessions] /\ held \in [Handlers -> Holds]
    /\ saves \in [Savers -> SaveStates]
    /\ stopped \in BOOLEAN /\ mixed \in BOOLEAN
    /\ disk = Torn \/ disk \in [Chats -> Values]
    /\ latest \in [Chats -> Values] /\ writes \in Values /\ faults \in Nat

\* A save is under way.
Active(s) == saves[s].at \in {"copy", "write"}

\* What a save has copied is what was written last, unless the session has gone since.
Faithful(s) ==
    \A c \in Chats \ parted : c \notin saves[s].todo /\ latest[c] # 0 => saves[s].copy[c] = latest[c]

\* A handler that has lost its session is one of those that another one parted from it.
LostAreParted == \A h \in Handlers : held[h].lost => held[h].chat \in parted

\* The last save begins when no handler is left, and unless saves overlap, its copy holds and
\* that of any save of the loop after it.
SavesHold ==
    /\ stopped => \A h \in Handlers : held[h] = Free
    /\ saves["closer"] # Resting => stopped
    /\ \A s \in Savers : saves[s].at = "write" => saves[s].todo = {}
    /\ Active("closer") => Faithful("closer")
    /\ ~mixed /\ Active("loop") /\ saves["closer"] # Resting => ~Active("closer") /\ Faithful("loop")

\* All that SessionsKept follows from.
SessionsInv == SessionShapes /\ LostAreParted /\ SavesHold /\ SessionsKept
=============================================================================
