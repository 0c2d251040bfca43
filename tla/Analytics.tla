------------------------------- MODULE Analytics -------------------------------
(***************************************************************************)
(* The counters of one chat in the analytics database (analytics.go).      *)
(*                                                                         *)
(* AnalyticsLogger counts a message under the database's lock.  A deletion *)
(* is counted by incrementAnalyticsCount, which reads a counter and writes *)
(* it back in two calls.  A report reads the counters one by one, and the  *)
(* daily task drops the daily ones after its report.                       *)
(***************************************************************************)
EXTENDS Naturals, FiniteSets

CONSTANTS
    Updaters,    \* workers with updates of this chat
    MaxMessages, \* bound: messages
    MaxDeletes,  \* bound: messages deleted
    MaxReports,  \* bound: reports
    MaxCrashes   \* bound: crashes of the process

VARIABLES
    daily, lifetime, \* per metric its counter
    named,           \* user_name is there for the author
    workers,         \* per worker what it is at
    report,          \* the report under way
    messages, edits, deletes, reports, crashes, \* bound counters, and what happened
    reported,        \* history: messages in the daily reports that were followed by a purge
    mediaEdits,      \* history: edits of messages with media
    overlapped,      \* history: two deletions, or a deletion and a purge, have overlapped
    straddled,       \* history: messages counted between a daily report's start and its purge
    torn             \* history: messages of which a crash left only a part of the counters

analyticsVars == <<daily, lifetime, named, workers, report, messages, edits, deletes, reports,
                   crashes, reported, mediaEdits, overlapped, straddled, torn>>

-----------------------------------------------------------------------------
Metrics == {"text", "photo", "edits", "deletions"}
Zero == [m \in Metrics |-> 0]
Resting == [at |-> "idle", read |-> 0]
NoReport == [at |-> "none", period |-> "daily", read |-> Zero, low |-> 0, todo |-> {}]

InitAnalytics ==
    /\ daily = Zero /\ lifetime = Zero
    /\ named = FALSE
    /\ workers = [u \in Updaters |-> Resting]
    /\ report = NoReport
    /\ messages = 0 /\ edits = 0 /\ deletes = 0 /\ reports = 0 /\ crashes = 0
    /\ reported = 0 /\ mediaEdits = 0 /\ straddled = 0 /\ torn = 0
    /\ overlapped = FALSE

Plus(count, ms) == [m \in Metrics |-> IF m \in ms THEN count[m] + 1 ELSE count[m]]

\* What a report calls the messages of a chat: TotalMsgs.
Total(count) == count["text"] + count["photo"]

\* Mutation of Logged: an edited text counts as a message.
LoggedTwice(media, edit) ==
    (IF edit THEN {"edits"} ELSE {}) \cup (IF media THEN {"photo"} ELSE {"text"})

\* What the logger counts: an edit, and the kind of message; a text counts when it is new.
Logged(media, edit) ==
    (IF edit THEN {"edits"} ELSE {}) \cup (IF media THEN {"photo"} ELSE IF edit THEN {} ELSE {"text"})

\* AnalyticsLogger: all counters of a message at once.  The author's name is stored, not
\* logged.
Log(media, edit) ==
    /\ IF edit THEN edits' = edits + 1 /\ edits < messages /\ UNCHANGED messages
               ELSE messages' = messages + 1 /\ messages < MaxMessages /\ UNCHANGED edits
    /\ edits' < MaxMessages
    /\ daily' = Plus(daily, Logged(media, edit))
    /\ lifetime' = Plus(lifetime, Logged(media, edit))
    /\ named' = TRUE
    /\ mediaEdits' = mediaEdits + (IF edit /\ media THEN 1 ELSE 0)
    /\ straddled' = straddled + (IF report.at # "none" /\ report.period = "daily"
                                 THEN Cardinality(Logged(media, edit) \ {"edits"}) ELSE 0)
    /\ UNCHANGED <<workers, report, deletes, reports, crashes, reported, overlapped,
                   torn>>

\* DelChain.Go: a message is deleted, and both counters are to be incremented.
Deleted(u) ==
    /\ workers[u] = Resting /\ deletes < MaxDeletes
    /\ deletes' = deletes + 1
    /\ workers' = [workers EXCEPT ![u] = [at |-> "daily", read |-> 0]]
    /\ overlapped' = (overlapped \/ \E v \in Updaters \ {u} : workers[v] # Resting)
    /\ UNCHANGED <<daily, lifetime, named, report, messages, edits, reports, crashes, reported,
                   mediaEdits, straddled, torn>>

\* incrementAnalyticsCount: Get, and later Set, of the daily counter, then of the other.
ReadCounter(u) ==
    LET w == workers[u]
    IN  /\ w.at \in {"daily", "lifetime"}
        /\ workers' = [workers EXCEPT ![u] =
               IF w.at = "daily" THEN [at |-> "setDaily", read |-> daily["deletions"]]
               ELSE [at |-> "setLifetime", read |-> lifetime["deletions"]]]
        /\ UNCHANGED <<daily, lifetime, named, report, messages, edits, deletes, reports, crashes,
                       reported, mediaEdits, overlapped, straddled, torn>>

SetCounter(u) ==
    LET w == workers[u]
    IN  /\ \/ /\ w.at = "setDaily"
              /\ daily' = [daily EXCEPT !["deletions"] = w.read + 1]
              /\ workers' = [workers EXCEPT ![u] = [at |-> "lifetime", read |-> 0]]
              /\ UNCHANGED lifetime
           \/ /\ w.at = "setLifetime"
              /\ lifetime' = [lifetime EXCEPT !["deletions"] = w.read + 1]
              /\ workers' = [workers EXCEPT ![u] = Resting]
              /\ UNCHANGED daily
        /\ UNCHANGED <<named, report, messages, edits, deletes, reports, crashes, reported,
                       mediaEdits, overlapped, straddled, torn>>

\* A report begins: on demand for the lifetime, or the daily task's, which purges after it.
Begin(period) ==
    /\ report.at = "none" /\ reports < MaxReports
    /\ reports' = reports + 1
    /\ report' = [at |-> "read", period |-> period, read |-> Zero, todo |-> {"text", "photo"},
                  low |-> Total(IF period = "daily" THEN daily ELSE lifetime)]
    /\ UNCHANGED <<daily, lifetime, named, workers, messages, edits, deletes, crashes, reported,
                   mediaEdits, overlapped, straddled, torn>>

\* AnalyticsChain.Go: the next counter, in the order of the source.
Read(m) ==
    /\ report.at = "read" /\ m \in report.todo
    /\ m = "photo" => "text" \notin report.todo
    /\ report' = [report EXCEPT !.read[m] = (IF report.period = "daily" THEN daily ELSE lifetime)[m],
                                !.todo = @ \ {m}, !.at = IF @ = "read" /\ report.todo = {m} THEN "tell" ELSE @]
    /\ UNCHANGED <<daily, lifetime, named, workers, messages, edits, deletes, reports, crashes,
                   reported, mediaEdits, overlapped, straddled, torn>>

\* A report of the lifetime is done.
Told ==
    /\ report.at = "tell" /\ report.period = "lifetime"
    /\ report' = NoReport
    /\ UNCHANGED <<daily, lifetime, named, workers, messages, edits, deletes, reports, crashes,
                   reported, mediaEdits, overlapped, straddled, torn>>

\* Mutation of Purge: the report is told, and the counters stay.
PurgeNot ==
    /\ report.at = "tell" /\ report.period = "daily"
    /\ reported' = reported + Total(report.read)
    /\ report' = NoReport
    /\ overlapped' = (overlapped \/ \E u \in Updaters : workers[u] # Resting)
    /\ UNCHANGED <<daily, lifetime, named, workers, messages, edits, deletes, reports, crashes,
                   mediaEdits, straddled, torn>>

\* purgeDailyStats, after the daily task's report: all daily counters at once.
Purge ==
    /\ report.at = "tell" /\ report.period = "daily"
    /\ reported' = reported + Total(report.read)
    /\ daily' = Zero
    /\ report' = NoReport
    /\ overlapped' = (overlapped \/ \E u \in Updaters : workers[u] # Resting)
    /\ UNCHANGED <<lifetime, named, workers, messages, edits, deletes, reports, crashes,
                   mediaEdits, straddled, torn>>

\* The process dies and starts again: the counters come back from the log.  A deletion that
\* was being counted is not, a report is not told, and a purge or a message that was being
\* logged left a part of its records: of each counter the daily one comes first.
Crash ==
    /\ crashes < MaxCrashes
    /\ crashes' = crashes + 1
    /\ named' = FALSE
    /\ overlapped' = (overlapped \/ \E u \in Updaters : workers[u] # Resting)
    /\ workers' = [u \in Updaters |-> Resting]
    /\ report' = NoReport
    /\ \/ UNCHANGED <<daily, lifetime, messages, reported, torn>>
       \/ \E media \in BOOLEAN :
             /\ messages < MaxMessages /\ messages' = messages + 1
             /\ daily' = Plus(daily, Logged(media, FALSE))
             /\ torn' = torn + 1
             /\ UNCHANGED <<lifetime, reported>>
       \/ \E left \in SUBSET Metrics :
             /\ report.at = "tell" /\ report.period = "daily"
             /\ reported' = reported + Total(report.read)
             /\ daily' = [m \in Metrics |-> IF m \in left THEN daily[m] ELSE 0]
             /\ torn' = torn + Total(daily')
             /\ UNCHANGED <<lifetime, messages>>
    /\ UNCHANGED <<edits, deletes, reports, mediaEdits, straddled>>

AnalyticsNext ==
    \/ \E media, edit \in BOOLEAN : Log(media, edit)
    \/ \E u \in Updaters : Deleted(u) \/ ReadCounter(u) \/ SetCounter(u)
    \/ \E period \in {"daily", "lifetime"} : Begin(period)
    \/ \E m \in {"text", "photo"} : Read(m)
    \/ Told \/ Purge \/ Crash

AnalyticsSpec == InitAnalytics /\ [][AnalyticsNext]_analyticsVars

-----------------------------------------------------------------------------
(***************************************************************************)
(* Properties                                                              *)
(***************************************************************************)
\* The variables have their types.
AnalyticsTypeOK ==
    /\ daily \in [Metrics -> Nat] /\ lifetime \in [Metrics -> Nat]
    /\ named \in BOOLEAN
    /\ \A u \in Updaters : workers[u].at \in {"idle", "daily", "setDaily", "lifetime", "setLifetime"}
    /\ report.at \in {"none", "read", "tell"}

\* No message is lost by the counters or counted twice, whatever runs at the same time, but
\* those that a crash tore: the total of the chat is its messages, and its edits of media,
\* which the logger counts again.  A report of it tells no less than there was when it began
\* and no more than there is.  The daily reports together with the counters that follow make
\* up the same total, save for messages counted while such a report was under way.
MessagesCounted ==
    LET all == messages + mediaEdits
    IN  /\ Total(lifetime) <= all /\ all <= Total(lifetime) + torn
        /\ report.at = "tell" =>
              /\ Total(report.read) >= report.low
              /\ Total(report.read) <= Total(IF report.period = "daily" THEN daily ELSE lifetime)
        /\ reported + Total(daily) <= Total(lifetime) + torn
        /\ Total(lifetime) <= reported + Total(daily) + straddled

\* Deletions are counted once each, as long as no two of them, and no purge or crash, overlap
\* in the middle of counting; they are never counted twice.
DeletionsCounted ==
    /\ lifetime["deletions"] <= deletes
    /\ ~overlapped /\ (\A u \in Updaters : workers[u] = Resting) =>
          lifetime["deletions"] = deletes /\ daily["deletions"] <= deletes

-----------------------------------------------------------------------------
(***************************************************************************)
(* What the two follow from                                                *)
(***************************************************************************)
\* The types of what the invariant speaks of, and what a report has left to read.
AnalyticsShapes ==
    /\ daily \in [Metrics -> Nat] /\ lifetime \in [Metrics -> Nat]
    /\ workers \in [Updaters -> [at : {"idle", "daily", "setDaily", "lifetime", "setLifetime"}, read : Nat]]
    /\ report \in [at : {"none", "read", "tell"}, period : {"daily", "lifetime"}, read : [Metrics -> Nat],
                   low : Nat, todo : {{}, {"photo"}, {"text", "photo"}}]
    /\ messages \in Nat /\ mediaEdits \in Nat /\ deletes \in Nat
    /\ reported \in Nat /\ straddled \in Nat /\ torn \in Nat

\* The counter of texts has been read, or it and that of photos, while both only grow; and all
\* that a daily report may miss has been straddled.
ReportInv ==
    LET counts == IF report.period = "daily" THEN daily ELSE lifetime
    IN  /\ report.at = "read" =>
              \/ report.todo = {"text", "photo"} /\ report.low <= Total(counts)
              \/ /\ report.todo = {"photo"} /\ report.read["text"] <= counts["text"]
                 /\ report.low <= report.read["text"] + counts["photo"]
        /\ report.at = "tell" =>
              /\ report.read["text"] <= counts["text"] /\ report.read["photo"] <= counts["photo"]
              /\ report.low <= Total(report.read)
        /\ report.at # "none" /\ report.period = "daily" =>
              Total(lifetime) <= reported + report.low + straddled

\* Deletions that are being counted.
Counting == {u \in Updaters : workers[u] # Resting}

\* Of deletions not counted yet there are at least as many as are being counted, and also when
\* a worker has set what it is about to set.
Behind(counting) ==
    /\ lifetime["deletions"] + counting <= deletes
    /\ \A u \in Updaters : workers[u].at = "setLifetime" => workers[u].read + counting <= deletes

\* Who has always been alone with it sets a counter to what follows.
Alone ==
    ~overlapped =>
       /\ \A u, v \in Counting : u = v
       /\ Counting = {} => lifetime["deletions"] = deletes /\ daily["deletions"] <= deletes
       /\ \A u \in Counting :
             /\ lifetime["deletions"] + 1 = deletes
             /\ workers[u].at \in {"daily", "setDaily"} => daily["deletions"] + 1 <= deletes
             /\ workers[u].at = "setDaily" => workers[u].read + 1 <= deletes
             /\ workers[u].at \in {"lifetime", "setLifetime"} => daily["deletions"] <= deletes
             /\ workers[u].at = "setLifetime" => workers[u].read + 1 = deletes

\* Deletions are behind, whatever overlaps, and exact without it.
DeletionInv == Behind(Cardinality(Counting)) /\ Alone

\* All that the two properties follow from.
AnalyticsInv == AnalyticsShapes /\ ReportInv /\ MessagesCounted /\ DeletionInv
=============================================================================
