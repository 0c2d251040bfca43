# GoBale in TLA+

Models, model-checking runs and machine-checked proofs for GoBale, a Go
framework for bots of the Bale messenger. Every definition is translated from
the Go source; `PROJECT.json` gives, for each of them, the file and the lines.

## 1. The system

One process runs one `Bot`. Updates come from the server of Bale by polling or
by webhook, go through a channel to a pool of workers, and each worker runs the
middlewares and the handler that the router picks. Handlers call the API through
one HTTP client, and keep their state in a key-value store with a write-ahead
log and in a session store. Around that: timers, periodic tasks, caches,
transfers of files, menus and text rules. There are no tests in the repository; its
documentation is in `docs/`.

```
 Bale server --getUpdates/webhook--> front --workerChan--> workers --> router --> middlewares --> handler
      ^                                                                                             |
      |                                                                                             v
      +---- RL.Wait <- breaker <- BaseRequest <------------------ Ctx / Send / Chat, transfers, timers
                                                                     |            |
                                                             sessions (GOBStore)  key-value store (WAL)
```

### Inventory

| component (source) | state | operations | what is hard | what makes it correct |
|---|---|---|---|---|
| key-value store (`database.go`) | map, `db.mu`; log, encoder, `db.walMu`; snapshot; wake-up channel | Set, Del, Tx, TxKeys, Get, compact, Close, recover | two locks with nothing held between; crash at any point of write or compaction; file errors | a crash loses nothing that was written; operations and Close return; the log does not grow for ever |
| API client (`client.go`) | breaker (four atomics), per call attempt and 429 counters | BaseRequest, BaseRequestMultipart, CanExecute, Record* | fields of the breaker change one at a time; late reports; calls that end without a report | calls return; the breaker lets the API back in |
| rate limiter, shield (`client.go`, `system.go` 91-134) | tokens, lastRefill | Wait, replacement of the limiter | callers sleep outside the lock; cancellation gives time back; replacement while others sleep | the rate is kept |
| update pipeline (`bot.go` 568-880, 886-1210) | offset, batch, `workerChan`, workers, tasks, shutdown phase | PollChain.Go, WebChain.Go, StartWorkers, ClearQueue, shutdown | confirmation by the next request; full channel; shutdown against senders; crashes | nothing the server forgot is lost silently; order; drain before close; shutdown ends |
| routing (`bot.go` 585-772, 1213-1372; `context.go`) | routes, groups, per-chat dialogue state, `Bot.mu`, `Ctx.index` | processUpdate, Ctx.Next, Abort, Use, Group, Recovery, Pipe | state read before the handlers are chosen, several workers; panics inside nested calls | one update, one chain; each handler once and in order; the text before an edit is the last one |
| sessions (`session.go`) | 32 shards, file | Get, Clear, Save, Load, State, Set, clean-up, autosave, Close | pointers kept while the shard forgets them; concurrent saves; failed writes | what was set is found and saved |
| warnings (`warn_engine.go`) | three keys per user in the store | Warn, Unwarn, cleaner, reset after punishment | three transactions for one change; a cleaner in between; crash | every warning expires, none too early; the threshold resets |
| flows (`flows.go`) | registered states, session data, marks of captchas, timers | Wizard, Form, Survey, Captcha | timer against click and against a second join; handlers named alike | who solved the captcha stays, who did not is removed; a form gets its own answers |
| middlewares (`middleware.go`, `media_guard.go`) | buckets, windows, lists of words, locks of a chat | 40 wrappers | settings change while guards run; records in shared maps; a read lock held while handlers run | a lock holds; administrators are exempt; limits are limits; no handler waits for itself |
| settings and toggles (`settings.go`, `bot.go` 300-540, `context.go`) | keys in the store, markup in the session | Toggle, ToggleSetting, panel, restrictions, reverts | negate a value read before; a panel captured earlier | one change has its effect; lights tell the truth |
| transfers (`transfer.go`, `send.go`) | queue, registry of cancel functions, partial files, cached ids, volumes | Download, Upload, Cancel, resume, split | registry indices; resume after errors; lost answers | a finished file is whole; Cancel reaches every job |
| WebSocket engine (`socket.go`) | clients, connections, frames | Go, Send, EmitJSON, Broadcast, ping, listen, Close | several writers of one connection; deadlines | frames of one client are not mixed; who is known is served |
| logging (`logger.go`) | current file, its size, backups | Write, rotate | crash within a rotation; failed reopen | the last lines are there, in order |
| background work (`context.go`) | `bgSemaphore`, requests of a purge | Ctx.Go, Purge | tasks that start tasks; waves of requests | no more than there is room for; a purge deletes what it was asked to |
| menus, pages (`menu.go`, `pagination.go`) | current menu, numbers of messages, page kept for a message | SendMenu, back, home, close, next, previous, select | session and chat come apart; pages expire | one menu; an item is the one shown |
| analytics (`analytics.go`) | counters per day and in all | AnalyticsLogger, incrementAnalyticsCount, reports, purge | read and write apart; report, then purge | nothing is counted twice, nothing lost |
| tasks (`system.go` 191-300) | stop channels | Every, Daily, In, Stop | stopped twice | the shutdown ends |
| event bus, dashboard, text rules, payload builders | little or none | see section 7 | | |

Components interact by calls and shared state only: the router and the
middlewares share `Bot.mu`, the sessions and the cache; warnings, settings,
captchas and analytics share the key-value store; all of them share the client.
What a part needs of another one it chooses freely in its own model (for
instance whether a request succeeds, or whether the query for administrators
answers), so each part is checked against more than its neighbours do.

## 2. Modules

| module | models | role |
|---|---|---|
| `WalDatabase`, `DurableMap`, `MCWalDatabase`, `WalDatabase_proofs` | `database.go` | `DurableMap` is the abstract specification, refined by `WalDatabase` |
| `ApiClient`, `ApiClient_proofs` | `client.go`: breaker and retries | |
| `RateLimiter` | `client.go`: `RL`; `system.go`: shield | proofs in `Moderation_proofs` |
| `UpdatePipeline`, `UpdatePipeline_proofs` | `bot.go`: both fronts, workers, shutdown | |
| `HandlerChain`, `GuardedChat` | `context.go` Next and Abort, Recovery, Pipe; every guard of `middleware.go` and `media_guard.go` | `GuardedChat` extends the chain; proofs in `Chain_proofs` |
| `Routing`, `RouteGroups`, `BotLock` | `processUpdate`; `On().Group`; `Bot.mu` | |
| `Settings` | `settings.go`, the panel (`bot.go`, `context.go`), restrictions (`media_guard.go`) | |
| `BannedWords`, `WordsDialogue` | `middleware.go` 658-1265 | the lists; the dialogue that edits them |
| `Limits` | the middlewares that count over time, and the cache | |
| `MCModeration`, `Chain_proofs`, `Moderation_proofs` | | the nine parts above as one instance (`ModerationSpec`), for TLC and for the proofs |
| `SessionStore` | `session.go` | |
| `WarnEngine` | `warn_engine.go` | |
| `Wizards`, `Surveys`, `Captcha` | `flows.go` | |
| `CancelRegistry`, `Downloads`, `Uploads`, `Volumes` | `transfer.go`, `send.go` | |
| `Hub`, `RotateLog` | `socket.go`, `logger.go` | |
| `Background`, `Broadcasts` | `Ctx.Go`, `Purge`, `BroadcastChain` | |
| `Menus`, `Pagination`, `Analytics` | `menu.go`, `pagination.go`, `analytics.go` | |
| `MCServices`, `WarnEngine_proofs`, `Services_proofs`, `Transfers_proofs` | | the sixteen parts above, from `SessionStore` on, as one instance (`ServicesSpec`), for TLC and for the proofs |

### Store, client, pipeline

**`WalDatabase`**. `store` is the map and `mu` the holder of `db.mu`. An operation is a critical
section (`Mutate`), then one `Append1` for each record it logs, then the
`Signal` that wakes the compactor. `pend` holds the records that an operation has
still to append, which is the program counter of the client. Only `Tx` keeps
`mu` meanwhile. `walMu` needs no variable of its own (`WalMuFree`): an append is one step, a compaction
holds it exactly while `comp` is `"write"` or `"renamed"`, and `logger` tells of the one case in which it is
never unlocked. `NewDatabase` drops the error of `openWAL`, which leaves no encoder (`"missing"`); the next
append panics with `walMu` locked (`AppendPanics`, `"stuck"`), and then appends wait for ever, the ticker too
(`TickHangs`), and a compaction that has come as far as `db.mu` keeps that as well (`CompactHangs`).

The log is a sequence of records. What makes the file interesting is kept: each
gob encoder writes a type definition before its first record (`fresh`, `hdr`), the
id in it is the same in every process that registers its types in the same order
(`typeId`), a decoder refuses an id it has seen, a value whose type was not
registered leaves no record (`Opaque`), and a record cut by a crash hides the
rest (`"torn"`). `Recovered` is what a restart would read back, in every state.

`compact` is `CompactLock`, then `CompactRename` and `CompactTruncate`, with the
early returns in `CompactAbort` and `CompactReopenFails`. `Crash` may happen
between any two steps, or inside a write. `suspect` is a history variable: the
keys of which the code does not promise anything, because two operations on them
were under way together, because `Tx` deleted them, or because a panic kept a
change out of the log.

**`ApiClient`**. Every atomic operation of the breaker is a step: `CanExecute` is `Call`,
`LoadLastFail`, `Claim`, `Allow`, `Probe`; `RecordSuccess` and `RecordFailure`
likewise. `pc` is the place of each caller, `attempt` and `retries` the counters of the two
loops. Time is relative: `since` is the age of `lastFail`. `owner` and `lost` are
history: who opened the last half-open period, and whether its request ended
without a report.

**`RateLimiter`**. `tokens` and `lag` (the age of `lastRefill`, negative in the future) are in
ticks. `Reserve` is the branch without a token, `Wake` and `Cancel` the two
cases of its select, `Swap` the shield. `level` is a history variable: a leaky
bucket that fills with what is let through. The rate is kept when it never
exceeds the capacity.

**`UpdatePipeline`**. `front` says which chain runs, `pc` where its `Go` is. `Ask`, `ServeBatch`,
`Receive` and `PushNext` are a round of polling, `AskFails` its errors, including
the reply that is lost after the server has handled the request. `Post` and
`Enqueue` are webhook requests. The server is external: it forgets what a higher
offset or an answered webhook confirms. `Take`, `Finish` and `Exit` are the
workers; `CloseChannel`, `Drained`, `StopTasks` and `CloseStore` the shutdown, in its
order. `Crash` and `Start` end and begin a process.

### From the worker to the handler

**`HandlerChain`**. Calls are frames on `stack`; `index` is `Ctx.index`, an int8
whose width is kept (`MaxIndex`, with overflow). A handler calls Next and comes
back, returns, aborts or panics; a panic unwinds to `Recovery`, the first of every
chain, and Go's loop in Next goes on behind it.

**`GuardedChat`** puts guards into such a chain. Each guard is an operator that
returns its verdict on an update (pass, delete and stop, stop, panic) from the kind of
update, its author, what it contains and the keys of the store, in the order of
the source's conditions. `ChangeFlag` lets administrators change keys between any
two steps. `held` and `touched` are history.

**`Routing`** splits `processUpdate` where it splits: `Look` reads the dialogue's
state, `Choose` picks the chain under `Bot.mu` and writes the text into the cache,
`Run` is the chain with what handlers do to state. **`RouteGroups`** models slices
as Go has them: a group is an array and a length, and `append` writes into the
array when it has room.

**`BotLock`** is `sync.RWMutex` with its waiting writer. What a goroutine does with
it is a sequence of lock operations taken from the code: `processUpdate` reads, a
registration writes, `AdminOnly` keeps a read lock around the rest of the chain, the
toggle holds the write lock, the timers of wizards write. Six guards read the sender between
`RLock` and `RUnlock` without a defer: on a post without sender (`NoSender`) they panic there, and the
read lock stays taken for good (`leaked`).

**`Settings`**. Each change of a key is its read, its computation and its write
(`Toggle` alone under the mutex). The panel is as the code has it: a tap on it (`Click`) puts the layout that
was on display into the session, which keeps a pointer (`captured`, into `layouts`); a tap on the dialog
takes that pointer (`Confirm`), reads the switch (`Press`), writes it (`Finish`), sets the light in the layout
(`Paint`) and displays the layout (`Show`), each a step of its own. Two workers may have two taps on the same
dialog, or paint one layout, and taps on what was on display before are handled as well: `panels` and `dialogs`
are all that ever was. A light carries the number of the write that it tells of.
`want` is history: what the changes
would leave if made one after the other.

**`BannedWords`**. A list is an array with a number, shared by the cache, by
handlers and by scans, and edited in place; `Fill` and `Swap` replace the map of
all chats. **`WordsDialogue`** has the messages that the dialogue shows and those
the session remembers to delete. A handler goes step by step: it deletes the old prompt or menu, forgets its
number, sends the new message, remembers that; between any two of these another handler of the chat may act. Every
request may fail, and no error is looked at: what a failed deletion leaves, a message whose answer was
lost, `/words`, and the menu of a chat that `/badwords` leaves for another go into `owed`; what overlapping handlers
send goes into `mingled`.

**`Limits`**. A handler notes the time (`Arrive`), finds its record in the map
(`Find`) and decides in it (`AntiSpam`, `AntiRepeat`, `AntiRaid`, `Allow`, `Cooldown`);
`Cleanup` is the sweeper of the map in use. One module for all of them, because they
differ in the decision only.

### What handlers use

**`SessionStore`**. `held` is the pointer of a handler, which may belong to a
session that the table no longer has. A save is `Begin`, one `Copy` per chat,
`Encode` (which refuses values gob does not know) and `Replace`; the loop and
`Close` both save. `Restart` loads.

**`WarnEngine`**. `mem` holds the three keys of one user in the map, `disk` the same keys as a
restart would read them, `pend` the records of each transaction in the order
`TxKeys` and the clean-up append them. `Warn`, `AddExpiry` and `AddCount` are the
three transactions of a warning, `Reset` the three deletions, `Unwarn` the
command and the button of the moderation log, `Clean` the task that runs every
minute. The keys of other users are independent of these, and the clean-up treats
them one after the other under one lock, so one user is enough. `raced` is a history variable:
operations, or an operation and a compaction, have overlapped. Expiry times are
ticks left.

**`Wizards`**: `names` are the states registered in `Bot.states`, `pointer` the
state in the session; timers may fire for a question that was answered.
**`Surveys`**: `callbacks` has one handler per question, whoever asked last.
**`Captcha`**: a join is `Mute`, `Send`, `Arm`, `Store`; a click is `Stop` and
`Unmute`; the timer `Check`, `Kick`, `Forget`; with crashes, after which no timer is left.

**`CancelRegistry`**: the list of cancel functions with its indices, as the
deferred removal and `cancelAll` see it; `meant` is history: what ran when some `cancelAll` was called. **`Downloads`**: one attempt after the other
against a server that answers with the rest, with the whole, that there is nothing
more, or breaks off; a reply without a length that ends with its connection looks whole
(`EndsEarly`). **`Uploads`**: attempts whose answers may be lost, readers
with and without Seek, the cache of ids by path. **`Volumes`**: the archive and its
parts in the directory they share with earlier sends of the same name; closing the archive, or syncing and
closing a part, may fail to write the rest of it, which nobody looks for (`cut`).

**`Hub`**: header and payload of a frame are two writes under the client's mutex,
each with a deadline; the pong and the welcome may be cut in the middle too, their errors are
dropped. **`RotateLog`**: each rename of a rotation is a step, with a
crash between any two.

**`Background`**: the semaphore is taken by whoever calls `Ctx.Go`, also by a task;
`Purge` with its waves. **`Broadcasts`**: workers on a closed channel of users, one
value for all. **`Menus`**, **`Pagination`**: what the session or the cache keeps, and
what the chat shows. **`Analytics`**: the transaction of the logger, the two-call
increments, reports that read counter by counter, the purge.

### The shape of the two large instances

`MCModeration` and `MCServices` gather parts that do not share state with each
other. A behaviour is one of a single part (`part` never changes), so the
reachable states are the sum of those of the parts and not their product. In
`MCServices` the parts share fifteen variables under names of their own, because
TLC pays for every variable in every state. A property such as `SessionsKept` there is
the property of the part's module, stated in full in that module. Composition
that matters is inside a part: guards with the chain they stop, wizards with the
session and the router, warnings with the store's transactions.

Many properties have a premise in a history variable (`raced`, `overlaid`, `excused`,
`clouded`, `unlucky`, `apart`, ...). It names what the code does not order:
typically two workers with updates of one chat, or a request that failed and
whose error is ignored. The variable is set by the exact overlap
that breaks the promise, so that everything else stays checked; section 5
says what happens in the excused cases.

## 3. Runs

| run | question | instance |
|---|---|---|
| `wal_safety` | does a lone write survive every crash, file error and compaction; is `DurableMap` refined; is the invariant of the proofs one | two clients, one key, two type ids, all operations and faults, one crash |
| `wal_liveness` | do operations, wake-ups and Close come to an end | two clients, one key, Set, Tx and Close |
| `wal_second_log`, `wal_tx_delete` | disagreements 1 and 2 of section 6 | one client |
| `api_client` | is the half-open period owned; do calls return; does the breaker recover | two callers, three attempts, one retry after 429 |
| `api_stuck` | disagreement 3 | one caller |
| `updates` | is everything accounted for, in order, drained before closing; does the shutdown end; is what arrives handled | two updates in batches of two, channel of one, two workers, two processes |
| `graceful_stop` | disagreement 4 | one process |
| `moderation` | what happens to an update from its worker to the end of its handlers | two workers (three goroutines for `Bot.mu`); see below |
| `services` | what handlers use | two workers; see below |
| `groups` | disagreement 5 | five groups, two routes |
| `sessions_lost` | disagreement 6 | two chats, one handler |

### What the properties of `moderation` say

* `OnceInOrder`, `AllRunUnlessAborted`, `AbortStops` (`HandlerChain`): no handler runs
  twice or before an earlier one, whatever is called, aborted or panics, also when
  the index overflows; without Abort all of them run; after it none begins.
* `LocksHold`, `AdminsKeepMessages` (`GuardedChat`): what a lock held since the update
  arrived keeps out does not reach the handler; a guard does not delete what an
  administrator wrote.
* `LoneChangesHold`, `LightsTellTruth` (`Settings`): changes that do not overlap have
  their effect; on every panel that ever was on display, a light that tells of the last write of its switch
  tells what the switch counts for, whoever taps at the same time; and who confirms a tap while nobody
  else has one of the same switch displays the light of its own write.
* `WordsKept` (`BannedWords`): the cache is what was saved last, scans find their words.
* `DialogueClean` (`WordsDialogue`): at rest the chat shows the menu and the prompt that the session remembers, and
  beside them only what is in `owed` or `mingled`.
* `LimitsKept` (`Limits`): what passes in any stretch of time is bounded (`BurstsBounded`), a
  repetition within a minute is stopped (`RepeatsStopped`), a raid locks the chat (`RaidLocks`).
* `TextOfLatest` (`Routing`): an edit is told the text before it.
* `OnlyNestedOrLeakedStop` (`BotLock`): goroutines stop each other only where one of
  them takes `Bot.mu` inside its own read lock, that is behind `AdminOnly`, or after a guard has panicked
  with its read lock held. This is the form in which absence of deadlock is true of the code: the two exceptions do stop it.
* `LoneThrottled` (`RateLimiter`): the rate is kept.

### What the properties of `services` say

* `EveryWarningExpires`, `NoneForgottenEarly`, `LimitIsReset` (`WarnEngine`).
* `SessionsKept`: the next handler finds what the last one wrote; only a failed write
  spoils the file; after Close it holds the sessions.
* `AnswersKept`: a form completes once, with its own valid answers; a survey with one
  answer per question; an item picked from a page is the one the message shows there; the
  chat has one menu, the one it asked for.
* `CaptchaSettles`: who is kicked had the whole time and has not passed; who is muted
  has a button; who may write has passed.
* `TransfersKept`: a download that succeeds leaves the remote file; an upload that
  succeeds has posted the whole file last; volumes are the parts of their own
  archive; a `cancelAll` reaches every transfer that ran when it was called, and none is cancelled that
  did not run when some `cancelAll` was called, such as the next one at the same place of the list. It excuses
  sends that an ignored error has cut, and downloads that are not sound (section 5).
* `WrittenWhole`: headers and payloads of frames are not mixed, and who is known is
  served; the log holds the last lines in order and without a gap.
* `BackgroundSound`: the semaphore's limit; a purge deletes the newest messages and
  as many as asked for; a broadcast tries every user once and counts right.
* `EverythingCounted`: messages are counted once, and no deletion twice.

`PartsTypeOK` and `ServicesTypeOK` are the type invariants of all parts.

### Bounds

`MaxRecords`, `MaxCount` and `MaxRestarts` bound the log, `writeCount` and the
crashes. They are guards of the operations only, so an operation that has
begun goes on past them. Two records make a compaction fall due (`CompactEvery` is two instead
of 200), one crash leads from a first to a second process, and two type ids tell
the gob stream that repeats an id from the one that does not. Two clients are all
that an interleaving of an operation with another needs, and the compactor is a third process.

`Threshold` is two, so that the breaker has a state between closed and open;
two callers give an owner and somebody who reports late. `MaxDebt` keeps `lag` finite
when many callers reserve time; the proof does not use it. `BatchLimit` and `QueueCap`
are such that batches are cut and the channel is full. Two processes are one restart.

In `moderation`: `MaxIndex` is 9 instead of 127, so that five handlers with nested calls
overflow the index (`2 * N <= MaxIndex` is the premise that excludes it where it has to
be). Chains have one guard, or two when the first may panic or delete; every guard meets 48
kinds of updates, and two keys may change during one of them. Three operations on
two switches and one restriction; two chats, and three messages about words; three
messages in five ticks for a limit of one in a window of two; four updates of two
messages with up to three versions; four turns on `Bot.mu`, so that a reader, a waiting writer
and a nested reader meet.

In `services`: three writes, three saves and one fault to one session; two wizards
with two questions, and a timer; two surveys with two questions; two joins of one
member, one crash; four jobs in a queue of two; downloads of three blocks with three
attempts; two uploads with two versions of the file; one connection with two
sends and a ping, payloads of 125 and 65536 bytes (the first and the last form of a header);
eight lines, two per log file, two backups, one restart; two purges of up to two out of four
messages and a semaphore of one; five items on pages of two; three menus;
two messages and two deletions with a report; archives of three and five bytes
in parts of two, so that a shorter archive follows a longer one; three users. These are the smallest
numbers at which the situations named in the hazards of `PROJECT.json` occur.

`groups` allows five groups: `append` first leaves room when a slice of three lies in an array of
four, and then two more groups are made from it.

The bounds stop behaviours where the code goes on, so these runs do not check
deadlock (`CHECK_DEADLOCK FALSE`). `api_client` and `api_stuck` have no such bound and
check it.

### Fairness

* `WalDatabase`: a goroutine that can run runs (weak). Who waits for a mutex
  gets it (strong): Go's mutex hands itself over to a waiter that starves for a
  millisecond. A ready case of a select that comes up again and again is taken
  (strong): select picks at random. Nothing is assumed of callers, the ticker,
  crashes, errors.
* `ApiClient`: callers that have begun go on, time passes, and callers call again
  (weak); the polling loop calls getUpdates for ever. API and cancellation are free.
* `UpdatePipeline`: loops, workers, senders and the shutdown go on (weak); the
  network delivers and the server answers time and again, and a sender that finds
  room again and again gets in (strong; Go's channels serve senders in order).
  A handler returns: nothing in the framework bounds its run time, so
  `ShutdownEnds` is about handlers that do.
* `moderation` and `services` check safety only and assume nothing. Where something has to
  happen eventually, the property says that nothing is left over when nobody is at work any more
  (`CaptchaSettles`, `OnlyNestedOrLeakedStop`, `BackgroundSound`, `OneMenu`).

### What the mutants show

Each property of a passing run has a mutation of the code that breaks it (for
instance a compaction that truncates the log although the snapshot failed, a
return path that forgets to unlock, an offset one too high, a worker that leaves when the
channel is closed but not empty, a removal that shifts the indices of a registry, a
retry that does not seek, a timer that does not look at the mark, a purge that forgets
to reset). They stand before the definition they change, in the same module. Properties that cover
several parts have further mutations in those parts (`Menus`, `Pagination`, `Volumes`,
`Broadcasts`, `Wizards`, `Surveys`, `Downloads`, `Uploads`, ...), each of which violates the property as
well.

## 4. Proofs

All theorems hold for every value of the constants that satisfies the named
assumptions of the module. They need no fairness, and the bounds of the runs (`MaxRecords`,
`MaxOps`, ...) may be anything. What is assumed of constants is what the code makes
them: goroutines are finitely many, sizes, durations and limits are numbers, no member of a set is
the value that stands for "nobody". The assumptions stand in the module that declares the constants
(`ModerationAssumption` and `LimitsAssumption` in `MCModeration`, `ServicesAssumption` and
`ConversationAssumption` in `MCServices`, and others in `WalDatabase`, `ApiClient`, `RateLimiter` and
`UpdatePipeline`), and TLC evaluates them for the instances that it checks.

Every proof has the same shape. The property of a part is not inductive; the last section of the
part's module, "The invariant that makes ... hold", has the conjuncts that it lacks, each named for
what it says. There is one lemma for each action, one for the beginning, and the theorem puts them
together. The theorems about `moderation` and `services` are theorems of `ModerationSpec` and
`ServicesSpec`, the specifications that the runs check: the invariant of each part is proved under the
condition that the behaviour is of that part, and a lemma (`PartStays`, `...Alone`)
says that a step of the whole is one of the part.

### Store, client, pipeline

**`WalDatabase_proofs`**. `LoneWritesSurvive` is not inductive. `DurabilityInv`
adds that the one record in flight of a key that is not suspect carries the value in
memory (`LonePending`; otherwise an append would put another value on disk), that
the snapshot is the map between rename and truncation (`SnapshotCurrent`;
otherwise truncation would lose records), and that a dead process is blank
(`DownIsBlank`). The lemmas on the log come first: an append never changes the
verdict on an earlier record (`ReachedAppend`), so it changes what is read back
for one key at most (`ReplayAppend`, with lemmas on least and greatest elements
for the last hit, which stand in for induction). Then one
lemma per group of actions, `InvariantHolds`, `TypeCorrect` and `Durability`.
`Refinement` maps each action to a write, an append, a checkpoint, a crash or a
restart of `DurableMap`, to the loss of values on their way (`Abandon`, for an append that panics), or to a stutter; the invariant is needed for rename and
truncation, which are checkpoints because each key reads back as before or as in
memory.

**`ApiClient_proofs`**. `TypeOK /\ HalfOpenOwned` is inductive: only the
successful `Claim` makes the breaker half-open, and its caller leaves the
places named there only by closing, opening, or losing the report.

**`UpdatePipeline_proofs`**. `IInv` is `TypeOK`, `Phases` (which places of `Go`
go with which state of channel, workers and storage) and `Account` (what was answered for is
handled, in hand or past; what lies below the offset has been answered for). From it:
`HandlersBeforeClose`, `Drains`, `Accounted`. `BeginsInOrder` needs more: that everything in the
channel is above everything that has begun and below what is left of the batch, and that the batch
and the channel are themselves in order, across replies that were lost and asked for again.

### From the worker to the handler

**`Chain_proofs`**. `ChainInv` is about the stack of calls: each frame is in order with the one above it
(`Calls`), the innermost one runs at its own index or has left it there, or behind the chain (`TopOK`), and after an
overflow of the index only Recovery is left, on its way out (`Frozen`). `Complete` adds, for chains that are short
enough for the index, that calls which return have left the index at the end. `OnceInOrder`,
`AllRunUnlessAborted` and the action property `AbortStops` follow, for chains of any length and any
nesting of Next. `GuardInv`: what a guard has let pass (`LetPass`) is nothing that it keeps out by a key
held ever since the update arrived; a handler that has begun has all guards of the chain behind it. `AdminInv`
is about whose messages the guards have deleted so far.

**`Moderation_proofs`**. `LockInv`: everyone closes what it holds (`Closes`, with a `Depth` at every place of
what it still has to do), a write lock is given back as soon as it is taken (`Paired`), and readers and the writer
exclude each other, those that were left behind included; so if all are stopped, one of them asks while it holds
a read lock, or there is one that nobody holds. `DialogueInv`: a menu or prompt on display is excused (`Excused`: owed or
mingled), or remembered, or just sent by a handler that is about to remember it (`MenusInv`, `PromptsInv`); a handler past the
deletion has nothing of that kind left on display that is not excused, and one that works alone leaves nothing
mingled (`LoneInv`). `RoutingInv`: of a
message whose updates never crossed only one is in hand, and the cache is as old as what that worker knows of
it (`Handling`). `ChangesInv`: a key of which no changes overlap has at most one under way, which saw the value
that is still there; `LightsInv`: every light, on panels, in layouts and in the hand of a painter, is `Honest` (it tells the truth if
it tells of the last write), and a switch that is not crowded is in the tap of one handler at most (`TapsInv`). `WordsInv` is
`WordShapes`, `ListsApart` (every array is the list of a single chat, so that a change in place is seen in no other),
`CacheInv` (as long as changes do not overlap, nothing else than what is on disk is or becomes the cache) and `ScansInv` (a
scan that has not come to its word yet has it ahead). `LimitsInv`
is about the limits over time. A handler that is at most a tick old still has the map's record when it decides
(`Held`), because an entry is kept for two windows from its last use. For AntiSpam there is a map of the messages decided to
windows that are apart (`Windows`), so that a stretch as long as a window touches two of them at most; for a
bucket, what passed since any moment and what is left add up to the limit and the ticks since (`BucketInv`); for
AntiRepeat and a cooldown, the record is of the last message that matters, or that one is old (`RepeatInv`, `CooldownInv`);
for AntiRaid, whoever joined is in the record, or was dropped from it by a message a window later, or went with a record
that was two windows old (`RaidInv`), so the joins that count now are all in it. The rate limiter has a section of its own: `LoneThrottled` needs
`Balance`, that tokens, level and what a sleeper has reserved add up to the capacity at most, and that `lastRefill`
is in the future exactly by what the sleeper has left to sleep.

### What handlers use

**`WarnEngine_proofs`, `Services_proofs`**. `WarnInv`: the only operation under way has the records of what it
changed to append, and the disk is the map but for them (`Follows`); the disk is covered for the count that it has and
for the one it is about to get (`DiskCovered`); reason and expiry come before the warning and go after the count
(`Ahead`), and there is no expiry without its warning (`NoneTooMany`). `LimitInv`: until the process dies, a count at the
limit is about to be reset, whatever overlaps. `CaptchaInv` relates a member to the places of the handlers and
timers of the joins, and to the time that has passed. For the counters, `ReportInv` bounds what a report that reads counter
by counter may have read while the counters grow, and `Behind` and `Alone` say how far deletions that are being counted
are from being counted. `SessionsInv`: a handler that has lost its session is one of those that another one
parted from it (`LostAreParted`), and the copies of the last save hold, as do those of the loop that begin after
it, unless saves overlap (`SavesHold`). `BackgroundInv`: who calls Go from a task waits for the one task that waits
for a place on its behalf (`Nested`), there are never more than places (`InRoom`); a purge at a wave has deleted all
above it, and of the wave what has been answered (`WaveExact`), and one that is over all down to where it came
(`OverExact`). `BroadcastInv`: every user is in the channel, or with one worker, or has a result (`OnePlace`), the
totals are those of the results (`Tallied`), and what a result says has arrived (`Arrived`).

**`Transfers_proofs`**, what is written. `LogInv`: there are cuts between the lines so that each file has what lies
between two of them, at every point of a rotation too (`CutInFiles`), and what lies before the first cut is nothing, or there
are as many full files behind it (`Full`). `HubInv`: a connection's mutex is held by whoever writes to it
(`Locked`), and the frames are whole but for the last, whose writer is halfway (`FramesSoFar`). `DownloadInv`: as long as
it is sound, what is here is a beginning of the file and what comes next is the block behind it (`InStep`).
`UploadInv`: in the first attempt nothing has been read before (`ReadAnew`). `VolumesInv`: the archive is cut from its
beginning on (`CutSoFar`), and of the parts in the directory those from the next one on are of this send (`PartsSoFar`);
`Joined`, a recursive function, is there replaced by an explicit solution of its recursion. `RegistryInv`: a job is in
one place (`OncePlaced`), who runs knows the place of its job in the list (`Listed`), what is due and still runs
has been cancelled or is in the rest of the list (`DueOrDone`), and what a `cancelAll` has still to cancel ran when some
`cancelAll` was called (`OnlyMeant`).

The same module, conversations. `WizardInv`: a worker at a question of a form has valid answers to the
questions before, the session still has them, and the pointer of the session leads to such a place too
(`Reached`, `AtQuestion`), however many forms were given up and whichever timers fire. `SurveyInv`: one token
goes through a survey, with a worker (`Carries`) or with the registered handler (`Waits`). `PagesInv`: who is
sure of its page is alone and has kept it (`SureOfPage`). `MenuInv`: a worker owes the chat the rest of what it has
begun, and without one the chat is settled (`Owes`, `Settled`, `FieldFollows`).

### Only model-checked

* Everything under fairness (`OperationsReturn`, `ThresholdCompacts`, `CloseReturns`, `CallsReturn`, `Recovers`,
  `ShutdownEnds`, `UpdatesHandled`): liveness is beyond the prover.
* `PartsTypeOK` and `ServicesTypeOK`: they hold within the bounds of the runs (`MaxTime`, `MaxTexts`, ...), which
  the invariants of the proofs leave out; what the proofs need of types is in those.
* The six runs that show disagreements.

## 5. What is not promised

Each premise of a property, and what the code does there:

* `LoneWritesSurvive` says nothing of keys written by two operations at once: `Set`
  unlocks the map before it logs, so the log may have them in the other order.
  `CrashRecoveryExact` is the unconditional form. A write after Close is in memory only
  (`database.go:272`), and a function that panics inside `TxKeys` leaves `db.mu` locked for
  ever (`database.go:317`): the liveness properties of `wal_liveness` are without such a function, and without a log
  that cannot be opened at start: there the first append panics with `db.walMu` locked, and later ones wait for ever. `wal_safety`
  has both; what a client loses by such a panic is in `suspect`.
* `LoneThrottled` says nothing of callers that sleep together: each of them
  reserves from an empty bucket and they wake up together (`client.go:121`; `Throttled`
  is the unconditional form).
* `EveryWarningExpires` says nothing of a user on whom a
  warning overlaps a clean-up, a pardon or a reset: those delete the list of expiries
  with the newest one in it, and the warning that is counted afterwards stays for ever
  (`warn_engine.go:155`).
* `SessionsKept`: a session cleared while another handler has it loses what that one
  writes; two saves that overlap may leave the older copy; a failed write is renamed over the
  good file.
* `LoneChangesHold`: the panel, `ToggleSetting` and the restrictions read and write without a
  lock, so two that overlap may count once.
* `LightsTellTruth`: a panel that was displayed before the last write of a switch, or from a layout that was painted before it,
  keeps its old light; so does one whose display failed. Of two taps on "yes" that are handled at the same time
  (`crowded`), each may display the light of the other, and the store may have been switched once.
* `OnlyNestedOrLeakedStop`: a handler that takes `Bot.mu` behind `AdminOnly`, and a guard that panics with its read lock
  held, stop the bot.
* `LimitsKept`: a handler that stays for longer than a tick between reading the clock and counting, a bucket
  swept while in use, and two messages that race through a cooldown; for a raid, also a message that is counted
  after one of a later tick, which may have dropped joins that the earlier one should count.
* `DialogueClean`: a deletion that fails leaves its message, whose number is forgotten all the same; a message
  whose answer is lost, that of `/words` and the menu of a chat that is left for another are remembered by nobody; handlers of one
  chat that overlap leave messages behind, and so does a tap on an old menu.
* `WordsKept`, `TextOfLatest`, `AnswersKept`: two updates of one
  chat (for `TextOfLatest`, of one message) in the hands of two workers.
* `CaptchaSettles`: the timer of an earlier join, whose handle the later one overwrote,
  kicks; so does one that has looked at the mark before the click. When the button
  cannot be sent the member stays muted.
* `TransfersKept`: another file at the path; a write that was cut short; a reply without a length that ends with
  its connection, and looks whole (`transfer.go:349`); a path that was
  cached for another content; a reader without Seek that had been read; a send whose archive was cut when closing it failed
  (`send.go:1547`), or whose part was cut when syncing or closing it failed (`send.go:1600`): the code posts these and
  reports them as whole.
* `WrittenWhole`: a frame that a deadline or a failed write cut, the pong and the welcome among them; a failed system
  call in a rotation.
* `BackgroundSound`: tasks that call `Ctx.Go` while they hold all places; two purges at once.
* `EverythingCounted`: two deletions at once; what a crash leaves of a record; messages
  counted between a daily report and its purge are in no report.

## 6. Disagreements found

With a run that shows them:

1. `wal_second_log`: `openWAL` appends a second gob stream to the log of the
   process before, and `replayWAL` reads with one decoder, which stops at the
   repeated type definition. After a restart, what is written until the next
   compaction is lost by the next crash. The documentation promises "the exact
   state prior to any unexpected crash".
2. `wal_tx_delete`: a deletion made by the function given to `Tx` has no record, so a crash brings the
   key back (nor has a key that it adds with the value nil).
3. `api_stuck`: the breaker stays half-open when its probe ends in a way that is
   neither success nor failure for it, and turns every later call away.
4. `graceful_stop`: a task stopped by the program is stopped again by the
   shutdown, which panics before it closes databases and sessions.
5. `groups`: two groups made from one group may share the array of their middlewares,
   and the second overwrites those of the first.
6. `sessions_lost`: the settings panel puts a value into the session that gob does not
   know; from then on no session of any chat is saved.

Met while modelling, in the models as the code has them, without a run of their own:

* Store: `NewDatabase` drops the error of `openWAL` (`database.go:88`); the first append then panics between `Lock` and
  `Unlock` of `db.walMu` (`database.go:173`), later writes wait for ever, and after the next compaction so does every
  use of the map.
* Lock of the bot: six guards (`middleware.go` 548, 606, 1292, 1496, 1632, 1662) read the sender between `RLock` and
  `RUnlock` without a defer. On a post of a channel they panic, `Recovery` goes on, and the read lock stays; behind the
  next writer all workers wait, which the closure around each update is there to prevent (`bot.go:1194`).
* Dialogue of the banned words: two taps that are handled at the same time leave a prompt that nobody deletes, although the
  comment promises "full resource cleanup" (`middleware.go:880`); so does a deletion that fails.
* Settings: two taps on "yes" may switch once, and read, paint and display one layout at the same time
  (`bot.go` 502-537).
* Volumes: an archive or a part that was cut because closing it failed is posted and reported as whole (`send.go:1547`).
* Chain: inside `Pipe`, the first middleware's `Next` runs the handlers before the
  pipe's other middlewares (`middleware.go:1774`).
* Settings: `GroupGuard` reads switches as booleans, so a switch that was set to a duration
  ("30s", `context.go:1468`) is off for it.
* Banned words: when no administrator is remembered, any member's next message answers
  the prompt (`middleware.go:965`). After a deletion the list keeps its array with room to spare
  (`middleware.go:1204`), and the next addition writes there: the model gives the shorter list an array of its own, which no
  reader of the old list can tell from that.
* Flows: a number in Persian digits passes the validation (`flows.go:172`) and becomes 0
  (`flows.go:209`); a survey's callbacks have no token (`flows.go:275`); a wizard's timer
  uses a context that may belong to another update by then (`flows.go:91`).
* Captcha: a second join does not stop the first timer (`flows.go:414`), and a failed
  ban still forgets the mark.
* `DelChain.Delay` reads `d.c.Bot` from a context that was given back (`context.go:663`):
  the task panics and the message is not deleted.
* `DownloadChain.Queue` is said to run "asynchronously" (`context.go:842`), and `Go` waits for it.
* Downloads: errors 4xx are retried although `transfer.go:82` says they fail fast; a file at the path that
  is longer than the remote one makes the server answer that there is nothing more, which
  counts as success (`transfer.go:228`); one that is different and shorter gets the tail of
  the remote file.
* Uploads: the id of a file is cached by its path (`send.go:1389`), so a changed file is
  sent with its old content; the retry after a lost answer posts twice
  (`transfer.go:685`); when an attempt fails early, the goroutine that writes its pipe stays
  (`transfer.go:659`).
* Volumes: after a failed part the later ones stay in the temporary directory
  (`send.go:499`), and two files of one base name sent at once share their parts
  (`send.go:1570`).
* Sockets: `SocketClient.On` writes into a nil map (`socket.go:36`); messages are handled
  in any order, each in a goroutine of its own (`socket.go:126`).
* Log: after a rotation that cannot open the file again every later line is refused
  (`logger.go:80`).
* Menus: the history that "back" reads is never written, although `menu.go:448` says it is
  maintained. Pages: `SendPage` with a later page keeps nothing, so "next" goes to
  the second one.
* Analytics: `incrementAnalyticsCount` "safely increments" (`analytics.go:70`) by a read and a
  write with nothing held between.
* Broadcasts: with nothing to send every user counts as sent; a reader is shared by all workers.

## 7. Not modelled

* Event bus: a goroutine for each listener, nothing is kept. Dashboard and CPU probes: they read
  counters. Text rules (`anticrash.go`): scanners over one text without state, whose result
  the guards of `GuardedChat` take as given (`has`); `PreScanUpdate` always answers false.
* Text of messages, formatting, layout of keyboards and of the dashboard, payloads of the
  API (`chat.go`, `payloads.go`, most of `send.go` and `context.go`): each is one request
  through the client, and nothing is kept.
* HTTP, files and the operating system, except for the failures the code
  handles: external.
* `Bot.Push` from handlers: with a full channel and all workers in it nothing moves any
  more (`bot.go:1463`); only programs built on the framework call it. Goroutines of `Ctx.Go`
  and callbacks of tasks: the shutdown does not wait for them (`context.go:1094`), so no
  property of `updates` is about them.
* `Logger`, `Metrics` and the middlewares that only observe; progress messages of transfers.
* An engine of warnings without a cooldown, storages other than `Database`.
* The compositions that would multiply the parts of one instance with each other. The
  parts are checked against free choices of their neighbours instead.
* Data races as such (`Bot.rateLimit` is replaced without synchronisation): the
  models take a pointer as read at once.

## 8. Plan

The modules planned at the beginning are written, and the safety invariants that the runs check are
theorems but for those named at the end of section 4. What is left:

1. Liveness under fairness where the parts are now checked for what they leave behind: every
   captcha ends, a user who behaves is forgiven.
2. An abstract specification of the session store (a map whose saved image is never older than
   the last completed save that did not overlap), refined by `SessionStore`.
