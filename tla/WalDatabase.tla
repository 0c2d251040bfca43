---------------------------- MODULE WalDatabase ----------------------------
(***************************************************************************)
(* The key-value store of database.go: an in-memory map, a write-ahead log *)
(* file of gob records and a snapshot file that a background compactor     *)
(* rewrites.  A write changes the map under db.mu, releases db.mu and only *)
(* then appends its record under db.walMu, so one operation is several     *)
(* steps here; Tx alone keeps db.mu until its records are appended.        *)
(*                                                                         *)
(* The file is modelled down to what decides whether a record can be read  *)
(* back: every gob.Encoder writes the type definition of walEntry in front *)
(* of its first record, a decoder refuses a type id it has seen, and a     *)
(* record torn by a crash hides all that follows.                          *)
(***************************************************************************)
EXTENDS Naturals, Sequences, FiniteSets, FiniteSetsExt

CONSTANTS
    Clients,        \* goroutines that call the database (handlers, timers)
    Keys,           \* keys of the map
    Values,         \* values the program stores
    Opaque,         \* the values among them whose type gob does not know
    NoVal,          \* the key is not in the map
    Nil,            \* the key is in the map with the value nil
    TypeIds,        \* ids the gob package can give walEntry in one process
    CompactEvery,   \* appends that ask for a compaction (200 by default)
    Ops,            \* operations this instance enables, out of AllOps
    Faults,         \* file operations that may fail
    Free,           \* nobody holds db.mu
    Compactor,      \* compact holds db.mu
    Leaked,         \* a goroutine that is gone holds db.mu for ever
    MaxRecords,     \* bound: no write starts on a log this long
    MaxCount,       \* bound: no write starts at this writeCount
    MaxRestarts     \* bound: crashes of the process

AllOps == {"Set", "Del", "Tx", "TxKeys", "Panic", "Tick", "Close"}
AllFaults == {"create", "rename", "reopen", "torn", "open"}
Stored == Values \cup {Nil}             \* what a key in the map can hold
Cell == Stored \cup {NoVal}

ASSUME ClientsAssumption == {Free, Compactor, Leaked} \cap Clients = {}
ASSUME HoldersAssumption == Free # Compactor /\ Free # Leaked /\ Compactor # Leaked
ASSUME ValuesAssumption == Opaque \subseteq Values /\ NoVal \notin Stored /\ Nil \notin Values
ASSUME CompactAssumption == CompactEvery \in Nat \ {0}
ASSUME OpsAssumption == Ops \subseteq AllOps /\ Faults \subseteq AllFaults
ASSUME BoundsAssumption == MaxRecords \in Nat /\ MaxCount \in Nat /\ MaxRestarts \in Nat

VARIABLES
    store,      \* db.store, NoVal for an absent key
    mu,         \* holder of db.mu
    pend,       \* per client, records its operation has still to append
    sig,        \* clients that have appended and are about to signal
    comp,       \* where the goroutine that compacts is
    writeChan,  \* whether the one slot of db.writeChan is taken
    writeCount, \* db.writeCount
    snapshot,   \* content of the snapshot file
    wal,        \* records of the log file
    walOpen,    \* db.walF is an open file
    fresh,      \* db.walEnc has not written its type definition yet
    typeId,     \* gob's id for walEntry in this process
    logger,     \* db.walEnc is "ready"; is "missing", for openWAL failed and
                \* nobody asked; or "stuck": an append has called it missing
                \* and panicked, and db.walMu stays locked
    life,       \* phase of the process
    restarts,   \* crashes so far
    suspect     \* history: keys whose last change may not be in the log

memory == <<store, mu, pend, sig>>
loop == <<comp, writeChan, writeCount>>
files == <<snapshot, wal, walOpen, fresh, typeId, logger>>
vars == <<memory, loop, files, life, restarts, suspect>>

Entry == [key : Keys, val : Cell]       \* walEntry; val = NoVal for walDel
Record == [kind : {"entry", "void", "torn"}, key : Keys, val : Cell,
           hdr : BOOLEAN, tid : TypeIds]
Empty == [k \in Keys |-> NoVal]

-----------------------------------------------------------------------------
(***************************************************************************)
(* What a restart reads back.  replayWAL stops at the first decode error.  *)
(***************************************************************************)

\* Record i of w decodes, if all before it do: it is whole, and the type
\* definition in front of it, if any, does not repeat an id seen before.
Legible(w, i) ==
    /\ w[i].kind # "torn"
    /\ w[i].hdr => \A j \in 1..(i - 1) : ~(w[j].hdr /\ w[j].tid = w[i].tid)

Reached(w) == {i \in DOMAIN w : \A j \in 1..i : Legible(w, j)}

Hits(w, k) == {i \in Reached(w) : w[i].kind = "entry" /\ w[i].key = k}

Replay(s, w) ==
    [k \in Keys |-> IF Hits(w, k) = {} THEN s[k] ELSE w[Max(Hits(w, k))].val]

Recovered == Replay(snapshot, wal)

\* Every record of the file is read back.
Healthy(w) == \A i \in DOMAIN w : Legible(w, i)

-----------------------------------------------------------------------------
Alive == life # "down"
WalMuFree == comp \notin {"write", "renamed"} /\ logger # "stuck"
Idle(c) == pend[c] = {} /\ c \notin sig /\ mu # c
Room == Len(wal) < MaxRecords /\ writeCount < MaxCount
Pending(k) == {c \in Clients : \E e \in pend[c] : e.key = k}
KeysOf(E) == {e.key : e \in E}

\* What openWAL leaves behind: NewDatabase drops its error.
Opened(open, state) ==
    \/ open = TRUE /\ state = "ready"
    \/ "open" \in Faults /\ open = FALSE /\ state = "missing"

Init ==
    /\ store = Empty
    /\ mu = Free
    /\ pend = [c \in Clients |-> {}]
    /\ sig = {}
    /\ comp = "wait"
    /\ writeChan = FALSE
    /\ writeCount = 0
    /\ snapshot = Empty
    /\ wal = <<>>
    /\ walOpen \in BOOLEAN
    /\ logger \in {"ready", "missing"}
    /\ Opened(walOpen, logger)
    /\ fresh = TRUE
    /\ typeId \in TypeIds
    /\ life = "up"
    /\ restarts = 0
    /\ suspect = {}

-----------------------------------------------------------------------------
(***************************************************************************)
(* The operations.  Mutate is the critical section they share: the map     *)
(* becomes new, the records in E remain to be appended, and db.mu is left  *)
(* to holder.  A key whose change is not in E, or that another client      *)
(* still has a record for, becomes suspect.                                *)
(***************************************************************************)
Mutate(c, new, E, holder) ==
    LET changed == KeysOf(E) \cup {k \in Keys : new[k] # store[k]}
        contended == {k \in changed : Pending(k) # {}}
    IN  /\ Alive
        /\ Idle(c)
        /\ mu = Free
        /\ Room
        /\ store' = new
        /\ mu' = holder
        /\ pend' = [pend EXCEPT ![c] = E]
        /\ suspect' = (suspect \ KeysOf(E)) \cup contended \cup (changed \ KeysOf(E))
        /\ UNCHANGED <<sig, loop, files, life, restarts>>

Set(c, k, v) ==
    /\ "Set" \in Ops
    /\ Mutate(c, [store EXCEPT ![k] = v], {[key |-> k, val |-> v]}, Free)

\* Mutation of Del: the record says "set to nil" where it should say delete.
DelLogsNil(c, k) ==
    /\ "Del" \in Ops
    /\ Mutate(c, [store EXCEPT ![k] = NoVal], {[key |-> k, val |-> Nil]}, Free)

Del(c, k) ==
    /\ "Del" \in Ops
    /\ Mutate(c, [store EXCEPT ![k] = NoVal], {[key |-> k, val |-> NoVal]}, Free)

\* fn leaves the live map as new.  The records are found by a loop over the
\* keys that are still in the map, so a key fn deleted has none; before[k] of
\* an absent key is nil, so a key fn added with the value nil has none either.
TxChanges(new) ==
    LET before(k) == IF store[k] = NoVal THEN Nil ELSE store[k]
    IN  {[key |-> k, val |-> new[k]] : k \in {j \in Keys : new[j] \notin {NoVal, before(j)}}}

Tx(c, new) ==
    /\ "Tx" \in Ops
    /\ Mutate(c, new, TxChanges(new), c)

\* The deferred unlock, after the last append.
TxReturn(c) ==
    /\ mu = c
    /\ pend[c] = {}
    /\ c \notin sig
    /\ mu' = Free
    /\ UNCHANGED <<store, pend, sig, loop, files, life, restarts, suspect>>

\* fn panics in the middle of its work: the deferred unlock of Tx runs, the
\* map keeps what fn had done and nothing is logged.
TxPanic(c, new) ==
    /\ {"Tx", "Panic"} \subseteq Ops
    /\ Mutate(c, new, {}, Free)

\* fn works on a copy of the keys in K, and each of them is written back: a
\* key the copy does not hold gets the value nil.
TxKeys(c, K, res) ==
    /\ "TxKeys" \in Ops
    /\ Mutate(c, [k \in Keys |-> IF k \in K THEN res[k] ELSE store[k]],
              {[key |-> k, val |-> res[k]] : k \in K}, Free)

\* fn panics in TxKeys, which has no deferred unlock.
TxKeysPanic(c) ==
    /\ {"TxKeys", "Panic"} \subseteq Ops
    /\ Mutate(c, store, {}, Leaked)

\* What one call of Encode adds to the log file: nothing once the file is
\* closed; the type definition alone when the value cannot be encoded.
Encoded(e) ==
    LET record(kind) == [kind |-> kind, key |-> e.key, val |-> e.val,
                         hdr |-> fresh, tid |-> typeId]
    IN  IF ~walOpen THEN <<>>
        ELSE IF e.val \notin Opaque THEN <<record("entry")>>
        ELSE IF fresh THEN <<record("void")>>
        ELSE <<>>

\* Mutation of Append1: the compactor is called one record late.
Append1Late(c, e) ==
    /\ e \in pend[c]
    /\ c \notin sig
    /\ WalMuFree
    /\ logger = "ready"
    /\ wal' = wal \o Encoded(e)
    /\ fresh' = (fresh /\ ~walOpen)
    /\ writeCount' = writeCount + 1
    /\ pend' = [pend EXCEPT ![c] = @ \ {e}]
    /\ sig' = IF writeCount' > CompactEvery THEN sig \cup {c} ELSE sig
    /\ UNCHANGED <<store, mu, comp, writeChan, snapshot, walOpen, typeId, logger, life, restarts, suspect>>

\* appendWAL up to its unlock, for one record of the client's operation.
Append1(c, e) ==
    /\ e \in pend[c]
    /\ c \notin sig
    /\ WalMuFree
    /\ logger = "ready"
    /\ wal' = wal \o Encoded(e)
    /\ fresh' = (fresh /\ ~walOpen)
    /\ writeCount' = writeCount + 1
    /\ pend' = [pend EXCEPT ![c] = @ \ {e}]
    /\ sig' = IF writeCount' >= CompactEvery THEN sig \cup {c} ELSE sig
    /\ UNCHANGED <<store, mu, comp, writeChan, snapshot, walOpen, typeId, logger, life, restarts, suspect>>

\* appendWAL when openWAL has failed: Encode panics on the nil encoder between
\* the lock and the unlock.  The operation ends there, its records are never
\* written, the deferred unlock of Tx runs, and db.walMu stays locked.
AppendPanics(c) ==
    /\ pend[c] # {}
    /\ c \notin sig
    /\ WalMuFree
    /\ logger = "missing"
    /\ logger' = "stuck"
    /\ pend' = [pend EXCEPT ![c] = {}]
    /\ suspect' = suspect \cup KeysOf(pend[c])
    /\ UNCHANGED <<store, mu, sig, loop, snapshot, wal, walOpen, fresh, typeId, life, restarts>>

\* Mutation of Signal: the send blocks while the slot is taken.
SignalBlocks(c) ==
    /\ c \in sig
    /\ ~writeChan
    /\ sig' = sig \ {c}
    /\ writeChan' = TRUE
    /\ UNCHANGED <<store, mu, pend, comp, writeCount, files, life, restarts, suspect>>

\* The send that appendWAL makes without blocking: it is dropped when the
\* slot of the channel is taken.
Signal(c) ==
    /\ c \in sig
    /\ sig' = sig \ {c}
    /\ writeChan' = TRUE
    /\ UNCHANGED <<store, mu, pend, comp, writeCount, files, life, restarts, suspect>>

-----------------------------------------------------------------------------
(***************************************************************************)
(* compactLoop, and Close, which waits for the loop to end and then calls  *)
(* compact itself.  comp is the place of whichever of the two is running:  *)
(* "wait" in the select, "lock" asking for the mutexes, "write" before the *)
(* rename and "renamed" after it, "done" when Close's own compact is over; *)
(* "ticking" and "hung" wait for a db.walMu that nobody will unlock.       *)
(***************************************************************************)
Wake ==
    /\ comp = "wait"
    /\ life \in {"up", "closing"}
    /\ writeChan
    /\ writeChan' = FALSE
    /\ comp' = "lock"
    /\ UNCHANGED <<memory, writeCount, files, life, restarts, suspect>>

\* The five-minute ticker.
Tick ==
    /\ "Tick" \in Ops
    /\ comp = "wait"
    /\ life \in {"up", "closing"}
    /\ logger # "stuck"
    /\ writeCount > 0
    /\ comp' = "lock"
    /\ UNCHANGED <<memory, writeChan, writeCount, files, life, restarts, suspect>>

\* The ticker's look at db.writeCount asks for db.walMu first.
TickHangs ==
    /\ "Tick" \in Ops
    /\ comp = "wait"
    /\ life \in {"up", "closing"}
    /\ logger = "stuck"
    /\ comp' = "ticking"
    /\ UNCHANGED <<memory, writeChan, writeCount, files, life, restarts, suspect>>

\* compact has db.mu and will never have db.walMu: nobody uses the map again.
CompactHangs ==
    /\ comp = "lock"
    /\ mu = Free
    /\ logger = "stuck"
    /\ mu' = Compactor
    /\ comp' = "hung"
    /\ UNCHANGED <<store, pend, sig, writeChan, writeCount, files, life, restarts, suspect>>

CompactLock ==
    /\ comp = "lock"
    /\ mu = Free
    /\ logger # "stuck"
    /\ mu' = Compactor
    /\ comp' = "write"
    /\ UNCHANGED <<store, pend, sig, writeChan, writeCount, files, life, restarts, suspect>>

\* Mutation of CompactReturn: one return path forgets db.mu.Unlock.
CompactReturnLocked ==
    /\ comp' = IF life = "final" THEN "done" ELSE "wait"
    /\ UNCHANGED <<memory, writeChan, life, restarts>>

CompactReturn ==
    /\ mu' = Free
    /\ comp' = IF life = "final" THEN "done" ELSE "wait"
    /\ UNCHANGED <<store, pend, sig, writeChan, life, restarts>>

\* Mutation of CompactAbort: the log is truncated although the snapshot failed.
CompactAbortTruncates ==
    /\ comp = "write"
    /\ \/ \E k \in Keys : store[k] \in Opaque
       \/ Faults \cap {"create", "rename"} # {}
    /\ wal' = <<>>
    /\ CompactReturn
    /\ UNCHANGED <<writeCount, snapshot, walOpen, fresh, typeId, logger, suspect>>

\* Every way compact returns before the rename has happened.
CompactAbort ==
    /\ comp = "write"
    /\ \/ \E k \in Keys : store[k] \in Opaque
       \/ Faults \cap {"create", "rename"} # {}
    /\ CompactReturn
    /\ UNCHANGED <<writeCount, files, suspect>>

\* The temporary file is written, synced and renamed.
CompactRename ==
    /\ comp = "write"
    /\ \A k \in Keys : store[k] \notin Opaque
    /\ snapshot' = store
    /\ comp' = "renamed"
    /\ UNCHANGED <<memory, writeChan, writeCount, wal, walOpen, fresh, typeId, logger, life, restarts, suspect>>

CompactTruncate ==
    /\ comp = "renamed"
    /\ wal' = <<>>
    /\ walOpen' = TRUE
    /\ logger' = "ready"
    /\ fresh' = TRUE
    /\ writeCount' = 0
    /\ suspect' = {k \in suspect : Pending(k) # {}}
    /\ CompactReturn
    /\ UNCHANGED <<snapshot, typeId>>

\* The old handle is closed and the log cannot be opened again: db.walEnc
\* stays on the closed file and appendWAL ignores its errors.
CompactReopenFails ==
    /\ "reopen" \in Faults
    /\ comp = "renamed"
    /\ walOpen' = FALSE
    /\ CompactReturn
    /\ UNCHANGED <<writeCount, snapshot, wal, fresh, typeId, logger, suspect>>

Close ==
    /\ "Close" \in Ops
    /\ life = "up"
    /\ life' = "closing"
    /\ UNCHANGED <<memory, loop, files, restarts, suspect>>

\* The loop takes closeChan; Close, which waited for that, calls compact.
LoopExit ==
    /\ life = "closing"
    /\ comp = "wait"
    /\ life' = "final"
    /\ comp' = "lock"
    /\ UNCHANGED <<memory, writeChan, writeCount, files, restarts, suspect>>

CloseWal ==
    /\ life = "final"
    /\ comp = "done"
    /\ life' = "closed"
    /\ walOpen' = FALSE
    /\ UNCHANGED <<memory, loop, snapshot, wal, fresh, typeId, logger, restarts, suspect>>

-----------------------------------------------------------------------------
(***************************************************************************)
(* The process dies between any two steps, perhaps in the middle of the    *)
(* write of a record, and NewDatabase runs in a new one.                   *)
(***************************************************************************)
Torn(e) == [kind |-> "torn", key |-> e.key, val |-> e.val, hdr |-> fresh, tid |-> typeId]

Crash ==
    /\ Alive
    /\ restarts < MaxRestarts
    /\ restarts' = restarts + 1
    /\ life' = "down"
    /\ store' = Empty
    /\ mu' = Free
    /\ pend' = [c \in Clients |-> {}]
    /\ sig' = {}
    /\ comp' = "wait"
    /\ writeChan' = FALSE
    /\ writeCount' = 0
    /\ walOpen' = FALSE
    /\ suspect' = {}
    /\ \/ wal' = wal
       \/ /\ "torn" \in Faults
          /\ walOpen /\ WalMuFree
          /\ \E c \in Clients : \E e \in pend[c] : wal' = Append(wal, Torn(e))
    /\ UNCHANGED <<snapshot, fresh, typeId, logger>>

\* Mutation of NewDatabase: the log is replayed without the snapshot.
NewDatabaseNoSnapshot ==
    /\ life = "down"
    /\ life' = "up"
    /\ store' = Replay(Empty, wal)
    /\ Opened(walOpen', logger')
    /\ fresh' = TRUE
    /\ typeId' \in TypeIds
    /\ UNCHANGED <<mu, pend, sig, loop, snapshot, wal, restarts, suspect>>

\* NewDatabase: recover, then openWAL, which appends to the log it has just
\* replayed with an encoder of its own, or fails, which nobody looks at.
NewDatabase ==
    /\ life = "down"
    /\ life' = "up"
    /\ store' = Recovered
    /\ Opened(walOpen', logger')
    /\ fresh' = TRUE
    /\ typeId' \in TypeIds
    /\ UNCHANGED <<mu, pend, sig, loop, snapshot, wal, restarts, suspect>>

-----------------------------------------------------------------------------
Operation(c) ==
    \/ \E k \in Keys, v \in Values : Set(c, k, v)
    \/ \E k \in Keys : Del(c, k)
    \/ \E new \in [Keys -> Cell] : Tx(c, new) \/ TxPanic(c, new)
    \/ \E K \in SUBSET Keys \ {{}} : \E res \in [K -> Stored] : TxKeys(c, K, res)
    \/ TxKeysPanic(c)

AppendSome(c) == \E e \in pend[c] : Append1(c, e)

Compact ==
    \/ CompactLock \/ CompactHangs
    \/ CompactAbort \/ CompactRename \/ CompactTruncate \/ CompactReopenFails

Next ==
    \/ \E c \in Clients : Operation(c) \/ AppendSome(c) \/ AppendPanics(c) \/ Signal(c) \/ TxReturn(c)
    \/ Wake \/ Tick \/ TickHangs \/ Compact
    \/ Close \/ LoopExit \/ CloseWal
    \/ Crash \/ NewDatabase

Spec == Init /\ [][Next]_vars

(***************************************************************************)
(* Fairness.  A goroutine that can run runs (weak fairness).  The mutexes  *)
(* of Go hand over to a waiter that has starved for a millisecond and a    *)
(* select takes a ready case at random, so what waits for a mutex or in a  *)
(* select is strongly fair.  Nothing is assumed of callers, of the ticker, *)
(* of crashes or of file errors.                                           *)
(***************************************************************************)
Fairness ==
    /\ \A c \in Clients :
          /\ SF_vars(AppendSome(c) \/ AppendPanics(c))
          /\ WF_vars(Signal(c)) /\ WF_vars(TxReturn(c))
    /\ SF_vars(CompactLock \/ CompactHangs) /\ SF_vars(LoopExit)
    /\ WF_vars(Wake) /\ WF_vars(CloseWal)
    /\ WF_vars(CompactAbort \/ CompactRename) /\ WF_vars(CompactTruncate \/ CompactReopenFails)

FairSpec == Spec /\ Fairness

-----------------------------------------------------------------------------
(***************************************************************************)
(* Properties                                                              *)
(***************************************************************************)

\* The variables have their types, and db.mu belongs to compact exactly
\* while it is between its locks and its return, which never comes when
\* db.walMu is stuck.
TypeOK ==
    /\ store \in [Keys -> Cell]
    /\ mu \in Clients \cup {Free, Compactor, Leaked}
    /\ pend \in [Clients -> SUBSET Entry]
    /\ sig \in SUBSET Clients
    /\ comp \in {"wait", "lock", "write", "renamed", "done", "ticking", "hung"}
    /\ writeChan \in BOOLEAN
    /\ writeCount \in Nat
    /\ snapshot \in [Keys -> Cell]
    /\ wal \in Seq(Record)
    /\ walOpen \in BOOLEAN
    /\ fresh \in BOOLEAN
    /\ typeId \in TypeIds
    /\ logger \in {"ready", "missing", "stuck"}
    /\ life \in {"up", "closing", "final", "closed", "down"}
    /\ restarts \in Nat
    /\ suspect \in SUBSET Keys
    /\ mu = Compactor <=> comp \in {"write", "renamed", "hung"}
    /\ Recovered \in [Keys -> Cell]

\* While the log can be read to its end, a crash loses nothing of a key that
\* is written by Set, Del, TxKeys or an assignment in Tx, one writer at a
\* time: the value a restart reads back is the one in memory, whatever the
\* other keys suffer and wherever compaction is.
LoneWritesSurvive ==
    walOpen /\ Healthy(wal) =>
        \A k \in Keys \ suspect :
            Pending(k) = {} /\ store[k] \notin Opaque => Recovered[k] = store[k]

\* A key that is not suspect has at most one record on its way to the log,
\* and that record carries the value in memory.
LonePending ==
    \A k \in Keys \ suspect : \A c \in Pending(k) :
        /\ Pending(k) = {c}
        /\ \A e \in pend[c] : e.key = k => e.val = store[k]

\* Between the rename and the truncation the snapshot is the map itself,
\* which is what makes the records about to be dropped superfluous.
SnapshotCurrent == comp = "renamed" => snapshot = store

\* A process that is gone has no operation under way and nothing in memory.
DownIsBlank ==
    life = "down" =>
        ~walOpen /\ comp = "wait" /\ suspect = {} /\ \A c \in Clients : pend[c] = {}

\* The inductive invariant behind LoneWritesSurvive.
DurabilityInv ==
    /\ TypeOK
    /\ LoneWritesSurvive
    /\ LonePending
    /\ SnapshotCurrent
    /\ DownIsBlank

\* "restoring the exact state prior to any unexpected crash": whenever no
\* operation is under way, a restart would read back the map.
CrashRecoveryExact ==
    life = "up" /\ (\A c \in Clients : Idle(c)) => Recovered = store

\* The same for what is gone: whenever no operation is under way, a key that
\* is not in the map would not be in it after a crash either.
DeletionsRecovered ==
    life = "up" /\ (\A c \in Clients : Idle(c)) =>
        \A k \in Keys : store[k] = NoVal => Recovered[k] = NoVal

\* Every operation returns, although each append may have to wait for a
\* compaction and each compaction for a Tx that appends.
OperationsReturn == \A c \in Clients : ~Idle(c) ~> Idle(c)

\* The signal that is sent without blocking, into a channel of one slot, is
\* never lost: a log that has reached compactEvery is compacted without the
\* help of the ticker.
ThresholdCompacts ==
    writeCount >= CompactEvery /\ life = "up" ~> writeCount < CompactEvery \/ life # "up"

\* Close returns, also when calls of the database go on meanwhile.
CloseReturns == life = "closing" ~> life \in {"closed", "down"}

\* What the store promises about crashes, whoever calls it: see DurableMap.
InFlight == [k \in Keys |-> {e.val : e \in {f \in UNION {pend[c] : c \in Clients} : f.key = k}}]

Durable == INSTANCE DurableMap WITH
               mem <- store, disk <- Recovered, flight <- InFlight, up <- Alive

ImplementsDurableMap == Durable!Spec
=============================================================================
